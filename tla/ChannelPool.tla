---------------------------- MODULE ChannelPool ----------------------------
(***************************************************************************)
(* The pool of gRPC channels of a session.  Every request is made with the *)
(* channel of a ChannelGuard, which takes a channel out of the pool or     *)
(* creates one when it is constructed, and gives it back when it is        *)
(* destroyed.  A process of this module is a guard: AcquireChannel and     *)
(* ReleaseChannel are cut where they take or leave the lock.               *)
(*                                                                         *)
(* The states that ShutdownOnFailure accepts are "up", the others "down";  *)
(* gRPC changes them at any time.  A channel nobody refers to is gone, and *)
(* its name may stand for a channel created later.                         *)
(***************************************************************************)
EXTENDS Naturals, Sequences, FiniteSets

CONSTANTS
  Guards,    \* the guards
  Channels,  \* names for the channels that exist at one time
  NoChannel

ASSUME ChannelAssumption == NoChannel \notin Channels
ASSUME GuardAssumption == IsFiniteSet(Guards)

VARIABLES
  channel_pool_,  \* the queue of channels
  pc,             \* pc[g]: "out", "check", "create", "use" or "push"
  channel,        \* channel[g]: the channel of the guard, or NoChannel
  state,          \* state[c]: what GetState says
  peak            \* history: most guards at work at one time

poolVars == <<channel_pool_, pc, channel, state, peak>>

Init ==
  /\ channel_pool_ = <<>>
  /\ pc = [g \in Guards |-> "out"]
  /\ channel = [g \in Guards |-> NoChannel]
  /\ state = [c \in Channels |-> "up"]
  /\ peak = 0

Pooled == {channel_pool_[i] : i \in DOMAIN channel_pool_}
Live == Pooled \cup {channel[g] : g \in {g \in Guards : channel[g] # NoChannel}}
Working == {g \in Guards : pc[g] # "out"}

Goto(g, label) == pc' = [pc EXCEPT ![g] = label]

(* Mutant: the guard keeps what it has given back.                         *)
Keep(g) == UNCHANGED channel
Drop(g) == channel' = [channel EXCEPT ![g] = NoChannel]
ShutdownOnFailure(c) == state[c] = "down"

-----------------------------------------------------------------------------
(* AcquireChannel, under the lock: the oldest channel of the pool, if any. *)
(* Mutant: front without pop.                                              *)
FrontOnly == channel_pool_
Popped == Tail(channel_pool_)

(* Mutant: the pool is looked into later.                                  *)
NeverReused == FALSE
Reused == channel_pool_ # <<>>

Pop(g) ==
  /\ pc[g] = "out"
  /\ peak' = IF Cardinality(Working) < peak THEN peak ELSE Cardinality(Working) + 1
  /\ IF Reused
     THEN /\ channel' = [channel EXCEPT ![g] = Head(channel_pool_)]
          /\ channel_pool_' = Popped
          /\ Goto(g, "check")
     ELSE Goto(g, "create") /\ UNCHANGED <<channel, channel_pool_>>
  /\ UNCHANGED state

(* Outside the lock: an unhealthy channel is replaced by a new one.        *)
Check(g) ==
  /\ pc[g] = "check"
  /\ IF ShutdownOnFailure(channel[g])
     THEN Goto(g, "create") /\ Drop(g)
     ELSE Goto(g, "use") /\ UNCHANGED channel
  /\ UNCHANGED <<channel_pool_, state, peak>>

Create(g) ==
  /\ pc[g] = "create"
  /\ \E c \in Channels \ Live :
       /\ channel' = [channel EXCEPT ![g] = c]
       /\ state' = [state EXCEPT ![c] = "up"]
  /\ Goto(g, "use")
  /\ UNCHANGED <<channel_pool_, peak>>

(* The channel cannot be created (certificates that cannot be read): the   *)
(* guard is not constructed.                                               *)
CreateThrows(g) ==
  /\ pc[g] = "create"
  /\ Goto(g, "out")
  /\ UNCHANGED <<channel_pool_, channel, state, peak>>

(* ReleaseChannel: an unhealthy channel is dropped, another one is pushed. *)
Release(g) ==
  /\ pc[g] = "use"
  /\ IF ShutdownOnFailure(channel[g])
     THEN Goto(g, "out") /\ Drop(g)
     ELSE Goto(g, "push") /\ UNCHANGED channel
  /\ UNCHANGED <<channel_pool_, state, peak>>

Push(g) ==
  /\ pc[g] = "push"
  /\ channel_pool_' = Append(channel_pool_, channel[g])
  /\ Drop(g) /\ Goto(g, "out")
  /\ UNCHANGED <<state, peak>>

(* gRPC: connections fail and come back.                                   *)
Change(c) ==
  /\ state' = [state EXCEPT ![c] = IF state[c] = "up" THEN "down" ELSE "up"]
  /\ UNCHANGED <<channel_pool_, pc, channel, peak>>

Guard(g) == Pop(g) \/ Check(g) \/ Create(g) \/ CreateThrows(g) \/ Release(g) \/ Push(g)
Next == (\E g \in Guards : Guard(g)) \/ (\E c \in Live : Change(c))

PoolSpec == Init /\ [][Next]_poolVars

-----------------------------------------------------------------------------
(* The variables are of their types, and a guard has a channel exactly     *)
(* while it checks, uses or returns it.                                    *)
TypeOK ==
  /\ channel_pool_ \in Seq(Channels)
  /\ pc \in [Guards -> {"out", "check", "create", "use", "push"}]
  /\ channel \in [Guards -> Channels \cup {NoChannel}]
  /\ \A g \in Guards : (pc[g] \in {"check", "use", "push"}) <=> (channel[g] # NoChannel)
  /\ state \in [Channels -> {"up", "down"}]
  /\ peak \in Nat

(* A channel has one owner: it is in the pool once, or of one guard, so    *)
(* that no two requests ever share a channel.                              *)
Exclusive ==
  /\ \A i, j \in DOMAIN channel_pool_ : channel_pool_[i] = channel_pool_[j] => i = j
  /\ \A g \in Guards : channel[g] \notin Pooled
  /\ \A g, h \in Guards : channel[g] = channel[h] /\ channel[g] # NoChannel => g = h

(* Channels are created for concurrency only: there are never more of them *)
(* than there have been guards at work at one time.                        *)
ChannelsBounded == Len(channel_pool_) + Cardinality(Working) <= peak
=============================================================================
