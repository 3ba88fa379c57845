--------------------------- MODULE Upload_proofs ---------------------------
(***************************************************************************)
(* TypeOK, Exclusive and ChannelsBounded for any guards and channels.      *)
(* TypeOK and Exclusive are inductive together: a channel that is popped,  *)
(* pushed or created is found at one place only because all places are     *)
(* distinct before.  ChannelsBounded needs, besides, that Len and          *)
(* Cardinality move in opposite directions.                                *)
(*                                                                         *)
(* Uploads use the pool as ChannelPool allows, so these theorems hold of   *)
(* them; and what an upload returns or throws is right, for any threads,   *)
(* chunks and number of attempts.  ReturnedIsStored is not inductive: an   *)
(* upload returns because no exception is kept, so the invariant relates   *)
(* the exception, the place in the loop and what has been stored.          *)
(***************************************************************************)
EXTENDS Upload, FiniteSetTheorems, TLAPS

Owned == TypeOK /\ Exclusive

(* A queue without its head: its elements are the others, if all are       *)
(* distinct.                                                               *)
LEMMA TailOfDistinct ==
  ASSUME NEW S, NEW q \in Seq(S), q # <<>>,
         \A i, j \in DOMAIN q : q[i] = q[j] => i = j
  PROVE  /\ Tail(q) \in Seq(S) /\ Head(q) \in S /\ Len(Tail(q)) = Len(q) - 1
         /\ \A i \in DOMAIN Tail(q) : i + 1 \in DOMAIN q /\ Tail(q)[i] = q[i + 1]
         /\ \A i, j \in DOMAIN Tail(q) : Tail(q)[i] = Tail(q)[j] => i = j
         /\ \A i \in DOMAIN Tail(q) : Tail(q)[i] # Head(q)
<1>1. /\ Tail(q) \in Seq(S) /\ Head(q) \in S /\ Len(Tail(q)) = Len(q) - 1
      /\ DOMAIN Tail(q) = 1..Len(q) - 1 /\ DOMAIN q = 1..Len(q) /\ Len(q) \in Nat \ {0}
      /\ Head(q) = q[1]
  OBVIOUS
<1>2. \A i \in DOMAIN Tail(q) : i + 1 \in DOMAIN q /\ i + 1 # 1 /\ Tail(q)[i] = q[i + 1]
  BY <1>1
<1>3. 1 \in DOMAIN q
  BY <1>1
<1>4. ASSUME NEW i \in DOMAIN Tail(q), NEW j \in DOMAIN Tail(q), Tail(q)[i] = Tail(q)[j]
      PROVE  i = j
  <2>1. i + 1 = j + 1
    BY <1>2, <1>4
  <2> QED
    BY <2>1, <1>1
<1> QED
  BY <1>1, <1>2, <1>3, <1>4

(* A queue with one element more.                                          *)
LEMMA AppendToDistinct ==
  ASSUME NEW S, NEW q \in Seq(S), NEW c \in S,
         \A i, j \in DOMAIN q : q[i] = q[j] => i = j,
         \A i \in DOMAIN q : q[i] # c
  PROVE  /\ Append(q, c) \in Seq(S) /\ Len(Append(q, c)) = Len(q) + 1
         /\ \A i \in DOMAIN Append(q, c) :
              (i \in DOMAIN q /\ Append(q, c)[i] = q[i]) \/ Append(q, c)[i] = c
         /\ \A i, j \in DOMAIN Append(q, c) : Append(q, c)[i] = Append(q, c)[j] => i = j
<1>1. /\ Append(q, c) \in Seq(S) /\ Len(Append(q, c)) = Len(q) + 1
      /\ DOMAIN Append(q, c) = 1..Len(q) + 1 /\ DOMAIN q = 1..Len(q) /\ Len(q) \in Nat
  OBVIOUS
<1>2. \A i \in DOMAIN Append(q, c) :
        \/ i \in DOMAIN q /\ Append(q, c)[i] = q[i]
        \/ i = Len(q) + 1 /\ Append(q, c)[i] = c
  BY <1>1
<1> QED
  BY <1>1, <1>2

LEMMA OwnedInit == Init => Owned
<1> SUFFICES ASSUME Init PROVE Owned
  OBVIOUS
<1>1. TypeOK
  BY DEF Init, TypeOK
<1>2. DOMAIN channel_pool_ = {}
  BY DEF Init
<1>3. Exclusive
  BY <1>2, ChannelAssumption DEF Init, Exclusive, Pooled
<1> QED
  BY <1>1, <1>3 DEF Owned

LEMMA OwnedPop ==
  ASSUME Owned, NEW g \in Guards, Pop(g) PROVE Owned'
<1> USE DEF Owned
<1>1. peak' \in Nat
  <2>1. IsFiniteSet(Working)
    BY GuardAssumption, FS_Subset DEF Working
  <2>2. Cardinality(Working) \in Nat
    BY <2>1, FS_CardinalityType
  <2> QED
    BY <2>2 DEF Pop, TypeOK
<1>2. CASE Reused
  <2>1. /\ channel_pool_ # <<>> /\ channel_pool_' = Tail(channel_pool_) /\ pc[g] = "out"
        /\ channel' = [channel EXCEPT ![g] = Head(channel_pool_)]
        /\ pc' = [pc EXCEPT ![g] = "check"] /\ state' = state
    BY <1>2 DEF Pop, Popped, Reused, Goto
  <2>2. /\ Tail(channel_pool_) \in Seq(Channels) /\ Head(channel_pool_) \in Channels
        /\ \A i \in DOMAIN Tail(channel_pool_) :
             i + 1 \in DOMAIN channel_pool_ /\ Tail(channel_pool_)[i] = channel_pool_[i + 1]
        /\ \A i, j \in DOMAIN Tail(channel_pool_) :
             Tail(channel_pool_)[i] = Tail(channel_pool_)[j] => i = j
        /\ \A i \in DOMAIN Tail(channel_pool_) : Tail(channel_pool_)[i] # Head(channel_pool_)
    BY <2>1, TailOfDistinct DEF TypeOK, Exclusive
  <2>3. Head(channel_pool_) \in Pooled
    <3>1. 1 \in DOMAIN channel_pool_ /\ Head(channel_pool_) = channel_pool_[1]
      BY <2>1 DEF TypeOK
    <3> QED
      BY <3>1 DEF Pooled
  <2>4. Pooled' \subseteq Pooled /\ Head(channel_pool_) \notin Pooled'
    BY <2>1, <2>2 DEF Pooled
  <2>5. TypeOK'
    BY <1>1, <2>1, <2>2, ChannelAssumption DEF TypeOK
  <2>6. Exclusive'
    BY <2>1, <2>2, <2>3, <2>4 DEF Exclusive, TypeOK
  <2> QED
    BY <2>5, <2>6
<1>3. CASE ~Reused
  <2>1. /\ channel_pool_' = channel_pool_ /\ channel' = channel /\ state' = state
        /\ pc' = [pc EXCEPT ![g] = "create"] /\ pc[g] = "out"
    BY <1>3 DEF Pop, Goto
  <2>2. TypeOK'
    BY <1>1, <2>1 DEF TypeOK
  <2>3. Exclusive'
    BY <2>1 DEF Exclusive, Pooled
  <2> QED
    BY <2>2, <2>3
<1> QED
  BY <1>2, <1>3

LEMMA OwnedCheckOrRelease ==
  ASSUME Owned, NEW g \in Guards, Check(g) \/ Release(g) PROVE Owned'
<1> USE DEF Owned
<1>1. /\ channel_pool_' = channel_pool_ /\ state' = state /\ peak' = peak
      /\ pc[g] \in {"check", "use"}
      /\ \/ /\ channel' = [channel EXCEPT ![g] = NoChannel]
            /\ pc' = [pc EXCEPT ![g] = "create"] \/ pc' = [pc EXCEPT ![g] = "out"]
         \/ /\ channel' = channel
            /\ pc' = [pc EXCEPT ![g] = "use"] \/ pc' = [pc EXCEPT ![g] = "push"]
  BY DEF Check, Release, Goto, Drop
<1>2. TypeOK'
  BY <1>1 DEF TypeOK
<1>3. NoChannel \notin Pooled
  BY ChannelAssumption DEF TypeOK, Pooled
<1>4. Exclusive'
  BY <1>1, <1>3 DEF Exclusive, Pooled, TypeOK
<1> QED
  BY <1>2, <1>4

LEMMA OwnedCreate ==
  ASSUME Owned, NEW g \in Guards, Create(g) PROVE Owned'
<1> USE DEF Owned
<1>1. PICK c \in Channels \ Live : /\ channel' = [channel EXCEPT ![g] = c]
                                   /\ state' = [state EXCEPT ![c] = "up"]
  BY DEF Create
<1>2. /\ channel_pool_' = channel_pool_ /\ peak' = peak
      /\ pc[g] = "create" /\ pc' = [pc EXCEPT ![g] = "use"]
  BY DEF Create, Goto
<1>3. c \notin Pooled /\ \A h \in Guards : channel[h] # c
  BY <1>1, ChannelAssumption DEF Live
<1>4. TypeOK'
  BY <1>1, <1>2, ChannelAssumption DEF TypeOK
<1>5. Exclusive'
  BY <1>1, <1>2, <1>3 DEF Exclusive, Pooled, TypeOK
<1> QED
  BY <1>4, <1>5

LEMMA OwnedPush ==
  ASSUME Owned, NEW g \in Guards, Push(g) PROVE Owned'
<1> USE DEF Owned
<1>1. /\ channel_pool_' = Append(channel_pool_, channel[g]) /\ pc[g] = "push"
      /\ channel' = [channel EXCEPT ![g] = NoChannel] /\ pc' = [pc EXCEPT ![g] = "out"]
      /\ state' = state /\ peak' = peak
  BY DEF Push, Goto, Drop
<1>2. channel[g] \in Channels /\ \A i \in DOMAIN channel_pool_ : channel_pool_[i] # channel[g]
  BY <1>1 DEF TypeOK, Exclusive, Pooled
<1>3. /\ channel_pool_' \in Seq(Channels)
      /\ \A i \in DOMAIN channel_pool_' :
           (i \in DOMAIN channel_pool_ /\ channel_pool_'[i] = channel_pool_[i])
           \/ channel_pool_'[i] = channel[g]
      /\ \A i, j \in DOMAIN channel_pool_' : channel_pool_'[i] = channel_pool_'[j] => i = j
  BY <1>1, <1>2, AppendToDistinct DEF TypeOK, Exclusive
<1>4. Pooled' \subseteq Pooled \cup {channel[g]}
  BY <1>3 DEF Pooled
<1>5. NoChannel \notin Pooled'
  BY <1>3, ChannelAssumption DEF Pooled
<1>6. TypeOK'
  BY <1>1, <1>3 DEF TypeOK
<1>7. Exclusive'
  BY <1>1, <1>2, <1>3, <1>4, <1>5 DEF Exclusive, TypeOK
<1> QED
  BY <1>6, <1>7

(* TypeOK and Exclusive are inductive.                                     *)
LEMMA OwnedStep == Owned /\ [Next]_poolVars => Owned'
<1> SUFFICES ASSUME Owned, [Next]_poolVars PROVE Owned'
  OBVIOUS
<1>1. ASSUME NEW g \in Guards, Guard(g) PROVE Owned'
  <2>1. CASE CreateThrows(g)
    <3>1. /\ channel_pool_' = channel_pool_ /\ channel' = channel /\ state' = state
          /\ peak' = peak /\ pc' = [pc EXCEPT ![g] = "out"] /\ pc[g] = "create"
      BY <2>1 DEF CreateThrows, Goto
    <3> QED
      BY <3>1 DEF Owned, TypeOK, Exclusive, Pooled
  <2> QED
    BY <1>1, <2>1, OwnedPop, OwnedCheckOrRelease, OwnedCreate, OwnedPush DEF Guard
<1>2. ASSUME NEW c \in Live, Change(c) PROVE Owned'
  <2>1. /\ channel_pool_' = channel_pool_ /\ pc' = pc /\ channel' = channel /\ peak' = peak
        /\ state' = [state EXCEPT ![c] = IF state[c] = "up" THEN "down" ELSE "up"]
    BY <1>2 DEF Change
  <2>2. state' \in [Channels -> {"up", "down"}]
    BY <2>1 DEF Owned, TypeOK
  <2>3. TypeOK'
    BY <2>1, <2>2 DEF Owned, TypeOK
  <2>4. Exclusive'
    BY <2>1 DEF Owned, Exclusive, Pooled
  <2> QED
    BY <2>3, <2>4 DEF Owned
<1>3. CASE UNCHANGED poolVars
  BY <1>3 DEF poolVars, Owned, TypeOK, Exclusive, Pooled
<1> QED
  BY <1>1, <1>2, <1>3 DEF Next

(* The variables of the pool are always of their types.                    *)
THEOREM ChannelTypeOK == PoolSpec => []TypeOK
<1>1. Owned => TypeOK
  BY DEF Owned
<1> QED
  BY OwnedInit, OwnedStep, <1>1, PTL DEF PoolSpec

(* Whatever the number of guards and however their steps interleave, a     *)
(* channel is never used by two guards, nor pooled while one has it.       *)
THEOREM ChannelsAreExclusive == PoolSpec => []Exclusive
<1>1. Owned => Exclusive
  BY DEF Owned
<1> QED
  BY OwnedInit, OwnedStep, <1>1, PTL DEF PoolSpec

-----------------------------------------------------------------------------
(* A guard starts or stops working.                                        *)
LEMMA WorkingFinite == IsFiniteSet(Working) /\ Cardinality(Working) \in Nat
<1>1. IsFiniteSet(Working)
  BY GuardAssumption, FS_Subset DEF Working
<1> QED
  BY <1>1, FS_CardinalityType

LEMMA WorkingStarts ==
  ASSUME TypeOK, NEW g \in Guards, pc[g] = "out", NEW label \in {"check", "create"},
         pc' = [pc EXCEPT ![g] = label]
  PROVE  Cardinality(Working') = Cardinality(Working) + 1
<1>1. Working' = Working \cup {g} /\ g \notin Working
  BY DEF Working, TypeOK
<1> QED
  BY <1>1, WorkingFinite, FS_AddElement

LEMMA WorkingStops ==
  ASSUME TypeOK, NEW g \in Guards, pc[g] # "out", pc' = [pc EXCEPT ![g] = "out"]
  PROVE  Cardinality(Working') = Cardinality(Working) - 1
<1>1. Working' = Working \ {g} /\ g \in Working
  BY DEF Working, TypeOK
<1> QED
  BY <1>1, WorkingFinite, FS_RemoveElement

LEMMA WorkingGoesOn ==
  ASSUME TypeOK, NEW g \in Guards, pc[g] # "out", NEW label \in {"create", "use", "push"},
         pc' = [pc EXCEPT ![g] = label]
  PROVE  Working' = Working
BY DEF Working, TypeOK

LEMMA BoundedStep == Owned /\ ChannelsBounded /\ [Next]_poolVars => ChannelsBounded'
<1> SUFFICES ASSUME Owned, ChannelsBounded, [Next]_poolVars PROVE ChannelsBounded'
  OBVIOUS
<1>0. /\ TypeOK /\ channel_pool_ \in Seq(Channels) /\ Len(channel_pool_) \in Nat /\ peak \in Nat
      /\ Cardinality(Working) \in Nat
      /\ Len(channel_pool_) + Cardinality(Working) <= peak
  BY WorkingFinite DEF Owned, TypeOK, ChannelsBounded
<1>1. ASSUME NEW g \in Guards, Pop(g) PROVE ChannelsBounded'
  <2>1. Cardinality(Working') = Cardinality(Working) + 1
    BY <1>0, <1>1, WorkingStarts DEF Pop, Goto
  <2>2. peak' = IF Cardinality(Working) < peak THEN peak ELSE Cardinality(Working) + 1
    BY <1>1 DEF Pop
  <2>3. CASE Reused
    <3>1. channel_pool_ # <<>> /\ channel_pool_' = Tail(channel_pool_)
      BY <1>1, <2>3 DEF Pop, Popped, Reused
    <3>2. Len(channel_pool_') = Len(channel_pool_) - 1 /\ Len(channel_pool_) # 0
      BY <1>0, <3>1
    <3> QED
      BY <1>0, <2>1, <2>2, <3>2 DEF ChannelsBounded
  <2>4. CASE ~Reused
    <3>1. channel_pool_' = channel_pool_ /\ Len(channel_pool_) = 0
      BY <1>1, <2>4, <1>0 DEF Pop, Reused
    <3> QED
      BY <1>0, <2>1, <2>2, <3>1 DEF ChannelsBounded
  <2> QED
    BY <2>3, <2>4
<1>2. ASSUME NEW g \in Guards, Check(g) \/ Create(g) PROVE ChannelsBounded'
  <2>1. Working' = Working
    BY <1>0, <1>2, WorkingGoesOn DEF Check, Create, Goto
  <2> QED
    BY <1>0, <1>2, <2>1 DEF Check, Create, ChannelsBounded
<1>3. ASSUME NEW g \in Guards, CreateThrows(g) PROVE ChannelsBounded'
  <2>1. Cardinality(Working') = Cardinality(Working) - 1
    BY <1>0, <1>3, WorkingStops DEF CreateThrows, Goto
  <2> QED
    BY <1>0, <1>3, <2>1 DEF CreateThrows, ChannelsBounded
<1>4. ASSUME NEW g \in Guards, Release(g) PROVE ChannelsBounded'
  <2>1. channel_pool_' = channel_pool_ /\ peak' = peak /\ pc[g] = "use"
        /\ (pc' = [pc EXCEPT ![g] = "out"] \/ pc' = [pc EXCEPT ![g] = "push"])
    BY <1>4 DEF Release, Goto, Drop
  <2>2. CASE pc' = [pc EXCEPT ![g] = "out"]
    <3>1. Cardinality(Working') = Cardinality(Working) - 1
      BY <1>0, <2>1, <2>2, WorkingStops
    <3> QED
      BY <1>0, <2>1, <3>1 DEF ChannelsBounded
  <2>3. CASE pc' = [pc EXCEPT ![g] = "push"]
    BY <1>0, <2>1, <2>3, WorkingGoesOn DEF ChannelsBounded
  <2> QED
    BY <2>1, <2>2, <2>3
<1>5. ASSUME NEW g \in Guards, Push(g) PROVE ChannelsBounded'
  <2>1. Cardinality(Working') = Cardinality(Working) - 1
    BY <1>0, <1>5, WorkingStops DEF Push, Goto
  <2>2. channel[g] \in Channels
    BY <1>0, <1>5 DEF Push, TypeOK
  <2>3. Len(channel_pool_') = Len(channel_pool_) + 1
    BY <1>0, <1>5, <2>2 DEF Push
  <2> QED
    BY <1>0, <1>5, <2>1, <2>3 DEF Push, ChannelsBounded
<1>6. ASSUME NEW c \in Live, Change(c) PROVE ChannelsBounded'
  BY <1>0, <1>6 DEF Change, ChannelsBounded, Working
<1>7. CASE UNCHANGED poolVars
  BY <1>0, <1>7 DEF poolVars, ChannelsBounded, Working
<1> QED
  BY <1>1, <1>2, <1>3, <1>4, <1>5, <1>6, <1>7 DEF Next, Guard

(* There are never more channels than there have been guards at work at    *)
(* one time: the pool does not grow with the number of requests.           *)
THEOREM ChannelsAreBounded == PoolSpec => []ChannelsBounded
<1>1. Init => ChannelsBounded
  <2> SUFFICES ASSUME Init PROVE ChannelsBounded
    OBVIOUS
  <2>1. Working = {} /\ Len(channel_pool_) = 0 /\ peak = 0
    BY DEF Init, Working
  <2> QED
    BY <2>1, FS_EmptySet DEF ChannelsBounded
<1> QED
  BY <1>1, OwnedInit, OwnedStep, BoundedStep, PTL DEF PoolSpec
-----------------------------------------------------------------------------
(* Every step of an upload, of another request or of gRPC is a step of the *)
(* pool, or leaves it as it is.                                            *)
LEMMA UploadStepIsPoolStep == [UploadNext]_vars => [Next]_poolVars
<1> SUFFICES ASSUME [UploadNext]_vars PROVE [Next]_poolVars
  OBVIOUS
<1>1. \A t \in Threads : Stream(t) \in Guards /\ Delete(t) \in Guards
  BY UploadAssumption DEF Stream, Delete
<1>2. ASSUME NEW t \in Threads, Thread(t) PROVE [Next]_poolVars
  <2>1. CASE Attempt(t) \/ Cleanup(t)
    BY <1>1, <2>1 DEF Attempt, Cleanup, Next, Guard
  <2>2. CASE NoStreamChannel(t) \/ NoDeleteChannel(t)
    BY <1>1, <2>2 DEF NoStreamChannel, NoDeleteChannel, Next, Guard
  <2>3. CASE DeleteData(t) \/ LeaveTry(t)
    BY <1>1, <2>3 DEF DeleteData, LeaveTry, Next, Guard
  <2>4. CASE PoolStep(Stream(t)) \/ PoolStep(Delete(t))
    BY <1>1, <2>4 DEF PoolStep, Next, Guard
  <2>5. CASE WriteChunk(t) \/ StreamFails(t) \/ Finish(t) \/ Break(t) \/ Again(t)
    BY <2>5 DEF WriteChunk, StreamFails, Finish, Break, Again
  <2> QED
    BY <1>2, <2>1, <2>2, <2>3, <2>4, <2>5 DEF Thread
<1>3. ASSUME NEW g \in Others, Guard(g) PROVE Next
  BY <1>3, UploadAssumption DEF Next
<1>4. ASSUME NEW c \in Live, Change(c) PROVE Next
  BY <1>4 DEF Next
<1>5. CASE UNCHANGED vars
  BY <1>5 DEF vars
<1> QED
  BY <1>2, <1>3, <1>4, <1>5 DEF UploadNext

(* Uploads implement the channel pool.                                     *)
THEOREM UploadsUseThePool == UploadSpec => PoolSpec
<1>1. UploadInit => Init
  BY DEF UploadInit
<1> QED
  BY <1>1, UploadStepIsPoolStep, PTL DEF UploadSpec, PoolSpec

(* No two requests share a channel while uploads and other requests run.   *)
THEOREM UploadsAreExclusive == UploadSpec => []Exclusive
BY UploadsUseThePool, ChannelsAreExclusive, PTL

-----------------------------------------------------------------------------
(* One thread: where it is, which guards it has, the exception it keeps    *)
(* and what it has stored.                                                 *)
ThreadOK(t) ==
  /\ at[t] \in {"attempt", "returned", "thrown"} => pc[Stream(t)] = "out"
  /\ at[t] \notin {"cleanup", "unwind"} => pc[Delete(t)] = "out"
  /\ at[t] \in {"stream", "mismatch", "cleanup", "good", "returned"} => ~eptr[t]
  /\ at[t] \in {"unwind", "thrown"} => eptr[t]
  /\ at[t] \in {"good", "returned"} => stored[t] = Chunks
  /\ at[t] # "thrown" => retry[t] < max_retry
  /\ at[t] = "thrown" => retry[t] = max_retry

Types ==
  /\ at \in [Threads -> {"attempt", "stream", "mismatch", "cleanup", "unwind", "good",
                         "returned", "thrown"}]
  /\ retry \in [Threads -> 0..max_retry] /\ eptr \in [Threads -> BOOLEAN]
  /\ sent \in [Threads -> 0..Chunks] /\ stored \in [Threads -> 0..Chunks]

UploadInv == Types /\ \A t \in Threads : ThreadOK(t)

LEMMA GuardsDistinct ==
  ASSUME NEW t \in Threads
  PROVE  /\ Stream(t) \in Guards /\ Delete(t) \in Guards /\ Stream(t) # Delete(t)
         /\ Stream(t) \notin Others /\ Delete(t) \notin Others
         /\ \A s \in Threads \ {t} :
              {Stream(s), Delete(s)} \cap {Stream(t), Delete(t)} = {}
BY UploadAssumption DEF Stream, Delete

(* A step of a guard moves that guard only.                                *)
LEMMA GuardFrame ==
  ASSUME TypeOK, NEW g \in Guards,
         Pop(g) \/ Check(g) \/ Create(g) \/ CreateThrows(g) \/ Release(g) \/ Push(g)
  PROVE  \A h \in Guards \ {g} : pc'[h] = pc[h]
<1>1. \E label : pc' = [pc EXCEPT ![g] = label]
  BY DEF Pop, Check, Create, CreateThrows, Release, Push, Goto
<1> QED
  BY <1>1 DEF TypeOK

(* A thread whose own state a step does not touch is as it was.            *)
LEMMA ThreadFrame ==
  ASSUME NEW s \in Threads, ThreadOK(s),
         at'[s] = at[s], retry'[s] = retry[s], eptr'[s] = eptr[s], stored'[s] = stored[s],
         pc'[Stream(s)] = pc[Stream(s)], pc'[Delete(s)] = pc[Delete(s)]
  PROVE  ThreadOK(s)'
BY DEF ThreadOK, Stream, Delete

LEMMA UploadInvInit == UploadInit => UploadInv
<1> SUFFICES ASSUME UploadInit PROVE UploadInv
  OBVIOUS
<1>1. Types
  BY UploadAssumption DEF UploadInit, Types
<1>2. ASSUME NEW t \in Threads PROVE ThreadOK(t)
  BY GuardsDistinct, UploadAssumption DEF UploadInit, Init, ThreadOK
<1> QED
  BY <1>1, <1>2 DEF UploadInv

(* A step of thread t that keeps the guards of the other threads and what  *)
(* they know has only t's own ThreadOK to establish.                       *)
LEMMA OneThread ==
  ASSUME UploadInv, NEW t \in Threads, ThreadOK(t)',
         \A s \in Threads \ {t} :
           /\ at'[s] = at[s] /\ retry'[s] = retry[s]
           /\ eptr'[s] = eptr[s] /\ stored'[s] = stored[s]
           /\ pc'[Stream(s)] = pc[Stream(s)] /\ pc'[Delete(s)] = pc[Delete(s)]
  PROVE  \A s \in Threads : ThreadOK(s)'
<1>1. ASSUME NEW s \in Threads, s # t PROVE ThreadOK(s)'
  BY <1>1, ThreadFrame DEF UploadInv
<1> QED
  BY <1>1

(* The steps of the calls of gRPC, which leave the pool alone.             *)
LEMMA StreamSteps ==
  ASSUME UploadInv, NEW t \in Threads,
         WriteChunk(t) \/ StreamFails(t) \/ Finish(t) \/ Break(t) \/ Again(t)
  PROVE  UploadInv'
<1> USE UploadAssumption DEF UploadInv, Types
<1>0. ThreadOK(t)
  OBVIOUS
<1>1. CASE WriteChunk(t)
  <2>1. Types'
    BY <1>1 DEF WriteChunk
  <2>2. ThreadOK(t)'
    BY <1>0, <1>1 DEF WriteChunk, ThreadOK, poolVars
  <2> QED
    BY <1>1, <2>1, <2>2, OneThread DEF WriteChunk, poolVars
<1>2. CASE StreamFails(t)
  <2>1. Types'
    <3>1. PICK n \in {stored[t]} \cup 0..sent[t] : stored' = [stored EXCEPT ![t] = n]
      BY <1>2 DEF StreamFails
    <3>2. n \in 0..Chunks
      BY <3>1
    <3> QED
      BY <1>2, <3>1, <3>2 DEF StreamFails, Throw, Become
  <2>2. ThreadOK(t)'
    BY <1>0, <1>2 DEF StreamFails, Throw, Become, ThreadOK, poolVars
  <2> QED
    BY <1>2, <2>1, <2>2, OneThread DEF StreamFails, Throw, Become, poolVars
<1>3. CASE Finish(t)
  <2>1. PICK n \in 0..Chunks :
          /\ stored' = [stored EXCEPT ![t] = n]
          /\ at' = [at EXCEPT ![t] = IF n = Chunks THEN "good" ELSE "mismatch"]
    BY <1>3 DEF Finish, Become, RightSize
  <2>2. Types'
    BY <1>3, <2>1 DEF Finish
  <2>3. ThreadOK(t)'
    BY <1>0, <1>3, <2>1 DEF Finish, ThreadOK, poolVars
  <2> QED
    BY <1>3, <2>1, <2>2, <2>3, OneThread DEF Finish, poolVars
<1>4. CASE Break(t)
  <2>1. at' = [at EXCEPT ![t] = "returned"]
    BY <1>0, <1>4 DEF Break, Become, Outcome, ThreadOK
  <2>2. Types'
    BY <1>4, <2>1 DEF Break
  <2>3. ThreadOK(t)'
    BY <1>0, <1>4, <2>1 DEF Break, Settled, ThreadOK, poolVars, Stream, Delete
  <2> QED
    BY <1>4, <2>1, <2>2, <2>3, OneThread DEF Break, poolVars
<1>5. CASE Again(t)
  <2>1. /\ retry[t] < max_retry /\ retry[t] \in Nat /\ eptr[t]
        /\ retry' = [retry EXCEPT ![t] = retry[t] + 1]
    BY <1>0, <1>5 DEF Again, Counted, ThreadOK
  <2>2. at' = [at EXCEPT ![t] = IF retry[t] + 1 < max_retry THEN "attempt" ELSE "thrown"]
    BY <1>5, <2>1 DEF Again, Become, Counted, Outcome
  <2>3. Types'
    BY <1>5, <2>1, <2>2 DEF Again
  <2>4. ThreadOK(t)'
    BY <1>0, <1>5, <2>1, <2>2 DEF Again, Settled, ThreadOK, poolVars, Stream, Delete
  <2> QED
    BY <1>5, <2>1, <2>2, <2>3, <2>4, OneThread DEF Again, poolVars
<1> QED
  BY <1>1, <1>2, <1>3, <1>4, <1>5

(* The steps that move a guard of the thread.                              *)
LEMMA GuardSteps ==
  ASSUME UploadInv, TypeOK, NEW t \in Threads,
         \/ Attempt(t) \/ NoStreamChannel(t) \/ Cleanup(t) \/ NoDeleteChannel(t)
         \/ DeleteData(t) \/ LeaveTry(t)
         \/ PoolStep(Stream(t)) \/ PoolStep(Delete(t))
  PROVE  UploadInv'
<1> USE UploadAssumption DEF UploadInv, Types
<1>0. ThreadOK(t) /\ pc \in [Guards -> {"out", "check", "create", "use", "push"}]
  BY DEF TypeOK
<1>g. /\ Stream(t) \in Guards /\ Delete(t) \in Guards /\ Stream(t) # Delete(t)
      /\ \A s \in Threads \ {t} : /\ Stream(s) \in Guards \ {Stream(t), Delete(t)}
                                  /\ Delete(s) \in Guards \ {Stream(t), Delete(t)}
  BY GuardsDistinct
<1>1. CASE Attempt(t)
  <2>1. /\ Pop(Stream(t)) /\ at' = [at EXCEPT ![t] = "stream"]
        /\ eptr' = [eptr EXCEPT ![t] = FALSE] /\ sent' = [sent EXCEPT ![t] = 0]
        /\ UNCHANGED <<retry, stored>> /\ at[t] = "attempt"
    BY <1>1 DEF Attempt, Become, ResetException
  <2>2. \A h \in Guards \ {Stream(t)} : pc'[h] = pc[h]
    BY <1>g, <2>1, GuardFrame
  <2>3. Types'
    BY <2>1
  <2>4. ThreadOK(t)'
    BY <1>0, <1>g, <2>1, <2>2 DEF ThreadOK, Stream, Delete
  <2> QED
    BY <1>g, <2>1, <2>2, <2>3, <2>4, OneThread
<1>2. CASE NoStreamChannel(t)
  <2>1. /\ CreateThrows(Stream(t)) /\ at' = [at EXCEPT ![t] = "unwind"]
        /\ eptr' = [eptr EXCEPT ![t] = TRUE] /\ UNCHANGED <<retry, sent, stored>>
        /\ at[t] = "stream"
    BY <1>2 DEF NoStreamChannel, Throw, Become
  <2>2. \A h \in Guards \ {Stream(t)} : pc'[h] = pc[h]
    BY <1>g, <2>1, GuardFrame
  <2>3. Types'
    BY <2>1
  <2>4. ThreadOK(t)'
    BY <1>0, <1>g, <2>1, <2>2 DEF ThreadOK, Stream, Delete
  <2> QED
    BY <1>g, <2>1, <2>2, <2>3, <2>4, OneThread
<1>3. CASE Cleanup(t)
  <2>1. /\ Pop(Delete(t)) /\ at' = [at EXCEPT ![t] = "cleanup"]
        /\ UNCHANGED <<retry, eptr, sent, stored>> /\ at[t] = "mismatch"
    BY <1>3 DEF Cleanup, Become
  <2>2. \A h \in Guards \ {Delete(t)} : pc'[h] = pc[h]
    BY <1>g, <2>1, GuardFrame
  <2>3. Types'
    BY <2>1
  <2>4. ThreadOK(t)'
    BY <1>0, <1>g, <2>1, <2>2 DEF ThreadOK, Stream, Delete
  <2> QED
    BY <1>g, <2>1, <2>2, <2>3, <2>4, OneThread
<1>4. CASE NoDeleteChannel(t) \/ DeleteData(t)
  <2>1. /\ CreateThrows(Delete(t)) \/ Release(Delete(t))
        /\ at' = [at EXCEPT ![t] = "unwind"] /\ eptr' = [eptr EXCEPT ![t] = TRUE]
        /\ UNCHANGED <<retry, sent>> /\ at[t] = "cleanup"
    BY <1>4 DEF NoDeleteChannel, DeleteData, Throw, Become
  <2>2. PICK n \in 0..Chunks : stored' = [stored EXCEPT ![t] = n]
    BY <1>4 DEF NoDeleteChannel, DeleteData
  <2>3. \A h \in Guards \ {Delete(t)} : pc'[h] = pc[h]
    BY <1>g, <2>1, GuardFrame
  <2>4. Types'
    BY <2>1, <2>2
  <2>5. ThreadOK(t)'
    BY <1>0, <1>g, <2>1, <2>2, <2>3 DEF ThreadOK, Stream, Delete
  <2> QED
    BY <1>g, <2>1, <2>2, <2>3, <2>4, <2>5, OneThread
<1>5. CASE LeaveTry(t)
  <2>1. /\ Release(Stream(t)) /\ at[t] \in {"good", "unwind"}
        /\ UNCHANGED <<at, retry, eptr, sent, stored>>
    BY <1>5 DEF LeaveTry, uploadVars
  <2>2. \A h \in Guards \ {Stream(t)} : pc'[h] = pc[h]
    BY <1>g, <2>1, GuardFrame
  <2>3. Types'
    BY <2>1
  <2>4. ThreadOK(t)'
    BY <1>0, <1>g, <2>1, <2>2 DEF ThreadOK, Stream, Delete
  <2> QED
    BY <1>g, <2>1, <2>2, <2>3, <2>4, OneThread
<1>6. ASSUME NEW g \in {Stream(t), Delete(t)}, PoolStep(g) PROVE UploadInv'
  <2>1. /\ Check(g) \/ Create(g) \/ Push(g)
        /\ UNCHANGED <<at, retry, eptr, sent, stored>> /\ g \in Guards
    BY <1>g, <1>6 DEF PoolStep, uploadVars
  <2>2. \A h \in Guards \ {g} : pc'[h] = pc[h]
    BY <2>1, GuardFrame
  <2>3. pc[g] # "out"
    BY <2>1 DEF Check, Create, Push
  <2>4. Types'
    BY <2>1
  <2>5. ThreadOK(t)'
    BY <1>0, <1>g, <2>1, <2>2, <2>3 DEF ThreadOK, Stream, Delete
  <2> QED
    BY <1>g, <2>1, <2>2, <2>4, <2>5, OneThread
<1> QED
  BY <1>1, <1>2, <1>3, <1>4, <1>5, <1>6

LEMMA UploadInvStep == UploadInv /\ TypeOK /\ [UploadNext]_vars => UploadInv'
<1> SUFFICES ASSUME UploadInv, TypeOK, [UploadNext]_vars PROVE UploadInv'
  OBVIOUS
<1>1. ASSUME NEW t \in Threads, Thread(t) PROVE UploadInv'
  BY <1>1, StreamSteps, GuardSteps DEF Thread
<1>2. ASSUME NEW g \in Others, Guard(g), UNCHANGED uploadVars PROVE UploadInv'
  <2>1. g \in Guards
    BY UploadAssumption
  <2>2. \A h \in Guards \ {g} : pc'[h] = pc[h]
    BY <1>2, <2>1, GuardFrame DEF Guard
  <2>3. ASSUME NEW t \in Threads PROVE ThreadOK(t)'
    <3>1. /\ Stream(t) \in Guards \ {g} /\ Delete(t) \in Guards \ {g}
      BY GuardsDistinct
    <3> QED
      BY <1>2, <2>2, <3>1, ThreadFrame DEF UploadInv, uploadVars
  <2> QED
    BY <1>2, <2>3 DEF UploadInv, Types, uploadVars
<1>3. CASE UNCHANGED <<pc, uploadVars>>
  <2>1. ASSUME NEW t \in Threads PROVE ThreadOK(t)'
    BY <1>3, ThreadFrame DEF UploadInv, uploadVars
  <2> QED
    BY <1>3, <2>1 DEF UploadInv, Types, uploadVars
<1>4. ASSUME NEW c \in Live, Change(c), UNCHANGED uploadVars PROVE UploadInv'
  BY <1>3, <1>4 DEF Change
<1>5. CASE UNCHANGED vars
  BY <1>3, <1>5 DEF vars, poolVars
<1> QED
  BY <1>1, <1>2, <1>4, <1>5 DEF UploadNext

LEMMA UploadInvariant == UploadSpec => []UploadInv
BY UploadInvInit, UploadInvStep, UploadsUseThePool, ChannelTypeOK, PTL DEF UploadSpec

(* The variables are of their types, and an upload holds no channel        *)
(* between attempts or when it is over.                                    *)
THEOREM UploadsTypeOK == UploadSpec => []UploadTypeOK
<1>1. UploadInv => UploadTypeOK
  BY DEF UploadInv, Types, ThreadOK, UploadTypeOK
<1> QED
  BY <1>1, UploadInvariant, PTL

(* An upload that returns has left all of its data in the control plane.   *)
THEOREM ReturnedUploadsAreStored == UploadSpec => []ReturnedIsStored
<1>1. UploadInv => ReturnedIsStored
  BY DEF UploadInv, ThreadOK, ReturnedIsStored
<1> QED
  BY <1>1, UploadInvariant, PTL

(* An upload that throws has used all of its attempts.                     *)
THEOREM UploadsUseAllAttempts == UploadSpec => []ThrownAfterLast
<1>1. UploadInv => ThrownAfterLast
  BY DEF UploadInv, ThreadOK, ThrownAfterLast
<1> QED
  BY <1>1, UploadInvariant, PTL
=============================================================================
