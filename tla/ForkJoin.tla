------------------------------ MODULE ForkJoin ------------------------------
(***************************************************************************)
(* What a ThreadPool::JoinSet promises to the code that owns it, without   *)
(* threads, queues, locks or counters (ThreadPool.h, class JoinSet):       *)
(*                                                                         *)
(*   - Wait() returns normally only when no task of the set is left and no *)
(*     error is pending, and throws only if a task of the set has thrown;  *)
(*   - one throw of Wait() consumes the pending error;                     *)
(*   - the set goes away only when no task of it is left;                  *)
(*   - a task that threw leaves the set only after its error is recorded.  *)
(*                                                                         *)
(* ThreadPool.tla implements this specification (property ForkJoinSpec).   *)
(***************************************************************************)
CONSTANTS Sets,    \* the join sets
          Jobs     \* the tasks that may be spawned

VARIABLES owner,   \* owner[s]: what the function holding join set s does
          spawned, \* jobs that were given to some join set
          live,    \* live[s]: the jobs of s that have not gone yet
          thrown,  \* thrown[s]: live jobs of s whose function has thrown and
                   \*            whose error is not recorded yet
          error    \* error[s]: an error is pending

vars == <<owner, spawned, live, thrown, error>>

OwnerStates == {"absent", "open", "waiting"}

TypeOK ==
  /\ owner \in [Sets -> OwnerStates]
  /\ spawned \subseteq Jobs
  /\ live \in [Sets -> SUBSET Jobs]
  /\ thrown \in [Sets -> SUBSET Jobs]
  /\ error \in [Sets -> BOOLEAN]

Init ==
  /\ owner \in [Sets -> {"absent", "open"}]
  /\ spawned = {}
  /\ live = [s \in Sets |-> {}]
  /\ thrown = [s \in Sets |-> {}]
  /\ error = [s \in Sets |-> FALSE]

-----------------------------------------------------------------------------
Open(s) ==
  /\ owner[s] = "absent"
  /\ owner' = [owner EXCEPT ![s] = "open"]
  /\ UNCHANGED <<spawned, live, thrown, error>>

(* The owner adds a job, or a live job of the set adds another one.        *)
Add(s, j) ==
  /\ j \notin spawned
  /\ owner[s] = "open" \/ live[s] # {}
  /\ spawned' = spawned \cup {j}
  /\ live' = [live EXCEPT ![s] = @ \cup {j}]
  /\ UNCHANGED <<owner, thrown, error>>

Throw(s, j) ==
  /\ j \in live[s] \ thrown[s]
  /\ thrown' = [thrown EXCEPT ![s] = @ \cup {j}]
  /\ UNCHANGED <<owner, spawned, live, error>>

Record(s, j) ==
  /\ j \in thrown[s]
  /\ thrown' = [thrown EXCEPT ![s] = @ \ {j}]
  /\ error' = [error EXCEPT ![s] = TRUE]
  /\ UNCHANGED <<owner, spawned, live>>

Finish(s, j) ==
  /\ j \in live[s] \ thrown[s]
  /\ live' = [live EXCEPT ![s] = @ \ {j}]
  /\ UNCHANGED <<owner, spawned, thrown, error>>

BeginWait(s) ==
  /\ owner[s] = "open"
  /\ owner' = [owner EXCEPT ![s] = "waiting"]
  /\ UNCHANGED <<spawned, live, thrown, error>>

WaitReturns(s) ==
  /\ owner[s] = "waiting" /\ live[s] = {} /\ ~error[s]
  /\ owner' = [owner EXCEPT ![s] = "open"]
  /\ UNCHANGED <<spawned, live, thrown, error>>

WaitThrows(s) ==
  /\ owner[s] = "waiting" /\ error[s]
  /\ owner' = [owner EXCEPT ![s] = "open"]
  /\ error' = [error EXCEPT ![s] = FALSE]
  /\ UNCHANGED <<spawned, live, thrown>>

Close(s) ==
  /\ owner[s] = "open" /\ live[s] = {}
  /\ owner' = [owner EXCEPT ![s] = "absent"]
  /\ UNCHANGED <<spawned, live, thrown, error>>

Next ==
  \E s \in Sets :
     \/ Open(s) \/ BeginWait(s) \/ WaitReturns(s) \/ WaitThrows(s)
     \/ Close(s)
     \/ \E j \in Jobs : Add(s, j) \/ Throw(s, j) \/ Record(s, j) \/ Finish(s, j)

Spec == Init /\ [][Next]_vars
=============================================================================
