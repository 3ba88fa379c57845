------------------------- MODULE ThreadQueue_proofs -------------------------
(***************************************************************************)
(* More theorems about ThreadPool, on what its threads do with the queue:  *)
(* how many of them sleep, when one may sleep although tasks are queued,   *)
(* when all of them may be blocked, what is left when the pool is          *)
(* destroyed, and that the pool does not deadlock.                         *)
(***************************************************************************)
EXTENDS ThreadPool_proofs

Asleep == {w \in Workers : wpc[w] \in {"sleep", "woken"}}
Coming == {w \in Workers : wpc[w] \in {"loop", "woken"}}

LEMMA CountedFinite ==
  ASSUME NEW S \in SUBSET Workers
  PROVE  /\ IsFiniteSet(S) /\ Cardinality(S) \in Nat
         /\ S = {} <=> Cardinality(S) = 0
         /\ \A w \in Workers \ S : Cardinality(S \cup {w}) = Cardinality(S) + 1
         /\ \A w \in S : Cardinality(S \ {w}) = Cardinality(S) - 1
<1>1. IsFiniteSet(S) BY ActorAssumption, FS_Subset
<1> QED BY <1>1, FS_CardinalityType, FS_EmptySet, FS_AddElement, FS_RemoveElement

(* The thread that has work exits or takes the oldest task.                *)
LEMMA ProceedMoves ==
  ASSUME Typed, NEW w \in Workers, HasWork, Proceed(w)
  PROVE  \/ /\ Exits /\ pending_tasks = <<>> /\ wpc' = [wpc EXCEPT ![w] = "exit"]
            /\ UNCHANGED <<pc, pending_tasks, job>>
         \/ /\ pending_tasks # <<>> /\ wpc' = [wpc EXCEPT ![w] = "exec"]
            /\ Len(pending_tasks) \in Nat /\ Len(pending_tasks') = Len(pending_tasks) - 1
            /\ Head(pending_tasks) \in Tasks
            /\ job' = [job EXCEPT ![w] = Head(pending_tasks)]
            /\ pc' = [pc EXCEPT ![Head(pending_tasks)] = "run"]
            /\ pending_tasks' = Tail(pending_tasks)
<1>1. CASE Exits BY <1>1 DEF Proceed, Exits
<1>2. CASE ~Exits
  <2>1. pending_tasks # <<>> /\ pending_tasks \in Seq(Tasks)
    BY <1>2 DEF Exits, HasWork, Typed, TypeOK
  <2>2. /\ Len(pending_tasks) \in Nat /\ Head(pending_tasks) \in Tasks
        /\ Len(Tail(pending_tasks)) = Len(pending_tasks) - 1
    BY <2>1
  <2> QED BY <1>2, <2>1, <2>2 DEF Proceed
<1> QED BY <1>1, <1>2

(* The steps that leave the threads and the queue alone.                   *)
Apart == UNCHANGED <<pending_tasks, sleeping_threads, wpc, job, phase, faults>>

LEMMA OthersApart ==
  /\ \A a \in Actors, t \in Tasks, s \in JoinSets \cup {NoSet} : Construct(a, t, s) => Apart
  /\ \A a \in Actors : Reject(a) \/ DropRejected(a) \/ Leave(a) => Apart
  /\ \A s \in JoinSets : Joins(s) => Apart
  /\ \A w \in Workers : RecordError(w) => Apart
  BY DEF Construct, Reject, DropRejected, Leave, Joins, Wait, WaitReturns, WaitThrows, WaitBlocks,
         DestroySet, DestroyBlocks, RecordError, poolVars, Apart

-----------------------------------------------------------------------------
LEMMA SleepersNext == Typed /\ SleepersCounted /\ [Next]_vars => SleepersCounted'
<1> SUFFICES ASSUME Typed, SleepersCounted, [Next]_vars PROVE SleepersCounted'
  OBVIOUS
<1> DEFINE S == Asleep
<1>1. ASSUME UNCHANGED sleeping_threads, S' = S PROVE SleepersCounted'
  BY <1>1 DEF SleepersCounted, Asleep
<1>2. ASSUME Apart PROVE SleepersCounted'
  BY <1>2 DEF Apart, SleepersCounted
<1>3. ASSUME NEW a \in Actors, Spawns(a) PROVE SleepersCounted'
  <2>1. CASE EnqueueAndStart(a)
    <3>1. UNCHANGED sleeping_threads BY <2>1 DEF EnqueueAndStart, Push
    <3>2. PICK w \in Workers \ threads : wpc' = [wpc EXCEPT ![w] = "loop"]
      BY <2>1 DEF EnqueueAndStart
    <3>3. S' = S BY <3>2 DEF Asleep, threads, Typed, TypeOK
    <3> QED BY <1>1, <3>1, <3>3
  <2>2. CASE Enqueue(a)
    <3>1. UNCHANGED sleeping_threads BY <2>2 DEF Enqueue, Push
    <3>2. \/ UNCHANGED wpc
          \/ \E w \in Workers : wpc[w] = "sleep" /\ wpc' = [wpc EXCEPT ![w] = "woken"]
      BY <2>2 DEF Enqueue, NotifyOne
    <3>3. S' = S BY <3>2 DEF Asleep, Typed, TypeOK
    <3> QED BY <1>1, <3>1, <3>3
  <2>3. CASE EnqueueFails(a)
    BY <1>1, <2>3 DEF EnqueueFails, Push, Asleep
  <2> QED BY <1>2, <1>3, <2>1, <2>2, <2>3, OthersApart DEF Spawns
<1>4. ASSUME NEW w \in Workers, Runs(w) PROVE SleepersCounted'
  <2>1. CASE TakeNext(w)
    <3>1. wpc[w] = "loop" /\ UNCHANGED sleeping_threads
          /\ \E x \in {"exit", "exec"} : wpc' = [wpc EXCEPT ![w] = x]
      BY <2>1, ProceedMoves DEF TakeNext
    <3>2. S' = S BY <3>1 DEF Asleep, Typed, TypeOK
    <3> QED BY <1>1, <3>1, <3>2
  <2>2. CASE FallAsleep(w)
    <3>1. /\ wpc[w] = "loop" /\ sleeping_threads' = sleeping_threads + 1
          /\ wpc' = [wpc EXCEPT ![w] = "sleep"]
      BY <2>2 DEF FallAsleep
    <3>2. S' = S \cup {w} /\ w \notin S /\ S \in SUBSET Workers
      BY <3>1 DEF Asleep, Typed, TypeOK
    <3> HIDE DEF S
    <3>3. Cardinality(S') = Cardinality(S) + 1 BY <3>2, CountedFinite
    <3> QED BY <3>1, <3>3 DEF S, Asleep, SleepersCounted
  <2>3. CASE WakeUp(w)
    <3>1. /\ wpc[w] = "woken" /\ sleeping_threads' = sleeping_threads - 1
          /\ \E x \in {"exit", "exec"} : wpc' = [wpc EXCEPT ![w] = x]
      BY <2>3, ProceedMoves DEF WakeUp
    <3>2. S' = S \ {w} /\ w \in S /\ S \in SUBSET Workers
      BY <3>1 DEF Asleep, Typed, TypeOK
    <3> HIDE DEF S
    <3>3. Cardinality(S') = Cardinality(S) - 1 BY <3>2, CountedFinite
    <3> QED BY <3>1, <3>3 DEF S, Asleep, SleepersCounted
  <2>4. CASE SleepAgain(w)
    <3>1. /\ wpc[w] = "woken" /\ UNCHANGED sleeping_threads
          /\ wpc' = [wpc EXCEPT ![w] = "sleep"]
      BY <2>4 DEF SleepAgain
    <3>2. S' = S BY <3>1 DEF Asleep, Typed, TypeOK
    <3> QED BY <1>1, <3>1, <3>2
  <2>5. CASE Release(w)
    <3>1. /\ wpc[w] = "exec" /\ UNCHANGED sleeping_threads
          /\ wpc' = [wpc EXCEPT ![w] = "loop"]
      BY <2>5 DEF Release, Executed
    <3>2. S' = S BY <3>1 DEF Asleep, Typed, TypeOK
    <3> QED BY <1>1, <3>1, <3>2
  <2> QED BY <1>2, <1>4, <2>1, <2>2, <2>3, <2>4, <2>5, OthersApart DEF Runs
<1>5. CASE Stop
  <2>1. S' = S BY <1>5 DEF Stop, NotifiedAll, Asleep, Typed, TypeOK
  <2> QED BY <1>1, <1>5, <2>1 DEF Stop
<1>6. CASE SpuriousWakeUp
  <2>1. \/ UNCHANGED wpc
        \/ \E w \in Workers : wpc[w] = "sleep" /\ wpc' = [wpc EXCEPT ![w] = "woken"]
    BY <1>6 DEF SpuriousWakeUp
  <2>2. S' = S BY <2>1 DEF Asleep, Typed, TypeOK
  <2> QED BY <1>1, <1>6, <2>2 DEF SpuriousWakeUp
<1>7. CASE Join \/ UNCHANGED vars
  BY <1>1, <1>7 DEF Join, vars, Asleep
<1> QED BY <1>2, <1>3, <1>4, <1>5, <1>6, <1>7, OthersApart DEF Next, Over

(* sleeping_threads_ is the number of threads inside the wait of the pool, *)
(* those that were notified and do not hold the lock yet included          *)
(* (ThreadPool.cpp:119-121, 159).                                          *)
THEOREM SleepersAreCounted == Spec => []SleepersCounted
<1>1. Init => SleepersCounted
  <2> SUFFICES ASSUME Init PROVE SleepersCounted
    OBVIOUS
  <2>1. Asleep = {} /\ sleeping_threads = 0 BY DEF Init, Asleep
  <2> QED BY <2>1, FS_EmptySet DEF SleepersCounted, Asleep
<1> QED BY <1>1, SleepersNext, PoolTyped, PTL DEF Spec

-----------------------------------------------------------------------------
LEMMA IdleNext ==
  Typed /\ SleepersCounted /\ NoIdleWhileWork /\ [Next]_vars => NoIdleWhileWork'
<1> SUFFICES ASSUME Typed, SleepersCounted, NoIdleWhileWork, [Next]_vars
             PROVE  NoIdleWhileWork'
  OBVIOUS
<1> DEFINE C == Coming
           n == Len(pending_tasks)
           Idle == \E w \in Workers : wpc[w] = "sleep"
<1>1. /\ n \in Nat /\ C \in SUBSET Workers
      /\ Cardinality(C) \in Nat /\ Cardinality(C') \in Nat
      /\ Idle => n <= Cardinality(C)
  <2>1. n \in Nat BY DEF Typed, TypeOK
  <2>2. C \in SUBSET Workers /\ C' \in SUBSET Workers BY DEF Coming
  <2> HIDE DEF C, n
  <2>3. Cardinality(C) \in Nat /\ Cardinality(C') \in Nat BY <2>2, CountedFinite
  <2> QED BY <2>1, <2>2, <2>3 DEF NoIdleWhileWork, C, Coming, n
<1>2. ASSUME Idle' => n' <= Cardinality(C') PROVE NoIdleWhileWork'
  BY <1>2 DEF NoIdleWhileWork, Coming
<1>3. ASSUME pending_tasks' = <<>> PROVE NoIdleWhileWork'
  <2>1. n' = 0 BY <1>3
  <2> HIDE DEF C, n
  <2> QED BY <1>1, <1>2, <2>1
<1>4. ASSUME NEW w \in Workers, n' = n \/ n' = n - 1, Idle' => Idle, C' = C PROVE NoIdleWhileWork'
  <2> HIDE DEF C, n, Idle
  <2> QED BY <1>1, <1>2, <1>4
<1>5. ASSUME Apart PROVE NoIdleWhileWork' BY <1>5 DEF Apart, NoIdleWhileWork
<1>6. ASSUME NEW a \in Actors, Push(a) PROVE n' = n + 1
  <2>1. pending_tasks \in Seq(Tasks) /\ kid[a] \in Tasks
        /\ pending_tasks' = Append(pending_tasks, kid[a])
    BY <1>6 DEF Push, Accepts, Moved, Typed, TypeOK, Held
  <2> QED BY <2>1
<1>7. ASSUME NEW w \in Workers, w \notin C, C' = C \cup {w}, Idle' => Idle,
             n' = n \/ n' = n + 1
      PROVE  NoIdleWhileWork'
  <2> HIDE DEF C, n, Idle
  <2>1. Cardinality(C') = Cardinality(C) + 1 BY <1>1, <1>7, CountedFinite
  <2> QED BY <1>1, <1>2, <1>7, <2>1
<1>8. ASSUME NEW w \in Workers, w \in C, C' = C \ {w}, Idle' => Idle, n' = n - 1
      PROVE  NoIdleWhileWork'
  <2> HIDE DEF C, n, Idle
  <2>1. Cardinality(C') = Cardinality(C) - 1 BY <1>1, <1>8, CountedFinite
  <2> QED BY <1>1, <1>2, <1>8, <2>1
<1>9. ASSUME NeedsThread PROVE ~Idle
  <2>1. Cardinality(Asleep) = 0 BY <1>9 DEF NeedsThread, SleepersCounted, Asleep
  <2>2. Asleep \in SUBSET Workers BY DEF Asleep
  <2>3. Asleep = {} BY <2>1, <2>2, CountedFinite
  <2> QED BY <2>3 DEF Asleep
<1>10. ASSUME NEW a \in Actors, Spawns(a) PROVE NoIdleWhileWork'
  <2>1. CASE EnqueueAndStart(a)
    <3>1. ~Idle BY <1>9, <2>1 DEF EnqueueAndStart
    <3>2. \E w \in Workers : wpc' = [wpc EXCEPT ![w] = "loop"]
      BY <2>1 DEF EnqueueAndStart
    <3>3. ~Idle' BY <3>1, <3>2 DEF Typed, TypeOK
    <3> QED BY <1>2, <3>3
  <2>2. CASE Enqueue(a)
    <3>1. Push(a) /\ n' = n + 1 BY <1>6, <2>2 DEF Enqueue
    <3>2. CASE Idle
      <4>1. PICK w \in Workers : wpc[w] = "sleep" /\ wpc' = [wpc EXCEPT ![w] = "woken"]
        BY <2>2, <3>2 DEF Enqueue, NotifyOne
      <4>2. w \notin C /\ C' = C \cup {w} BY <4>1 DEF Coming, Typed, TypeOK
      <4> HIDE DEF C, n
      <4> QED BY <1>7, <3>1, <3>2, <4>2
    <3>3. CASE ~Idle
      <4>1. UNCHANGED wpc BY <2>2, <3>3 DEF Enqueue, NotifyOne
      <4> QED BY <1>2, <3>3, <4>1
    <3> QED BY <3>2, <3>3
  <2>3. CASE EnqueueFails(a)
    BY <1>2, <1>9, <2>3 DEF EnqueueFails
  <2> QED BY <1>5, <1>10, <2>1, <2>2, <2>3, OthersApart DEF Spawns
<1>11. ASSUME NEW w \in Workers, Runs(w) PROVE NoIdleWhileWork'
  <2>1. CASE TakeNext(w) \/ WakeUp(w)
    <3>1. HasWork /\ Proceed(w) /\ w \in C BY <2>1 DEF TakeNext, WakeUp, Coming
    <3>2. CASE pending_tasks = <<>> /\ UNCHANGED pending_tasks BY <1>3, <3>2
    <3>3. CASE n' = n - 1 /\ wpc' = [wpc EXCEPT ![w] = "exec"]
      <4>1. C' = C \ {w} BY <3>3 DEF Coming, Typed, TypeOK
      <4>2. Idle' => Idle BY <3>3 DEF Typed, TypeOK
      <4> HIDE DEF C, n, Idle
      <4> QED BY <1>8, <3>1, <3>3, <4>1, <4>2
    <3> QED BY <3>1, <3>2, <3>3, ProceedMoves
  <2>2. CASE FallAsleep(w) \/ SleepAgain(w)
    <3>1. pending_tasks' = <<>> BY <2>2 DEF FallAsleep, SleepAgain, HasWork
    <3> QED BY <1>3, <3>1
  <2>3. CASE Release(w)
    <3>1. wpc[w] = "exec" /\ wpc' = [wpc EXCEPT ![w] = "loop"] /\ n' = n
      BY <2>3 DEF Release, Executed
    <3>2. w \notin C /\ C' = C \cup {w} /\ (Idle' => Idle)
      BY <3>1 DEF Coming, Typed, TypeOK
    <3> HIDE DEF C, n, Idle
    <3> QED BY <1>7, <3>1, <3>2
  <2> QED BY <1>5, <1>11, <2>1, <2>2, <2>3, OthersApart DEF Runs
<1>12. CASE Stop
  <2>1. ~Idle' BY <1>12 DEF Stop, NotifiedAll
  <2> QED BY <1>2, <2>1
<1>13. CASE SpuriousWakeUp
  <2>1. n' = n BY <1>13 DEF SpuriousWakeUp
  <2>2. CASE UNCHANGED wpc BY <2>2, <1>13 DEF SpuriousWakeUp, NoIdleWhileWork
  <2>3. ASSUME NEW w \in Workers, wpc[w] = "sleep", wpc' = [wpc EXCEPT ![w] = "woken"]
        PROVE  NoIdleWhileWork'
    <3>1. w \notin C /\ C' = C \cup {w} /\ (Idle' => Idle)
      BY <2>3 DEF Coming, Typed, TypeOK
    <3> HIDE DEF C, n, Idle
    <3> QED BY <1>7, <2>1, <3>1
  <2> QED BY <1>13, <2>2, <2>3 DEF SpuriousWakeUp
<1>14. CASE Join \/ UNCHANGED vars
  BY <1>14 DEF Join, vars, NoIdleWhileWork
<1> QED BY <1>5, <1>10, <1>11, <1>12, <1>13, <1>14, OthersApart DEF Next, Over

(* A thread sleeps only while there are no more queued tasks than threads  *)
(* on their way to the queue: no wake-up of the pool is lost               *)
(* (ThreadPool.cpp:120, 159-164).                                          *)
THEOREM NoThreadSleepsOverWork == Spec => []NoIdleWhileWork
<1>1. Init => NoIdleWhileWork BY DEF Init, NoIdleWhileWork
<1> QED BY <1>1, IdleNext, SleepersAreCounted, PoolTyped, PTL DEF Spec

-----------------------------------------------------------------------------
(* Every task that exists is in somebody's hands, and a thread leaves the  *)
(* pool only when the pool is stopped and the queue is empty.              *)
Working == BodyStates \cup {"end"}
Queued(t) == \E i \in 1..Len(pending_tasks) : pending_tasks[i] = t
Executing(t) == \E w \in Workers : wpc[w] = "exec" /\ job[w] = t
Spawning(t) == \E a \in Actors : pc[a] \in {"spawn", "reject"} /\ kid[a] = t

Kept ==
  /\ stop => \A c \in Clients : pc[c] = "gone"
  /\ \A t \in Tasks : pc[t] = "queued" => Queued(t)
  /\ \A t \in Tasks : pc[t] \in Working => Executing(t)
  /\ \A t \in Tasks : pc[t] = "made" => Spawning(t)
  /\ \A w \in Workers : wpc[w] = "exit" => stop /\ pending_tasks = <<>>
  /\ phase = "dead" => \A w \in threads : wpc[w] = "exit"

(* A step that changes no task's hands.                                    *)
LEMMA KeptFrame ==
  ASSUME Typed, Kept, Apart, UNCHANGED kid,
         \A c \in Clients : pc[c] = "gone" => pc'[c] = "gone",
         \A a \in Actors : pc[a] \in {"spawn", "reject"} => pc'[a] \in {"spawn", "reject"},
         \A t \in Tasks : \/ pc'[t] = pc[t] \/ pc'[t] = "gone"
                          \/ pc'[t] \in Working /\ pc[t] \in Working
  PROVE  Kept'
<1>1. \A t \in Tasks : /\ Queued(t)' <=> Queued(t)
                       /\ Executing(t)' <=> Executing(t)
                       /\ Spawning(t) => Spawning(t)'
  BY DEF Apart, Queued, Executing, Spawning
<1>2. threads' = threads /\ (stop' <=> stop) BY DEF Apart, threads, stop
<1>3. ASSUME NEW t \in Tasks
      PROVE  /\ pc'[t] = "queued" => Queued(t)'
             /\ pc'[t] \in Working => Executing(t)'
             /\ pc'[t] = "made" => Spawning(t)'
  <2>1. CASE pc'[t] = pc[t] BY <1>1, <2>1 DEF Kept
  <2>2. CASE pc'[t] = "gone" BY <2>2 DEF Working, BodyStates
  <2>3. CASE pc'[t] \in Working /\ pc[t] \in Working
    BY <1>1, <2>3 DEF Kept, Working, BodyStates
  <2> QED BY <2>1, <2>2, <2>3
<1>4. /\ stop' => \A c \in Clients : pc'[c] = "gone"
      /\ \A w \in Workers : wpc'[w] = "exit" => stop' /\ pending_tasks' = <<>>
      /\ phase' = "dead" => \A w \in threads' : wpc'[w] = "exit"
  BY <1>2 DEF Kept, Apart
<1> QED BY <1>3, <1>4, Zenon DEF Kept

LEMMA KeptAsleep ==
  ASSUME Typed, Kept, UNCHANGED <<pc, kid, pending_tasks, job, phase>>,
         wpc' \in [Workers -> WorkerStates],
         \A w \in Workers :
           /\ wpc[w] = "exec" => wpc'[w] = "exec"
           /\ wpc'[w] = "exit" => wpc[w] = "exit"
           /\ wpc[w] = "exit" => wpc'[w] = "exit"
           /\ wpc'[w] # "none" <=> wpc[w] # "none"
  PROVE  Kept'
<1>1. \A t \in Tasks : /\ Queued(t)' <=> Queued(t)
                       /\ Executing(t) => Executing(t)'
                       /\ Spawning(t)' <=> Spawning(t)
  BY DEF Queued, Executing, Spawning
<1>2. threads' = threads /\ (stop' <=> stop) BY DEF threads, stop
<1>3. ASSUME NEW t \in Tasks
      PROVE  /\ pc'[t] = "queued" => Queued(t)'
             /\ pc'[t] \in Working => Executing(t)'
             /\ pc'[t] = "made" => Spawning(t)'
  BY <1>1 DEF Kept
<1>4. /\ stop' => \A c \in Clients : pc'[c] = "gone"
      /\ \A w \in Workers : wpc'[w] = "exit" => stop' /\ pending_tasks' = <<>>
  BY <1>2 DEF Kept
<1>5. phase' = "dead" => \A w \in threads' : wpc'[w] = "exit"
  BY <1>2 DEF Kept, threads
<1> QED BY <1>3, <1>4, <1>5, Zenon DEF Kept

LEMMA KeptPush ==
  ASSUME IInv, Kept, NEW a \in Actors, Push(a),
         wpc' \in [Workers -> WorkerStates],
         \A w \in Workers :
           /\ wpc[w] = "exec" => wpc'[w] = "exec"
           /\ wpc'[w] = "exit" => wpc[w] = "exit"
  PROVE  Kept'
<1> DEFINE u == kid[a]
<1>1. /\ u \in Tasks /\ u \in Actors /\ pc[u] = "made" /\ pc[a] = "spawn" /\ ~stop
      /\ kid' = [kid EXCEPT ![a] = NoTask]
      /\ pending_tasks' = Append(pending_tasks, u) /\ pending_tasks \in Seq(Tasks)
      /\ UNCHANGED <<job, phase>>
  BY PushTyped DEF IInv, Hand, Typed, TypeOK, Held, Push, Accepts, Moved, Actors
<1>2. \A c \in Actors : pc'[c] = IF c = u THEN "queued" ELSE IF c = a THEN "run" ELSE pc[c]
  BY <1>1, PushTyped, TwoSteps, StateNames DEF IInv, Typed, TypeOK
<1> HIDE DEF u
<1>3. \A t \in Tasks : Queued(t) \/ t = u => Queued(t)'
  <2>1. /\ Len(pending_tasks) \in Nat /\ Len(pending_tasks') = Len(pending_tasks) + 1
        /\ pending_tasks'[Len(pending_tasks) + 1] = u
        /\ \A i \in 1..Len(pending_tasks) : pending_tasks'[i] = pending_tasks[i]
    BY <1>1
  <2> QED BY <2>1 DEF Queued
<1>4. \A t \in Tasks : Executing(t) => Executing(t)' BY <1>1 DEF Executing
<1>5. ASSUME NEW t \in Tasks, t # u, Spawning(t) PROVE Spawning(t)'
  <2>1. PICK b \in Actors : pc[b] \in {"spawn", "reject"} /\ kid[b] = t
    BY <1>5 DEF Spawning
  <2>2. b # a /\ b # u BY <1>1, <1>5, <2>1 DEF u
  <2>3. pc'[b] = pc[b] /\ kid'[b] = t BY <1>1, <1>2, <2>1, <2>2 DEF IInv, Typed, TypeOK
  <2> QED BY <2>1, <2>3 DEF Spawning
<1>6. ~stop' /\ phase' = "up" BY <1>1 DEF stop
<1>7. ASSUME NEW t \in Tasks
      PROVE  /\ pc'[t] = "queued" => Queued(t)'
             /\ pc'[t] \in Working => Executing(t)'
             /\ pc'[t] = "made" => Spawning(t)'
  <2>1. t \in Actors BY DEF Actors
  <2>2. CASE t = u BY <1>2, <1>3, <2>1, <2>2 DEF Working, BodyStates
  <2>3. CASE t # u /\ t = a
    <3>1. pc'[t] = "run" /\ pc[t] = "spawn" BY <1>1, <1>2, <2>1, <2>3
    <3> QED BY <1>4, <3>1 DEF Kept, Working, BodyStates
  <2>4. CASE t # u /\ t # a
    <3>1. pc'[t] = pc[t] BY <1>2, <2>1, <2>4
    <3> QED BY <1>3, <1>4, <1>5, <2>4, <3>1 DEF Kept
  <2> QED BY <2>2, <2>3, <2>4
<1>8. \A w \in Workers : wpc'[w] # "exit" BY <1>1 DEF Kept
<1> QED BY <1>6, <1>7, <1>8 DEF Kept

LEMMA KeptConstruct ==
  ASSUME IInv, Kept, NEW a \in Actors, NEW t \in Tasks, NEW s \in JoinSets \cup {NoSet},
         Construct(a, t, s)
  PROVE  Kept'
<1>1. /\ t \in Actors /\ pc[a] = "run" /\ pc[t] = "unborn" /\ a # t
      /\ kid' = [kid EXCEPT ![a] = t] /\ Apart
  BY OthersApart DEF Construct, Actors
<1>2. \A c \in Actors : pc'[c] = IF c = t THEN "made" ELSE IF c = a THEN "spawn" ELSE pc[c]
  <2>1. pc' = [pc EXCEPT ![a] = "spawn", ![t] = "made"] BY DEF Construct
  <2> QED BY <1>1, <2>1, TwoSteps, StateNames DEF IInv, Typed, TypeOK
<1>3. \A u \in Tasks : /\ Queued(u)' <=> Queued(u)
                       /\ Executing(u)' <=> Executing(u)
  BY <1>1 DEF Apart, Queued, Executing
<1>4. Spawning(t)' BY <1>1, <1>2 DEF Spawning, IInv, Typed, TypeOK
<1>5. ASSUME NEW u \in Tasks, u # t, Spawning(u) PROVE Spawning(u)'
  <2>1. PICK b \in Actors : pc[b] \in {"spawn", "reject"} /\ kid[b] = u
    BY <1>5 DEF Spawning
  <2>2. b # a /\ b # t BY <1>1, <2>1
  <2>3. pc'[b] = pc[b] /\ kid'[b] = u BY <1>1, <1>2, <2>1, <2>2 DEF IInv, Typed, TypeOK
  <2> QED BY <2>1, <2>3 DEF Spawning
<1>6. ASSUME NEW u \in Tasks
      PROVE  /\ pc'[u] = "queued" => Queued(u)'
             /\ pc'[u] \in Working => Executing(u)'
             /\ pc'[u] = "made" => Spawning(u)'
  <2>1. u \in Actors BY DEF Actors
  <2>2. CASE u = t BY <1>2, <1>4, <2>1, <2>2 DEF Working, BodyStates
  <2>3. CASE u = a
    <3>1. pc'[u] = "spawn" /\ pc[u] = "run" BY <1>1, <1>2, <2>1, <2>3
    <3> QED BY <1>3, <3>1 DEF Kept, Working, BodyStates
  <2>4. CASE u # t /\ u # a
    <3>1. pc'[u] = pc[u] BY <1>2, <2>1, <2>4
    <3> QED BY <1>3, <1>5, <2>4, <3>1 DEF Kept
  <2> QED BY <2>2, <2>3, <2>4
<1>7. stop => \A c \in Clients : pc'[c] = "gone"
  BY <1>1, <1>2, ActorAssumption DEF Kept, Actors
<1> QED BY <1>1, <1>6, <1>7 DEF Kept, Apart, stop, threads

LEMMA KeptDrop ==
  ASSUME IInv, Kept, NEW a \in Actors, DropRejected(a)
  PROVE  Kept'
<1> DEFINE u == kid[a]
           p == [pc EXCEPT ![a] = "run"]
<1>1. /\ pc[a] = "reject" /\ u \in Tasks /\ pc[u] = "made" /\ Destroy(u, p)
      /\ p \in [Actors -> PcStates] /\ UNCHANGED join_set
      /\ kid' = [kid EXCEPT ![a] = NoTask] /\ Apart
  BY OthersApart, StateNames DEF DropRejected, IInv, Typed, TypeOK, Held, Hand
<1>2. \A c \in Actors : p[c] = IF c = a THEN "run" ELSE pc[c]
  BY DEF IInv, Typed, TypeOK
<1> HIDE DEF p
<1>3. /\ Woken([p EXCEPT ![u] = "gone"], pc')
  BY <1>1, DestroyEffect DEF IInv, Typed
<1>4. \A c \in Actors : [p EXCEPT ![u] = "gone"][c] = IF c = u THEN "gone" ELSE p[c]
  BY <1>1 DEF Actors
<1>5. /\ pc'[u] = "gone" /\ pc'[a] = "run" /\ a # u
      /\ \A c \in Actors \ {a, u} : \/ pc'[c] = pc[c]
                                    \/ /\ pc[c] \in {"wait", "dtorwait"}
                                       /\ pc'[c] \in {"check", "dtor"}
  <2>1. a # u /\ u \in Actors BY <1>1 DEF Actors
  <2> QED BY <1>2, <1>3, <1>4, <2>1 DEF Woken
<1> HIDE DEF u
<1>6. \A t \in Tasks : /\ Queued(t)' <=> Queued(t)
                       /\ Executing(t)' <=> Executing(t)
  BY <1>1 DEF Apart, Queued, Executing
<1>7. ASSUME NEW t \in Tasks, t # u, Spawning(t) PROVE Spawning(t)'
  <2>1. PICK b \in Actors : pc[b] \in {"spawn", "reject"} /\ kid[b] = t
    BY <1>7 DEF Spawning
  <2>2. b # a /\ b # u BY <1>1, <1>7, <2>1 DEF u
  <2>3. pc'[b] = pc[b] /\ kid'[b] = t BY <1>1, <1>5, <2>1, <2>2 DEF IInv, Typed, TypeOK
  <2> QED BY <2>1, <2>3 DEF Spawning
<1>8. ASSUME NEW t \in Tasks
      PROVE  /\ pc'[t] = "queued" => Queued(t)'
             /\ pc'[t] \in Working => Executing(t)'
             /\ pc'[t] = "made" => Spawning(t)'
  <2>1. t \in Actors BY DEF Actors
  <2>2. CASE t = u BY <1>5, <2>2 DEF Working, BodyStates
  <2>3. CASE t = a
    <3>1. pc'[t] = "run" /\ pc[t] = "reject" BY <1>1, <1>5, <2>3
    <3> QED BY <1>6, <3>1 DEF Kept, Working, BodyStates
  <2>4. CASE t # u /\ t # a /\ pc'[t] = pc[t]
    BY <1>6, <1>7, <2>4 DEF Kept
  <2>5. CASE pc[t] \in {"wait", "dtorwait"} /\ pc'[t] \in {"check", "dtor"}
    BY <1>6, <2>5 DEF Kept, Working, BodyStates
  <2> QED BY <1>5, <2>1, <2>2, <2>3, <2>4, <2>5
<1>9. stop => \A c \in Clients : pc'[c] = "gone"
  BY <1>1, <1>5, ActorAssumption DEF Kept, Actors
<1> QED BY <1>1, <1>8, <1>9 DEF Kept, Apart, stop, threads

LEMMA KeptProceed ==
  ASSUME IInv, Kept, NEW w \in Workers, wpc[w] \in {"loop", "woken"}, HasWork, Proceed(w),
         UNCHANGED <<kid, phase>>
  PROVE  Kept'
<1>1. CASE /\ Exits /\ pending_tasks = <<>> /\ wpc' = [wpc EXCEPT ![w] = "exit"]
           /\ UNCHANGED <<pc, pending_tasks, job>>
  <2>1. \A v \in Workers : wpc'[v] = IF v = w THEN "exit" ELSE wpc[v]
    BY <1>1 DEF IInv, Typed, TypeOK
  <2>2. \A t \in Tasks : /\ Queued(t)' <=> Queued(t)
                         /\ Executing(t) => Executing(t)'
                         /\ Spawning(t)' <=> Spawning(t)
    BY <1>1, <2>1 DEF Queued, Executing, Spawning
  <2>3. stop BY <1>1 DEF Exits
  <2>4. phase # "dead" BY DEF Kept, threads
  <2> QED BY <1>1, <2>1, <2>2, <2>3, <2>4 DEF Kept, stop
<1>2. CASE /\ pending_tasks # <<>> /\ wpc' = [wpc EXCEPT ![w] = "exec"]
           /\ Head(pending_tasks) \in Tasks
           /\ job' = [job EXCEPT ![w] = Head(pending_tasks)]
           /\ pc' = [pc EXCEPT ![Head(pending_tasks)] = "run"]
           /\ pending_tasks' = Tail(pending_tasks)
  <2> DEFINE h == Head(pending_tasks)
  <2>1. /\ pending_tasks \in Seq(Tasks) /\ Len(pending_tasks) \in Nat
        /\ h = pending_tasks[1] /\ 1 \in 1..Len(pending_tasks)
        /\ Len(pending_tasks') = Len(pending_tasks) - 1
        /\ \A i \in 1..(Len(pending_tasks) - 1) : pending_tasks'[i] = pending_tasks[i + 1]
    BY <1>2 DEF IInv, Typed, TypeOK
  <2>2. pc[h] = "queued" /\ h \in Tasks /\ h \in Actors BY <1>2, <2>1 DEF IInv, Hand, Actors
  <2>3. /\ \A c \in Actors : pc'[c] = IF c = h THEN "run" ELSE pc[c]
        /\ \A v \in Workers : wpc'[v] = IF v = w THEN "exec" ELSE wpc[v]
        /\ \A v \in Workers : job'[v] = IF v = w THEN h ELSE job[v]
    BY <1>2, <2>2 DEF IInv, Typed, TypeOK
  <2> HIDE DEF h
  <2>4. ASSUME NEW t \in Tasks, t # h, Queued(t) PROVE Queued(t)'
    <3>1. PICK i \in 1..Len(pending_tasks) : pending_tasks[i] = t BY <2>4 DEF Queued
    <3>2. i # 1 BY <2>1, <2>4, <3>1
    <3>3. i - 1 \in 1..(Len(pending_tasks) - 1) /\ (i - 1) + 1 = i BY <2>1, <3>2
    <3>4. i - 1 \in 1..Len(pending_tasks') /\ pending_tasks'[i - 1] = t BY <2>1, <3>1, <3>3
    <3> QED BY <3>4 DEF Queued
  <2>5. \A t \in Tasks : Executing(t) \/ t = h => Executing(t)' BY <2>3 DEF Executing
  <2>6. \A t \in Tasks : Spawning(t) => Spawning(t)' BY <2>2, <2>3 DEF Spawning
  <2>7. ASSUME NEW t \in Tasks
        PROVE  /\ pc'[t] = "queued" => Queued(t)'
               /\ pc'[t] \in Working => Executing(t)'
               /\ pc'[t] = "made" => Spawning(t)'
    <3>1. t \in Actors BY DEF Actors
    <3>2. CASE t = h BY <2>2, <2>3, <2>5, <3>2
    <3>3. CASE t # h BY <2>3, <2>4, <2>5, <2>6, <3>1, <3>3 DEF Kept
    <3> QED BY <3>2, <3>3
  <2>8. phase # "dead" BY DEF Kept, threads
  <2>9. \A v \in Workers : wpc'[v] # "exit" BY <1>2, <2>3 DEF Kept
  <2>10. stop => \A c \in Clients : pc'[c] = "gone"
    BY <2>2, <2>3 DEF Kept, Actors
  <2> QED BY <2>7, <2>8, <2>9, <2>10 DEF Kept, stop
<1> QED BY <1>1, <1>2, ProceedMoves DEF IInv

LEMMA KeptRelease ==
  ASSUME IInv, Kept, NEW w \in Workers, Release(w)
  PROVE  Kept'
<1> DEFINE t == job[w]
<1>1. /\ wpc[w] = "exec" /\ t \in Tasks /\ pc[t] = "end" /\ Destroy(t, pc)
      /\ wpc' = [wpc EXCEPT ![w] = "loop"] /\ job' = [job EXCEPT ![w] = NoTask]
      /\ UNCHANGED <<kid, pending_tasks, phase>>
  BY DEF Release, Executed, taskVars, IInv, Typed, Held
<1>2. Woken([pc EXCEPT ![t] = "gone"], pc')
  BY <1>1, DestroyEffect DEF IInv, Typed, TypeOK
<1>3. \A c \in Actors : [pc EXCEPT ![t] = "gone"][c] = IF c = t THEN "gone" ELSE pc[c]
  BY DEF IInv, Typed, TypeOK
<1>4. /\ \A v \in Workers : wpc'[v] = IF v = w THEN "loop" ELSE wpc[v]
      /\ \A v \in Workers \ {w} : job'[v] = job[v]
  BY <1>1 DEF IInv, Typed, TypeOK
<1>5. /\ pc'[t] = "gone"
      /\ \A c \in Actors \ {t} : \/ pc'[c] = pc[c]
                                 \/ /\ pc[c] \in {"wait", "dtorwait"}
                                    /\ pc'[c] \in {"check", "dtor"}
  <2>1. t \in Actors BY <1>1 DEF Actors
  <2> QED BY <1>2, <1>3, <2>1 DEF Woken
<1>6. ASSUME NEW u \in Tasks, u # t
      PROVE  /\ Queued(u) => Queued(u)'
             /\ Executing(u) => Executing(u)'
             /\ Spawning(u) => Spawning(u)'
  <2>1. Queued(u) => Queued(u)' BY <1>1 DEF Queued
  <2>2. Executing(u) => Executing(u)' BY <1>4, <1>6 DEF Executing
  <2>3. Spawning(u) => Spawning(u)' BY <1>1, <1>5 DEF Spawning
  <2> QED BY <2>1, <2>2, <2>3
<1>7. ASSUME NEW u \in Tasks
      PROVE  /\ pc'[u] = "queued" => Queued(u)'
             /\ pc'[u] \in Working => Executing(u)'
             /\ pc'[u] = "made" => Spawning(u)'
  <2>1. u \in Actors BY DEF Actors
  <2>2. CASE u = t BY <1>5, <2>2 DEF Working, BodyStates
  <2>3. CASE u # t /\ pc'[u] = pc[u] BY <1>6, <2>3 DEF Kept
  <2>4. CASE u # t /\ pc[u] \in {"wait", "dtorwait"} /\ pc'[u] \in {"check", "dtor"}
    BY <1>6, <2>4 DEF Kept, Working, BodyStates
  <2> QED BY <1>5, <2>1, <2>2, <2>3, <2>4
<1>8. stop => \A c \in Clients : pc'[c] = "gone"
  BY <1>1, <1>5, ActorAssumption DEF Kept, Actors
<1>9. \A v \in Workers : wpc'[v] = "exit" => wpc[v] = "exit" BY <1>4
<1>10. phase # "dead" BY <1>1 DEF Kept, threads
<1> QED BY <1>1, <1>7, <1>8, <1>9, <1>10 DEF Kept, stop

LEMMA KeptNext == IInv /\ Kept /\ [Next]_vars => Kept'
<1> SUFFICES ASSUME IInv, Kept, [Next]_vars PROVE Kept'
  OBVIOUS
<1>1. Typed /\ Typed' BY StepTyped DEF IInv
<1>2. ASSUME Apart, UNCHANGED kid, Woken(pc, pc') PROVE Kept'
  <2>1. \A a \in Actors : \/ pc'[a] = pc[a]
                          \/ pc[a] \in {"wait", "dtorwait"} /\ pc'[a] \in {"check", "dtor"}
    BY <1>2 DEF Woken
  <2> QED BY <1>1, <1>2, <2>1, KeptFrame DEF Working, BodyStates, Actors
<1>3. ASSUME NEW a \in Actors, NEW x \in {"reject", "run", "check", "wait", "dtor", "dtorwait", "end", "gone"},
             pc' = [pc EXCEPT ![a] = x], Apart, UNCHANGED kid,
             pc[a] \in {"spawn", "run", "check", "dtor"},
             pc[a] = "spawn" => x = "reject",
             x = "gone" => a \in Clients
      PROVE  Kept'
  <2>1. \A c \in Actors : pc'[c] = IF c = a THEN x ELSE pc[c] BY <1>1, <1>3 DEF Typed, TypeOK
  <2>2. \A c \in Clients : pc[c] = "gone" => pc'[c] = "gone" BY <1>3, <2>1 DEF Actors
  <2>3. \A b \in Actors : pc[b] \in {"spawn", "reject"} => pc'[b] \in {"spawn", "reject"}
    BY <1>3, <2>1
  <2>4. \A t \in Tasks : \/ pc'[t] = pc[t] \/ pc'[t] = "gone"
                         \/ pc'[t] \in Working /\ pc[t] \in Working
    BY <1>3, <2>1 DEF Working, BodyStates, Actors
  <2> QED BY <1>1, <1>3, <2>2, <2>3, <2>4, KeptFrame
<1>4. ASSUME NEW a \in Actors, Spawns(a) PROVE Kept'
  <2>1. CASE Push(a)
    <3>1. wpc' \in [Workers -> WorkerStates] BY <1>1 DEF Typed, TypeOK
    <3>2. \A w \in Workers : /\ wpc[w] = "exec" => wpc'[w] = "exec"
                             /\ wpc'[w] = "exit" => wpc[w] = "exit"
      <4>1. \/ UNCHANGED wpc
            \/ \E w \in Workers : wpc[w] \in {"none", "sleep"}
                                  /\ \E x \in {"loop", "woken"} : wpc' = [wpc EXCEPT ![w] = x]
        <5>1. CASE EnqueueAndStart(a) BY <5>1 DEF EnqueueAndStart, threads
        <5>2. CASE Enqueue(a) BY <5>2 DEF Enqueue, NotifyOne
        <5>3. CASE EnqueueFails(a) BY <5>3 DEF EnqueueFails
        <5>4. CASE ~EnqueueAndStart(a) /\ ~Enqueue(a) /\ ~EnqueueFails(a)
          BY <1>4, <5>4, OthersApart DEF Spawns, Apart
        <5> QED BY <5>1, <5>2, <5>3, <5>4
      <4> QED BY <1>1, <4>1 DEF Typed, TypeOK
    <3> QED BY <2>1, <3>1, <3>2, KeptPush
  <2>2. CASE Reject(a)
    <3>1. pc[a] = "spawn" /\ pc' = [pc EXCEPT ![a] = "reject"] /\ UNCHANGED kid /\ Apart
      BY <2>2, OthersApart DEF Reject, taskVars
    <3> QED BY <1>3, <3>1
  <2>3. CASE DropRejected(a) BY <2>3, KeptDrop
  <2>4. ASSUME NEW t \in Tasks, NEW s \in JoinSets \cup {NoSet}, Construct(a, t, s) PROVE Kept'
    BY <2>4, KeptConstruct
  <2> QED BY <1>4, <2>1, <2>2, <2>3, <2>4 DEF Spawns, EnqueueAndStart, Enqueue, EnqueueFails
<1>5. ASSUME NEW a \in Actors, Leave(a) PROVE Kept'
  <2>1. /\ pc[a] = "run" /\ UNCHANGED kid /\ Apart
        /\ \E x \in {"dtor", "end"} : pc' = [pc EXCEPT ![a] = x]
    BY <1>5, OthersApart DEF Leave
  <2> QED BY <1>3, <2>1
<1>6. ASSUME NEW s \in JoinSets, Joins(s) PROVE Kept'
  <2>1. s \in Actors BY ActorAssumption DEF JoinSets, Actors
  <2>2. UNCHANGED kid /\ Apart
    BY <1>6, OthersApart DEF Joins, Wait, WaitReturns, WaitThrows, WaitBlocks, DestroySet,
                             DestroyBlocks, taskVars
  <2>3. /\ pc[s] \in {"run", "check", "dtor"}
        /\ \E x \in {"run", "check", "wait", "dtorwait", "end", "gone"} :
             pc' = [pc EXCEPT ![s] = x] /\ (x = "gone" => s \in Clients)
    BY <1>6 DEF Joins, Wait, WaitReturns, WaitThrows, WaitBlocks, DestroySet,
                DestroyBlocks, Ended
  <2> QED BY <1>3, <2>1, <2>2, <2>3
<1>7. ASSUME NEW w \in Workers, Runs(w) PROVE Kept'
  <2>1. CASE TakeNext(w) \/ WakeUp(w)
    <3>1. /\ wpc[w] \in {"loop", "woken"} /\ HasWork /\ Proceed(w) /\ UNCHANGED <<kid, phase>>
      BY <2>1 DEF TakeNext, WakeUp, taskVars
    <3> QED BY <3>1, KeptProceed
  <2>2. CASE FallAsleep(w) \/ SleepAgain(w)
    <3>1. /\ UNCHANGED <<pc, kid, pending_tasks, job, phase>>
          /\ wpc[w] \in {"loop", "woken"} /\ wpc' = [wpc EXCEPT ![w] = "sleep"]
      BY <2>2 DEF FallAsleep, SleepAgain, taskVars
    <3>2. /\ wpc' \in [Workers -> WorkerStates]
          /\ \A v \in Workers : wpc'[v] = IF v = w THEN "sleep" ELSE wpc[v]
      BY <1>1, <3>1 DEF Typed, TypeOK
    <3> QED BY <1>1, <3>1, <3>2, KeptAsleep
  <2>3. CASE RecordError(w)
    <3>1. pc' = pc \/ pc' = NotifyAll(pc, join_set[job[w]])
      BY <2>3 DEF RecordError
    <3>2. Woken(pc, pc) /\ Woken(pc, NotifyAll(pc, join_set[job[w]]))
      BY <1>1, NotifyWakes DEF Typed, TypeOK, Woken
    <3>3. UNCHANGED kid /\ Apart BY <2>3, OthersApart DEF RecordError
    <3> QED BY <1>2, <3>1, <3>2, <3>3
  <2>4. CASE Release(w) BY <2>4, KeptRelease
  <2> QED BY <1>7, <2>1, <2>2, <2>3, <2>4 DEF Runs
<1>8. CASE Stop
  <2>1. /\ UNCHANGED <<pc, kid, pending_tasks, job>> /\ phase' = "stopping" /\ phase = "up"
        /\ \A c \in Clients : pc[c] = "gone"
        /\ \A w \in Workers : wpc'[w] = IF wpc[w] = "sleep" THEN "woken" ELSE wpc[w]
    BY <1>8 DEF Stop, NotifiedAll, taskVars
  <2>2. \A t \in Tasks : /\ Queued(t)' <=> Queued(t)
                         /\ Executing(t) => Executing(t)'
                         /\ Spawning(t)' <=> Spawning(t)
    BY <2>1 DEF Queued, Executing, Spawning
  <2> QED BY <2>1, <2>2 DEF Kept, stop
<1>9. CASE Join
  <2>1. UNCHANGED <<pc, kid, pending_tasks, job, wpc>> /\ stop /\ stop'
        /\ \A w \in threads : wpc[w] = "exit"
    BY <1>9 DEF Join, taskVars, stop
  <2>2. \A t \in Tasks : /\ Queued(t)' <=> Queued(t)
                         /\ Executing(t)' <=> Executing(t)
                         /\ Spawning(t)' <=> Spawning(t)
    BY <2>1 DEF Queued, Executing, Spawning
  <2>3. threads' = threads BY <2>1 DEF threads
  <2> QED BY <2>1, <2>2, <2>3 DEF Kept, threads
<1>10. CASE SpuriousWakeUp
  <2>1. UNCHANGED <<kid, pending_tasks, sleeping_threads, job, phase, faults>>
    BY <1>10 DEF SpuriousWakeUp, taskVars
  <2>2. CASE UNCHANGED wpc
    <3>1. pc' = pc \/ \E s \in JoinSets : pc' = NotifyAll(pc, s)
      BY <1>10, <2>2 DEF SpuriousWakeUp
    <3>2. Woken(pc, pc) /\ \A s : Woken(pc, NotifyAll(pc, s))
      BY <1>1, NotifyWakes DEF Typed, TypeOK, Woken
    <3>3. Woken(pc, pc') BY <3>1, <3>2
    <3> QED BY <1>2, <2>1, <2>2, <3>3 DEF Apart
  <2>3. ASSUME UNCHANGED pc, NEW w \in Workers, wpc[w] = "sleep",
               wpc' = [wpc EXCEPT ![w] = "woken"]
        PROVE  Kept'
    <3>1. /\ wpc' \in [Workers -> WorkerStates]
          /\ \A v \in Workers : wpc'[v] = IF v = w THEN "woken" ELSE wpc[v]
      BY <1>1, <2>3 DEF Typed, TypeOK
    <3> QED BY <1>1, <2>1, <2>3, <3>1, KeptAsleep
  <2> QED BY <1>10, <2>2, <2>3 DEF SpuriousWakeUp
<1>11. CASE UNCHANGED vars
  <2>1. Apart /\ UNCHANGED <<kid, pc>> BY <1>11 DEF vars, Apart
  <2> QED BY <1>2, <2>1 DEF Woken
<1> QED BY <1>4, <1>5, <1>6, <1>7, <1>8, <1>9, <1>10, <1>11 DEF Next, Over

(* When ~ThreadPool has returned, every task that was ever made has run or *)
(* was refused, unless no thread was ever started (ThreadPool.cpp:78-97,   *)
(* 123-126, 151-153).                                                      *)
THEOREM StoppedPoolIsEmpty == Spec => []NothingLeftBehind
<1>1. Init => Kept
  BY ActorAssumption DEF Init, Kept, stop, Working, BodyStates, Actors
<1>2. IInv /\ Kept => NothingLeftBehind
  <2> SUFFICES ASSUME Typed, Kept, phase = "dead", threads # {}, NEW t \in Tasks
               PROVE  pc[t] \in {"unborn", "gone"}
    BY DEF IInv, NothingLeftBehind
  <2>1. stop /\ \A w \in Workers : wpc[w] \in {"none", "exit"}
    BY DEF Kept, threads, stop
  <2>2. pending_tasks = <<>> BY <2>1 DEF Kept, threads
  <2>3. \A u \in Tasks : ~Queued(u) /\ ~Executing(u) BY <2>1, <2>2 DEF Queued, Executing
  <2>4. ~Spawning(t) BY <2>1, <2>3 DEF Spawning, Kept, Actors, Working, BodyStates
  <2>5. pc[t] \in PcStates BY DEF Typed, TypeOK, Actors
  <2> QED BY <2>3, <2>4, <2>5 DEF Kept, PcStates, Working
<1> QED BY <1>1, <1>2, KeptNext, PoolInvariant, PTL DEF Spec

-----------------------------------------------------------------------------
(* An owner that waits has something to wait for; and while tasks are      *)
(* queued and a thread could still be started, some thread is on its way   *)
(* to the queue or executes a task that has not spawned anything yet, and  *)
(* so does not wait.                                                       *)
Fresh(t) ==
  \A u \in Live(t) : pc[u] = "made" /\ pc[t] \in {"spawn", "reject"} /\ kid[t] = u

Attended ==
  \E w \in Workers :
    wpc[w] \in {"loop", "woken"} \/ (wpc[w] = "exec" /\ Fresh(job[w]))

Moves ==
  /\ \A a \in Actors :
       pc[a] \in {"wait", "dtorwait"} => a \in JoinSets /\ task_count[a] # 0
  /\ pending_tasks # <<>> /\ faults = 0 /\ threads # Workers => Attended

LEMMA CountNat ==
  ASSUME IInv, NEW s \in JoinSets
  PROVE  task_count[s] \in Nat /\ (task_count[s] = 0 <=> Live(s) = {})
  BY LiveFinite, FS_CardinalityType, FS_EmptySet DEF IInv, CountIsLive

LEMMA FreshStays ==
  ASSUME UNCHANGED <<kid, join_set>>, NEW j \in Tasks, Fresh(j),
         \A u \in Tasks : /\ pc[u] \in {"unborn", "gone"} => pc'[u] \in {"unborn", "gone"}
                          /\ pc[u] = "made" => pc'[u] = "made",
         \A a \in Actors : pc[a] \in {"spawn", "reject"} => pc'[a] \in {"spawn", "reject"}
  PROVE  Fresh(j)'
<1>1. Live(j)' \subseteq Live(j) BY DEF Live
<1>2. j \in Actors BY DEF Actors
<1>3. \A u \in Live(j) : pc'[u] = "made" BY DEF Fresh, Live
<1> QED BY <1>1, <1>2, <1>3 DEF Fresh

(* A step of an actor apart from the queue keeps the thread that attends.  *)
LEMMA AttendedApart ==
  ASSUME Typed, Apart, Attended,
         \A j \in Tasks : Fresh(j) => Fresh(j)'
  PROVE  Attended'
<1>1. PICK w \in Workers :
        wpc[w] \in {"loop", "woken"} \/ (wpc[w] = "exec" /\ Fresh(job[w]))
  BY DEF Attended
<1>2. wpc' = wpc /\ job' = job BY DEF Apart
<1>3. wpc[w] = "exec" => job[w] \in Tasks BY DEF Typed, Held
<1>4. wpc[w] = "exec" /\ Fresh(job[w]) => Fresh(job[w])' BY <1>2, <1>3
<1> QED BY <1>1, <1>2, <1>4 DEF Attended

LEMMA FreshConstruct ==
  ASSUME IInv, NEW a \in Actors, NEW t \in Tasks, NEW s \in JoinSets \cup {NoSet},
         Construct(a, t, s), NEW j \in Tasks, Fresh(j)
  PROVE  Fresh(j)'
<1>1. /\ t \in Actors /\ pc[a] = "run" /\ pc[t] = "unborn" /\ a # t /\ s \in Targets(a)
      /\ kid' = [kid EXCEPT ![a] = t] /\ join_set' = [join_set EXCEPT ![t] = s]
  BY DEF Construct, Actors
<1>2. /\ \A c \in Actors : pc'[c] = IF c = t THEN "made" ELSE IF c = a THEN "spawn" ELSE pc[c]
      /\ \A c \in Actors : kid'[c] = IF c = a THEN t ELSE kid[c]
      /\ \A u \in Tasks : join_set'[u] = IF u = t THEN s ELSE join_set[u]
  <2>1. pc' = [pc EXCEPT ![a] = "spawn", ![t] = "made"] BY DEF Construct
  <2> QED BY <1>1, <2>1, TwoSteps, StateNames DEF IInv, Typed, TypeOK
<1>3. j \in Actors /\ Live(j)' \subseteq Live(j) \cup {t}
  <2>1. ASSUME NEW u \in Live(j)', u # t PROVE u \in Live(j)
    <3>1. u \in Tasks /\ u \in Actors /\ join_set'[u] = j /\ pc'[u] \notin {"unborn", "gone"}
      BY <2>1 DEF Live, Actors
    <3>2. join_set[u] = j /\ pc[u] \notin {"unborn", "gone"} BY <1>1, <1>2, <2>1, <3>1
    <3> QED BY <3>1, <3>2 DEF Live
  <2> QED BY <2>1 DEF Actors
<1>4. a \notin Live(j) BY <1>1 DEF Fresh
<1>5. Live(j) # {} => pc[j] \in {"spawn", "reject"} BY DEF Fresh
<1>6. CASE s = j
  <2>1. a = j
    <3>1. a \notin Tasks => j = a
      BY <1>1, <1>6, ActorAssumption DEF Targets, Actors
    <3>2. a \in Tasks /\ a # j => join_set[a] = j BY <1>1, <1>6 DEF Targets
    <3>3. a \in Tasks /\ join_set[a] = j => a \in Live(j) BY <1>1 DEF Live
    <3> QED BY <1>4, <3>1, <3>2, <3>3
  <2>2. Live(j) = {} BY <1>1, <1>5, <2>1
  <2>3. \A u \in Live(j)' : u = t BY <1>3, <2>2
  <2> QED BY <1>1, <1>2, <1>3, <2>1, <2>3 DEF Fresh
<1>7. CASE s # j
  <2>1. t \notin Live(j)' BY <1>2, <1>7 DEF Live
  <2>2. Live(j)' \subseteq Live(j) BY <1>3, <2>1
  <2>3. CASE Live(j) = {} BY <2>2, <2>3 DEF Fresh
  <2>4. CASE Live(j) # {}
    <3>1. j # a /\ j # t BY <1>1, <1>5, <2>4
    <3>2. \A u \in Live(j) : u # a /\ u # t /\ u \in Actors
      BY <1>1, <1>4 DEF Live, Actors
    <3> QED BY <1>2, <1>3, <2>2, <3>1, <3>2 DEF Fresh
  <2> QED BY <2>3, <2>4
<1> QED BY <1>6, <1>7

LEMMA DropMoves ==
  ASSUME IInv, NEW a \in Actors, DropRejected(a), NEW u, u = kid[a]
  PROVE  /\ pc[a] = "reject" /\ u \in Tasks /\ pc[u] = "made" /\ a # u
         /\ kid' = [kid EXCEPT ![a] = NoTask] /\ UNCHANGED join_set
         /\ Destroy(u, [pc EXCEPT ![a] = "run"])
         /\ pc'[u] = "gone" /\ pc'[a] = "run"
         /\ \A c \in Actors \ {a, u} : \/ pc'[c] = pc[c]
                                       \/ /\ pc[c] \in {"wait", "dtorwait"}
                                          /\ pc'[c] \in {"check", "dtor"}
<1> DEFINE p == [pc EXCEPT ![a] = "run"]
<1>1. /\ pc[a] = "reject" /\ u \in Tasks /\ pc[u] = "made" /\ Destroy(u, p)
      /\ p \in [Actors -> PcStates] /\ UNCHANGED join_set
      /\ kid' = [kid EXCEPT ![a] = NoTask]
  BY StateNames DEF DropRejected, IInv, Typed, TypeOK, Held, Hand
<1>2. \A c \in Actors : p[c] = IF c = a THEN "run" ELSE pc[c]
  BY DEF IInv, Typed, TypeOK
<1>3. a # u /\ u \in Actors BY <1>1 DEF Actors
<1> HIDE DEF p
<1>4. Woken([p EXCEPT ![u] = "gone"], pc')
  BY <1>1, DestroyEffect DEF IInv, Typed
<1>5. \A c \in Actors : [p EXCEPT ![u] = "gone"][c] = IF c = u THEN "gone" ELSE p[c]
  BY <1>1 DEF Actors
<1>6. /\ pc'[u] = "gone" /\ pc'[a] = "run"
      /\ \A c \in Actors \ {a, u} : \/ pc'[c] = pc[c]
                                    \/ /\ pc[c] \in {"wait", "dtorwait"}
                                       /\ pc'[c] \in {"check", "dtor"}
  BY <1>2, <1>3, <1>4, <1>5 DEF Woken
<1> QED BY <1>1, <1>3, <1>6 DEF p

LEMMA FreshDrop ==
  ASSUME IInv, NEW a \in Actors, DropRejected(a), NEW j \in Tasks, Fresh(j)
  PROVE  Fresh(j)'
<1> DEFINE u == kid[a]
<1>1. /\ pc[a] = "reject" /\ u \in Tasks /\ pc[u] = "made" /\ a # u
      /\ kid' = [kid EXCEPT ![a] = NoTask] /\ UNCHANGED join_set
      /\ pc'[u] = "gone" /\ pc'[a] = "run"
      /\ \A c \in Actors \ {a, u} : \/ pc'[c] = pc[c]
                                    \/ /\ pc[c] \in {"wait", "dtorwait"}
                                       /\ pc'[c] \in {"check", "dtor"}
  BY DropMoves
<1> HIDE DEF u
<1>2. \A c \in Actors \ {a} : kid'[c] = kid[c] BY <1>1 DEF IInv, Typed, TypeOK
<1>3. j \in Actors /\ Live(j)' \subseteq Live(j) \ {u}
  BY <1>1 DEF Live, Actors
<1>4. CASE j = a
  <2>1. Live(j) \subseteq {u} BY <1>4 DEF Fresh, u
  <2> QED BY <1>3, <2>1 DEF Fresh
<1>5. CASE j # a
  <2>1. \A x \in Live(j)' : x \in Live(j) /\ x \in Actors \ {a, u}
    BY <1>1, <1>3 DEF Fresh, Live, Actors
  <2>2. ASSUME NEW x \in Live(j)' PROVE pc'[x] = "made" /\ pc'[j] = pc[j] /\ kid'[j] = kid[j]
    <3>1. pc[x] = "made" /\ pc[j] \in {"spawn", "reject"} BY <2>1, <2>2 DEF Fresh
    <3>2. j # u BY <1>1, <3>1
    <3> QED BY <1>1, <1>2, <1>3, <1>5, <2>1, <3>1, <3>2
  <2> QED BY <2>1, <2>2 DEF Fresh
<1> QED BY <1>4, <1>5

LEMMA AttendedPush ==
  ASSUME Typed, SleepersCounted, NEW a \in Actors, faults' = 0, threads' # Workers,
         EnqueueAndStart(a) \/ Enqueue(a) \/ EnqueueFails(a)
  PROVE  Attended'
<1>1. CASE EnqueueAndStart(a)
  <2>1. PICK w \in Workers : wpc' = [wpc EXCEPT ![w] = "loop"] BY <1>1 DEF EnqueueAndStart
  <2>2. wpc'[w] = "loop" BY <2>1 DEF Typed, TypeOK
  <2> QED BY <2>2 DEF Attended
<1>2. CASE Enqueue(a)
  <2>1. CASE \E w \in Workers : wpc[w] = "sleep"
    <3>1. PICK w \in Workers : wpc' = [wpc EXCEPT ![w] = "woken"]
      BY <1>2, <2>1 DEF Enqueue, NotifyOne
    <3>2. wpc'[w] = "woken" BY <3>1 DEF Typed, TypeOK
    <3> QED BY <3>2 DEF Attended
  <2>2. CASE ~\E w \in Workers : wpc[w] = "sleep"
    <3>1. UNCHANGED wpc BY <1>2, <2>2 DEF Enqueue, NotifyOne
    <3>2. threads # Workers BY <3>1 DEF threads
    <3>3. Cardinality(Asleep) # 0
      BY <1>2, <3>2 DEF Enqueue, NeedsThread, SleepersCounted, Asleep
    <3>4. Asleep # {} BY <3>3, FS_EmptySet
    <3>5. PICK w \in Workers : wpc[w] = "woken" BY <2>2, <3>4 DEF Asleep
    <3> QED BY <3>1, <3>5 DEF Attended
  <2> QED BY <2>1, <2>2
<1>3. CASE EnqueueFails(a)
  <2>1. faults \in Nat /\ faults' = faults + 1 BY <1>3 DEF EnqueueFails, Typed, TypeOK
  <2> QED BY <2>1
<1> QED BY <1>1, <1>2, <1>3

LEMMA AttendedNext ==
  ASSUME IInv, SleepersCounted, [Next]_vars,
         pending_tasks # <<>> /\ faults = 0 /\ threads # Workers => Attended,
         pending_tasks' # <<>>, faults' = 0, threads' # Workers
  PROVE  Attended'
<1>1. Typed /\ Typed' BY StepTyped DEF IInv
<1>2. ASSUME NEW a \in Actors, EnqueueAndStart(a) \/ Enqueue(a) \/ EnqueueFails(a)
      PROVE  Attended'
  BY <1>1, <1>2, AttendedPush
<1>3. ASSUME Apart PROVE Attended
  <2>1. UNCHANGED <<pending_tasks, faults, threads>> BY <1>3 DEF Apart, threads
  <2> QED BY <2>1
<1>4. ASSUME Apart, UNCHANGED <<kid, join_set>>,
             \A u \in Tasks : /\ pc[u] \in {"unborn", "gone"} => pc'[u] \in {"unborn", "gone"}
                              /\ pc[u] = "made" => pc'[u] = "made",
             \A a \in Actors : pc[a] \in {"spawn", "reject"} => pc'[a] \in {"spawn", "reject"}
      PROVE  Attended'
  BY <1>1, <1>3, <1>4, FreshStays, AttendedApart
<1>5. ASSUME Apart, UNCHANGED <<kid, join_set>>, Woken(pc, pc') PROVE Attended'
  BY <1>4, <1>5 DEF Woken, Actors
<1>6. ASSUME NEW a \in Actors, NEW x \in {"reject", "run", "check", "wait", "dtor", "dtorwait", "end", "gone"},
             pc' = [pc EXCEPT ![a] = x], Apart, UNCHANGED <<kid, join_set>>,
             pc[a] \in {"spawn", "run", "check", "dtor"},
             pc[a] = "spawn" => x = "reject"
      PROVE  Attended'
  <2>1. \A c \in Actors : pc'[c] = IF c = a THEN x ELSE pc[c] BY <1>1, <1>6 DEF Typed, TypeOK
  <2> QED BY <1>4, <1>6, <2>1 DEF Actors
<1>7. ASSUME NEW a \in Actors, Spawns(a) PROVE Attended'
  <2>1. CASE Reject(a)
    <3>1. pc[a] = "spawn" /\ pc' = [pc EXCEPT ![a] = "reject"] /\ UNCHANGED <<kid, join_set>> /\ Apart
      BY <2>1, OthersApart DEF Reject, taskVars
    <3> QED BY <1>6, <3>1
  <2>2. CASE DropRejected(a)
    BY <1>1, <1>3, <2>2, FreshDrop, OthersApart, AttendedApart
  <2>3. ASSUME NEW t \in Tasks, NEW s \in JoinSets \cup {NoSet}, Construct(a, t, s)
        PROVE  Attended'
    <3>1. Apart BY <2>3, OthersApart
    <3>2. \A j \in Tasks : Fresh(j) => Fresh(j)' BY <2>3, FreshConstruct
    <3> QED BY <1>1, <1>3, <3>1, <3>2, AttendedApart
  <2> QED BY <1>2, <1>7, <2>1, <2>2, <2>3 DEF Spawns
<1>8. ASSUME NEW a \in Actors, Leave(a) PROVE Attended'
  <2>1. /\ pc[a] = "run" /\ UNCHANGED <<kid, join_set>> /\ Apart
        /\ \E x \in {"dtor", "end"} : pc' = [pc EXCEPT ![a] = x]
    BY <1>8, OthersApart DEF Leave
  <2> QED BY <1>6, <2>1
<1>9. ASSUME NEW s \in JoinSets, Joins(s) PROVE Attended'
  <2>1. s \in Actors BY ActorAssumption DEF JoinSets, Actors
  <2>2. UNCHANGED <<kid, join_set>> /\ Apart
    BY <1>9, OthersApart DEF Joins, Wait, WaitReturns, WaitThrows, WaitBlocks, DestroySet,
                             DestroyBlocks, taskVars
  <2>3. /\ pc[s] \in {"run", "check", "dtor"}
        /\ \E x \in {"run", "check", "wait", "dtorwait", "end", "gone"} :
             pc' = [pc EXCEPT ![s] = x]
    BY <1>9 DEF Joins, Wait, WaitReturns, WaitThrows, WaitBlocks, DestroySet,
                DestroyBlocks, Ended
  <2> QED BY <1>6, <2>1, <2>2, <2>3
<1>10. ASSUME NEW w \in Workers, TakeNext(w) \/ WakeUp(w) PROVE Attended'
  <2>1. HasWork /\ Proceed(w) /\ UNCHANGED <<kid, join_set>> BY <1>10 DEF TakeNext, WakeUp, taskVars
  <2>2. PICK h \in Tasks :
          /\ h = Head(pending_tasks) /\ pending_tasks # <<>>
          /\ wpc' = [wpc EXCEPT ![w] = "exec"] /\ job' = [job EXCEPT ![w] = h]
          /\ pc' = [pc EXCEPT ![h] = "run"]
    BY <1>1, <2>1, ProceedMoves
  <2>3. pc[h] = "queued" /\ h \in Actors
    <3>1. pending_tasks \in Seq(Tasks) BY <1>1 DEF Typed, TypeOK
    <3>2. h = pending_tasks[1] /\ 1 \in 1..Len(pending_tasks) BY <2>2, <3>1
    <3> QED BY <2>2, <3>2 DEF IInv, Hand, Actors
  <2>4. Live(h) = {}
    <3>1. CASE h \in JoinSets
      <4>1. ~Alive(h) BY <2>3 DEF Alive, BodyStates
      <4> QED BY <3>1, <4>1 DEF IInv, NoDanglingSet
    <3>2. CASE h \notin JoinSets
      <4>1. \A u \in Tasks : join_set[u] # h
        BY <1>1, <2>3, <3>2, ActorAssumption DEF Typed, TypeOK
      <4> QED BY <4>1 DEF Live
    <3> QED BY <3>1, <3>2
  <2>5. Live(h)' = {}
    <3>1. \A c \in Actors : pc'[c] = IF c = h THEN "run" ELSE pc[c]
      BY <1>1, <2>2 DEF Typed, TypeOK
    <3>2. \A u \in Tasks : join_set'[u] = h => pc'[u] \in {"unborn", "gone"}
      BY <2>1, <2>3, <2>4, <3>1 DEF Live, Actors
    <3> QED BY <3>2 DEF Live
  <2>6. wpc'[w] = "exec" /\ job'[w] = h BY <1>1, <2>2 DEF Typed, TypeOK
  <2>7. Fresh(h)' BY <2>5 DEF Fresh
  <2>8. Fresh(job[w])' BY <2>6, <2>7
  <2> QED BY <2>6, <2>8 DEF Attended
<1>11. ASSUME NEW w \in Workers, FallAsleep(w) \/ SleepAgain(w) PROVE Attended'
  BY <1>11 DEF FallAsleep, SleepAgain, HasWork
<1>12. ASSUME NEW w \in Workers, RecordError(w) PROVE Attended'
  <2>1. pc' = pc \/ pc' = NotifyAll(pc, join_set[job[w]])
    BY <1>12 DEF RecordError
  <2>2. Woken(pc, pc) /\ Woken(pc, NotifyAll(pc, join_set[job[w]]))
    BY <1>1, NotifyWakes DEF Typed, TypeOK, Woken
  <2>3. UNCHANGED <<kid, join_set>> /\ Apart BY <1>12, OthersApart DEF RecordError
  <2> QED BY <1>5, <2>1, <2>2, <2>3
<1>13. ASSUME NEW w \in Workers, Release(w) PROVE Attended'
  <2>1. wpc'[w] = "loop" BY <1>1, <1>13 DEF Release, Typed, TypeOK
  <2> QED BY <2>1 DEF Attended
<1>14. ASSUME UNCHANGED <<pc, kid, join_set, pending_tasks, job, faults>>,
              \A w \in Workers : /\ wpc[w] \in {"exec", "loop", "woken"} => wpc'[w] = wpc[w]
                                 /\ wpc[w] = "none" <=> wpc'[w] = "none"
       PROVE  Attended'
  <2>1. threads' = threads BY <1>14 DEF threads
  <2>2. PICK w \in Workers :
          wpc[w] \in {"loop", "woken"} \/ (wpc[w] = "exec" /\ Fresh(job[w]))
    BY <1>14, <2>1 DEF Attended
  <2>3. wpc[w] = "exec" => job[w] \in Tasks BY <1>1 DEF Typed, Held
  <2>4. \A j \in Tasks : Fresh(j) => Fresh(j)' BY <1>14, FreshStays
  <2>5. job'[w] = job[w] /\ wpc'[w] = wpc[w] BY <1>14, <2>2
  <2>6. wpc[w] = "exec" /\ Fresh(job[w]) => Fresh(job[w])' BY <1>14, <2>3, <2>4
  <2> QED BY <2>2, <2>5, <2>6 DEF Attended
<1>15. CASE Stop
  BY <1>14, <1>15 DEF Stop, NotifiedAll, taskVars
<1>16. CASE Join
  BY <1>14, <1>16 DEF Join, taskVars
<1>17. CASE SpuriousWakeUp
  <2>1. UNCHANGED <<kid, join_set, pending_tasks, sleeping_threads, job, phase, faults>>
    BY <1>17 DEF SpuriousWakeUp, taskVars
  <2>2. CASE UNCHANGED wpc
    <3>1. pc' = pc \/ \E s \in JoinSets : pc' = NotifyAll(pc, s)
      BY <1>17, <2>2 DEF SpuriousWakeUp
    <3>2. Woken(pc, pc) /\ \A s : Woken(pc, NotifyAll(pc, s))
      BY <1>1, NotifyWakes DEF Typed, TypeOK, Woken
    <3>3. Woken(pc, pc') BY <3>1, <3>2
    <3> QED BY <1>5, <2>1, <2>2, <3>3 DEF Apart
  <2>3. ASSUME UNCHANGED pc, NEW w \in Workers, wpc[w] = "sleep",
               wpc' = [wpc EXCEPT ![w] = "woken"]
        PROVE  Attended'
    <3>1. \A v \in Workers : wpc'[v] = IF v = w THEN "woken" ELSE wpc[v]
      BY <1>1, <2>3 DEF Typed, TypeOK
    <3> QED BY <1>14, <2>1, <2>3, <3>1
  <2> QED BY <1>17, <2>2, <2>3 DEF SpuriousWakeUp
<1>18. CASE UNCHANGED vars
  BY <1>14, <1>18 DEF vars
<1> QED BY <1>7, <1>8, <1>9, <1>10, <1>11, <1>12, <1>13, <1>15, <1>16, <1>17, <1>18
        DEF Next, Runs, Over

LEMMA WaitersNext ==
  ASSUME IInv, Moves, [Next]_vars, NEW s \in Actors, pc'[s] \in {"wait", "dtorwait"}
  PROVE  s \in JoinSets /\ task_count'[s] # 0
<1> DEFINE waits(c) == pc[c] \in {"wait", "dtorwait"}
<1>1. Typed BY DEF IInv
<1>2. waits(s) => s \in JoinSets /\ task_count[s] # 0 BY DEF Moves
<1>3. ASSUME waits(s), UNCHANGED task_count PROVE s \in JoinSets /\ task_count'[s] # 0
  BY <1>2, <1>3
(* ~Task: the owner is notified when the count reaches 0.                  *)
<1>4. ASSUME NEW t \in Tasks, NEW p \in [Actors -> PcStates], Destroy(t, p), t \in Actors,
             s # t /\ p[s] \in {"wait", "dtorwait"} => waits(s)
      PROVE  s \in JoinSets /\ task_count'[s] # 0
  <2> DEFINE q == [p EXCEPT ![t] = "gone"]
  <2>1. \A c \in Actors : q[c] = IF c = t THEN "gone" ELSE p[c] BY <1>4
  <2> HIDE DEF q
  <2>2. CASE join_set[t] = NoSet
    <3>1. pc' = q /\ UNCHANGED task_count BY <1>4, <2>2 DEF Destroy, q
    <3> QED BY <1>3, <1>4, <2>1, <3>1
  <2>3. CASE join_set[t] # NoSet
    <3> DEFINE o == join_set[t]
    <3>1. /\ task_count' = [task_count EXCEPT ![o] = @ - 1] /\ o \in JoinSets
          /\ pc' = IF task_count[o] = 1 THEN NotifyAll(q, o) ELSE q
      BY <1>1, <1>4, <2>3 DEF Destroy, q, Typed, TypeOK
    <3>2. pc'[s] = q[s] \/ pc'[s] = Awake(q[s]) BY <3>1 DEF NotifyAll
    <3>3. q[s] = pc'[s]
      BY <3>2 DEF Awake
    <3>4. waits(s) /\ s # t BY <1>4, <2>1, <3>3
    <3>5. s \in JoinSets /\ task_count[s] # 0 BY <1>2, <3>4
    <3>6. CASE s # o BY <1>1, <3>1, <3>5, <3>6 DEF Typed, TypeOK
    <3>7. CASE s = o
      <4>1. CASE task_count[o] = 1
        <5>1. pc'[s] = Awake(q[s]) BY <3>1, <3>7, <4>1 DEF NotifyAll
        <5> QED BY <3>3, <5>1 DEF Awake
      <4>2. CASE task_count[o] # 1
        <5>1. task_count[o] \in Nat /\ task_count'[o] = task_count[o] - 1
          BY <1>1, <3>1, CountNat DEF Typed, TypeOK
        <5> QED BY <3>5, <3>7, <4>2, <5>1
      <4> QED BY <4>1, <4>2
    <3> QED BY <3>6, <3>7
  <2> QED BY <2>2, <2>3
<1>5. ASSUME NEW a \in Actors, NEW x \in PcStates, pc' = [pc EXCEPT ![a] = x],
             x \notin {"wait", "dtorwait"}, UNCHANGED task_count
      PROVE  s \in JoinSets /\ task_count'[s] # 0
  <2>1. waits(s) BY <1>1, <1>5 DEF Typed, TypeOK
  <2> QED BY <1>3, <1>5, <2>1
<1>6. ASSUME Woken(pc, pc'), UNCHANGED task_count PROVE s \in JoinSets /\ task_count'[s] # 0
  BY <1>3, <1>6 DEF Woken
<1>7. ASSUME NEW a \in Actors, Spawns(a) PROVE s \in JoinSets /\ task_count'[s] # 0
  <2>1. CASE Push(a)
    <3>1. waits(s)
      <4>1. /\ kid[a] \in Actors /\ pc' = [pc EXCEPT ![a] = "run", ![kid[a]] = "queued"]
        BY <1>1, <2>1, PushTyped DEF Actors
      <4>2. pc'[s] = IF s = kid[a] THEN "queued" ELSE IF s = a THEN "run" ELSE pc[s]
        BY <1>1, <4>1, TwoSteps, StateNames DEF Typed, TypeOK
      <4> QED BY <4>2
    <3>2. UNCHANGED task_count BY <2>1 DEF Push, setVars
    <3> QED BY <1>3, <3>1, <3>2
  <2>2. CASE Reject(a)
    BY <1>5, <2>2, StateNames DEF Reject, setVars
  <2>3. CASE DropRejected(a)
    <3>1. PICK u : u = kid[a] OBVIOUS
    <3>2. /\ pc[a] = "reject" /\ u \in Tasks /\ Destroy(u, [pc EXCEPT ![a] = "run"])
      BY <2>3, <3>1, DropMoves
    <3>3. /\ [pc EXCEPT ![a] = "run"] \in [Actors -> PcStates]
          /\ [pc EXCEPT ![a] = "run"][s] \in {"wait", "dtorwait"} => waits(s)
      BY <1>1, StateNames DEF Typed, TypeOK
    <3> QED BY <1>4, <3>2, <3>3 DEF Actors
  <2>4. ASSUME NEW t \in Tasks, NEW z \in JoinSets \cup {NoSet}, Construct(a, t, z)
        PROVE  s \in JoinSets /\ task_count'[s] # 0
    <3>1. waits(s)
      <4>1. t \in Actors /\ pc' = [pc EXCEPT ![a] = "spawn", ![t] = "made"]
        BY <2>4 DEF Construct, Actors
      <4>2. pc'[s] = IF s = t THEN "made" ELSE IF s = a THEN "spawn" ELSE pc[s]
        BY <1>1, <4>1, TwoSteps, StateNames DEF Typed, TypeOK
      <4> QED BY <4>2
    <3>2. s \in JoinSets /\ task_count[s] # 0 BY <1>2, <3>1
    <3>3. task_count[s] \in Nat BY <3>2, CountNat
    <3>4. task_count'[s] \in {task_count[s], task_count[s] + 1}
      BY <1>1, <2>4, <3>2 DEF Construct, Typed, TypeOK
    <3> QED BY <3>2, <3>3, <3>4
  <2> QED BY <1>7, <2>1, <2>2, <2>3, <2>4 DEF Spawns, EnqueueAndStart, Enqueue, EnqueueFails
<1>8. ASSUME NEW a \in Actors, Leave(a) PROVE s \in JoinSets /\ task_count'[s] # 0
  <2>1. /\ UNCHANGED task_count /\ \E x \in {"dtor", "end"} : pc' = [pc EXCEPT ![a] = x]
    BY <1>8 DEF Leave, setVars
  <2> QED BY <1>5, <2>1, StateNames
<1>9. ASSUME NEW z \in JoinSets, Joins(z) PROVE s \in JoinSets /\ task_count'[s] # 0
  <2>1. z \in Actors BY ActorAssumption DEF JoinSets, Actors
  <2>2. UNCHANGED task_count
    BY <1>9 DEF Joins, Wait, WaitReturns, WaitThrows, WaitBlocks, DestroySet,
                DestroyBlocks, setVars
  <2>3. CASE WaitBlocks(z) \/ DestroyBlocks(z)
    <3>1. task_count[z] # 0 BY <2>3 DEF WaitBlocks, DestroyBlocks, Emptied
    <3>2. \E x \in {"wait", "dtorwait"} : pc' = [pc EXCEPT ![z] = x]
      BY <2>3 DEF WaitBlocks, DestroyBlocks
    <3>3. s = z \/ pc'[s] = pc[s] BY <1>1, <3>2 DEF Typed, TypeOK
    <3> QED BY <1>3, <2>2, <3>1, <3>3
  <2>4. CASE ~WaitBlocks(z) /\ ~DestroyBlocks(z)
    <3>1. \E x \in {"run", "check", "end", "gone"} : pc' = [pc EXCEPT ![z] = x]
      BY <1>9, <2>4 DEF Joins, Wait, WaitReturns, WaitThrows, DestroySet, Ended
    <3> QED BY <1>5, <2>1, <2>2, <3>1, StateNames
  <2> QED BY <2>3, <2>4
<1>10. ASSUME NEW w \in Workers, Runs(w) PROVE s \in JoinSets /\ task_count'[s] # 0
  <2>1. CASE TakeNext(w) \/ WakeUp(w)
    <3>1. HasWork /\ Proceed(w) /\ UNCHANGED task_count
      BY <2>1 DEF TakeNext, WakeUp, setVars
    <3>2. UNCHANGED pc \/ \E h \in Tasks : pc' = [pc EXCEPT ![h] = "run"]
      BY <1>1, <3>1, ProceedMoves
    <3> QED BY <1>3, <1>5, <3>1, <3>2, StateNames DEF Actors
  <2>2. CASE FallAsleep(w) \/ SleepAgain(w)
    BY <1>3, <2>2 DEF FallAsleep, SleepAgain, setVars
  <2>3. CASE RecordError(w)
    <3>1. pc' = pc \/ pc' = NotifyAll(pc, join_set[job[w]])
      BY <2>3 DEF RecordError
    <3>2. Woken(pc, pc) /\ Woken(pc, NotifyAll(pc, join_set[job[w]]))
      BY <1>1, NotifyWakes DEF Typed, TypeOK, Woken
    <3>3. UNCHANGED task_count BY <2>3 DEF RecordError
    <3> QED BY <1>6, <3>1, <3>2, <3>3
  <2>4. CASE Release(w)
    <3>1. job[w] \in Tasks /\ Destroy(job[w], pc) /\ pc \in [Actors -> PcStates]
      BY <1>1, <2>4 DEF Release, Executed, Typed, TypeOK, Held
    <3> QED BY <1>4, <3>1 DEF Actors
  <2> QED BY <1>10, <2>1, <2>2, <2>3, <2>4 DEF Runs
<1>11. CASE Stop \/ Join \/ UNCHANGED vars
  BY <1>3, <1>11 DEF Stop, Join, vars, setVars
<1>12. CASE SpuriousWakeUp
  <2>1. pc' = pc \/ \E z \in JoinSets : pc' = NotifyAll(pc, z)
    BY <1>12 DEF SpuriousWakeUp
  <2>2. Woken(pc, pc) /\ \A z : Woken(pc, NotifyAll(pc, z))
    BY <1>1, NotifyWakes DEF Typed, TypeOK, Woken
  <2>3. UNCHANGED task_count BY <1>12 DEF SpuriousWakeUp, setVars
  <2> QED BY <1>6, <2>1, <2>2, <2>3
<1> QED BY <1>7, <1>8, <1>9, <1>10, <1>11, <1>12 DEF Next, Over

LEMMA MovesNext == IInv /\ SleepersCounted /\ Moves /\ [Next]_vars => Moves'
<1> SUFFICES ASSUME IInv, SleepersCounted, Moves, [Next]_vars PROVE Moves'
  OBVIOUS
<1>1. \A a \in Actors :
        pc'[a] \in {"wait", "dtorwait"} => a \in JoinSets /\ task_count'[a] # 0
  BY WaitersNext
<1>2. pending_tasks' # <<>> /\ faults' = 0 /\ threads' # Workers => Attended'
  BY AttendedNext DEF Moves
<1> QED BY <1>1, <1>2 DEF Moves

(* Queued tasks stay behind threads that all wait in join sets only when   *)
(* the pool has all of its threads: a thread is started whenever the tasks *)
(* that are run could need it (ThreadPool.cpp:158-161).                    *)
THEOREM OnlyFullPoolsStarve == Spec => []StarvedOnlyWhenFull
<1>1. Init => Moves
  BY StateNames DEF Init, Moves
<1>2. IInv /\ Moves => StarvedOnlyWhenFull
  <2> SUFFICES ASSUME IInv, Moves, pending_tasks # <<>>, faults = 0,
                      \A w \in threads : Blocked(w), threads # Workers
               PROVE  FALSE
    BY DEF StarvedOnlyWhenFull
  <2>1. PICK w \in Workers :
          wpc[w] \in {"loop", "woken"} \/ (wpc[w] = "exec" /\ Fresh(job[w]))
    BY DEF Moves, Attended
  <2>2. wpc[w] = "exec" /\ Fresh(job[w]) /\ pc[job[w]] \in {"wait", "dtorwait"}
    BY <2>1 DEF threads, Blocked
  <2>3. job[w] \in Actors BY <2>2 DEF IInv, Typed, Held, Actors
  <2>4. job[w] \in JoinSets /\ task_count[job[w]] # 0 BY <2>2, <2>3 DEF Moves
  <2>5. Live(job[w]) # {} BY <2>4, CountNat
  <2> QED BY <2>2, <2>5 DEF Fresh
<1> QED BY <1>1, <1>2, MovesNext, SleepersAreCounted, PoolInvariant, PTL DEF Spec

-----------------------------------------------------------------------------
(* No deadlock.  Threads may all block in the join sets of their tasks,    *)
(* each of which waits for the next one.  What rules a circle out is that  *)
(* a task belongs to a set that existed before it; what rules out that all *)
(* threads block is that a task is executed by one thread only.            *)
Awaits == stop => \A w \in Workers : wpc[w] # "sleep"

Exclusive ==
  /\ \A w \in Workers : wpc[w] = "exec" => pc[job[w]] \in Working
  /\ \A v, w \in Workers :
       (wpc[v] = "exec" /\ wpc[w] = "exec" /\ job[v] = job[w]) => v = w

(* A task that was not made owns no set that another one could belong to,  *)
(* and among any tasks there is one whose own set none of them belongs to. *)
Childless(S) == \E t \in S : \A u \in S : join_set[u] # t
Lineage ==
  /\ \A t, u \in Tasks : join_set[u] = t => pc[t] # "unborn"
  /\ \A S \in SUBSET Tasks : S # {} => Childless(S)

(* The guards of Next: some actor or thread is at a step it can take, or   *)
(* the owner of the pool may destroy it.                                   *)
CanMove ==
  \/ \E a \in Actors : pc[a] \in {"run", "spawn", "reject", "check", "dtor"}
  \/ \E w \in Workers : \/ wpc[w] \in {"loop", "woken"}
                        \/ wpc[w] = "exec" /\ pc[job[w]] = "end"
  \/ phase = "up" /\ \A c \in Clients : pc[c] = "gone"
  \/ phase = "stopping" /\ \A w \in threads : wpc[w] = "exit"

(* What a step can do to a task: none goes back to where it was not made,  *)
(* and its thread alone takes it away from its function.                   *)
Passes(t) ==
  /\ pc'[t] = "unborn" => pc[t] = "unborn"
  /\ pc[t] \in Working => pc'[t] \in Working \/ \E w \in Workers : Release(w) /\ job[w] = t

LEMMA TaskPasses ==
  ASSUME IInv, [Next]_vars, NEW t \in Tasks
  PROVE  Passes(t)
<1>1. Typed /\ t \in Actors /\ pc[t] \in PcStates BY DEF IInv, Typed, TypeOK, Actors
<1>2. ASSUME pc'[t] = pc[t] PROVE Passes(t) BY <1>2 DEF Passes
<1>3. ASSUME pc'[t] \in Working PROVE Passes(t) BY <1>3 DEF Passes, Working, BodyStates
<1>4. ASSUME pc[t] \notin Working, pc'[t] # "unborn" PROVE Passes(t) BY <1>4 DEF Passes
<1>5. ASSUME Woken(pc, pc') PROVE Passes(t)
  BY <1>1, <1>2, <1>3, <1>5 DEF Woken, Working, BodyStates
<1>6. ASSUME NEW a \in Actors, NEW x \in Working \cup {"gone"}, pc' = [pc EXCEPT ![a] = x],
             x = "gone" => a \notin Tasks
      PROVE  Passes(t)
  <2>1. pc'[t] = IF t = a THEN x ELSE pc[t] BY <1>1, <1>6 DEF Typed, TypeOK
  <2> QED BY <1>2, <1>3, <1>6, <2>1
<1>7. ASSUME NEW a \in Actors, Spawns(a) PROVE Passes(t)
  <2>1. CASE Push(a)
    <3>1. /\ kid[a] \in Actors /\ pc' = [pc EXCEPT ![a] = "run", ![kid[a]] = "queued"]
          /\ pc[kid[a]] = "made"
      BY <1>1, <2>1, PushTyped DEF Actors, IInv, Hand, Push, Accepts
    <3>2. pc'[t] = IF t = kid[a] THEN "queued" ELSE IF t = a THEN "run" ELSE pc[t]
      BY <1>1, <3>1, TwoSteps, StateNames DEF Typed, TypeOK
    <3> QED BY <1>2, <1>3, <1>4, <3>1, <3>2 DEF Working, BodyStates
  <2>2. CASE Reject(a)
    BY <1>6, <2>2 DEF Reject, Working, BodyStates
  <2>3. CASE DropRejected(a)
    <3>1. PICK u : u = kid[a] OBVIOUS
    <3>2. /\ pc[u] = "made" /\ pc'[u] = "gone" /\ pc'[a] = "run"
          /\ \A c \in Actors \ {a, u} : \/ pc'[c] = pc[c]
                                        \/ /\ pc[c] \in {"wait", "dtorwait"}
                                           /\ pc'[c] \in {"check", "dtor"}
      BY <2>3, <3>1, DropMoves
    <3> QED BY <1>1, <1>2, <1>3, <1>4, <3>2 DEF Working, BodyStates
  <2>4. ASSUME NEW j \in Tasks, NEW z \in JoinSets \cup {NoSet}, Construct(a, j, z)
        PROVE  Passes(t)
    <3>1. j \in Actors /\ pc[j] = "unborn" /\ pc' = [pc EXCEPT ![a] = "spawn", ![j] = "made"]
      BY <2>4 DEF Construct, Actors
    <3>2. pc'[t] = IF t = j THEN "made" ELSE IF t = a THEN "spawn" ELSE pc[t]
      BY <1>1, <3>1, TwoSteps, StateNames DEF Typed, TypeOK
    <3> QED BY <1>2, <1>3, <1>4, <3>1, <3>2 DEF Working, BodyStates
  <2> QED BY <1>7, <2>1, <2>2, <2>3, <2>4 DEF Spawns, EnqueueAndStart, Enqueue, EnqueueFails
<1>8. ASSUME NEW a \in Actors, Leave(a) PROVE Passes(t)
  <2>1. \E x \in {"dtor", "end"} : pc' = [pc EXCEPT ![a] = x] BY <1>8 DEF Leave
  <2> QED BY <1>6, <2>1 DEF Working, BodyStates
<1>9. ASSUME NEW s \in JoinSets, Joins(s) PROVE Passes(t)
  <2>1. s \in Actors /\ (s \in Clients => s \notin Tasks)
    BY ActorAssumption DEF JoinSets, Actors
  <2>2. \E x \in {"run", "check", "wait", "dtorwait", "end", "gone"} :
          pc' = [pc EXCEPT ![s] = x] /\ (x = "gone" => s \in Clients)
    BY <1>9 DEF Joins, Wait, WaitReturns, WaitThrows, WaitBlocks, DestroySet,
                DestroyBlocks, Ended
  <2> QED BY <1>6, <2>1, <2>2 DEF Working, BodyStates
<1>10. ASSUME NEW w \in Workers, Runs(w) PROVE Passes(t)
  <2>1. CASE TakeNext(w) \/ WakeUp(w)
    <3>1. HasWork /\ Proceed(w) BY <2>1 DEF TakeNext, WakeUp
    <3>2. UNCHANGED pc \/ \E h \in Tasks : pc' = [pc EXCEPT ![h] = "run"]
      BY <1>1, <3>1, ProceedMoves
    <3> QED BY <1>2, <1>6, <3>2 DEF Working, BodyStates, Actors
  <2>2. CASE FallAsleep(w) \/ SleepAgain(w)
    BY <1>2, <2>2 DEF FallAsleep, SleepAgain
  <2>3. CASE RecordError(w)
    <3>1. pc' = pc \/ pc' = NotifyAll(pc, join_set[job[w]])
      BY <2>3 DEF RecordError
    <3>2. Woken(pc, pc) /\ Woken(pc, NotifyAll(pc, join_set[job[w]]))
      BY <1>1, NotifyWakes DEF Typed, TypeOK, Woken
    <3> QED BY <1>5, <3>1, <3>2
  <2>4. CASE Release(w)
    <3>1. PICK j : j = job[w] OBVIOUS
    <3>2. /\ j \in Tasks /\ pc[j] = "end" /\ Destroy(j, pc) /\ pc \in [Actors -> PcStates]
      BY <1>1, <2>4, <3>1 DEF Release, Executed, Typed, TypeOK, Held
    <3>3. Woken([pc EXCEPT ![j] = "gone"], pc') BY <1>1, <3>2, DestroyEffect DEF Typed
    <3>4. [pc EXCEPT ![j] = "gone"][t] = IF t = j THEN "gone" ELSE pc[t] BY <1>1, <3>2
    <3>5. CASE t = j
      <4>1. pc'[t] = "gone" BY <1>1, <3>3, <3>4, <3>5 DEF Woken
      <4> QED BY <2>4, <3>1, <3>5, <4>1 DEF Passes
    <3>6. CASE t # j
      <4>1. \/ pc'[t] = pc[t]
            \/ pc[t] \in {"wait", "dtorwait"} /\ pc'[t] \in {"check", "dtor"}
        BY <1>1, <3>3, <3>4, <3>6 DEF Woken
      <4> QED BY <1>2, <1>3, <4>1 DEF Working, BodyStates
    <3> QED BY <3>5, <3>6
  <2> QED BY <1>10, <2>1, <2>2, <2>3, <2>4 DEF Runs
<1>11. CASE Stop \/ Join \/ UNCHANGED vars
  BY <1>2, <1>11 DEF Stop, Join, vars
<1>12. CASE SpuriousWakeUp
  <2>1. pc' = pc \/ \E z \in JoinSets : pc' = NotifyAll(pc, z)
    BY <1>12 DEF SpuriousWakeUp
  <2>2. Woken(pc, pc) /\ \A z : Woken(pc, NotifyAll(pc, z))
    BY <1>1, NotifyWakes DEF Typed, TypeOK, Woken
  <2> QED BY <1>5, <2>1, <2>2
<1> QED BY <1>7, <1>8, <1>9, <1>10, <1>11, <1>12 DEF Next, Over

(* A thread that executes a task in the next state does so now, or takes   *)
(* the oldest task of the queue while the others stand still.              *)
Keeps(w) == wpc[w] = "exec" /\ job'[w] = job[w] /\ ~Release(w)
Takes(w) ==
  \E h \in Tasks :
    /\ pc[h] = "queued" /\ pc'[h] = "run" /\ job'[w] = h
    /\ \A v \in Workers \ {w} : wpc'[v] = wpc[v] /\ job'[v] = job[v]

LEMMA ThreadSteps ==
  ASSUME IInv, [Next]_vars, NEW w \in Workers, wpc'[w] = "exec"
  PROVE  Keeps(w) \/ Takes(w)
<1>1. Typed BY DEF IInv
<1>2. ~Release(w) BY <1>1 DEF Release, Typed, TypeOK
<1>3. ASSUME UNCHANGED job, wpc[w] = "exec" PROVE Keeps(w) BY <1>2, <1>3 DEF Keeps
<1>4. ASSUME UNCHANGED job, NEW v \in Workers, NEW x \in WorkerStates \ {"exec"},
             wpc' = [wpc EXCEPT ![v] = x]
      PROVE  Keeps(w)
  BY <1>1, <1>3, <1>4 DEF Typed, TypeOK
<1>5. ASSUME Apart PROVE Keeps(w) BY <1>3, <1>5 DEF Apart
<1>6. ASSUME NEW a \in Actors, Spawns(a) PROVE Keeps(w)
  <2>1. CASE EnqueueAndStart(a)
    BY <1>4, <2>1 DEF EnqueueAndStart, Push, WorkerStates
  <2>2. CASE Enqueue(a)
    BY <1>3, <1>4, <2>2 DEF Enqueue, Push, NotifyOne, WorkerStates
  <2>3. CASE EnqueueFails(a)
    BY <1>3, <2>3 DEF EnqueueFails, Push
  <2> QED BY <1>5, <1>6, <2>1, <2>2, <2>3, OthersApart DEF Spawns
<1>7. ASSUME NEW v \in Workers, Runs(v) PROVE Keeps(w) \/ Takes(w)
  <2>1. CASE TakeNext(v) \/ WakeUp(v)
    <3>1. HasWork /\ Proceed(v) BY <2>1 DEF TakeNext, WakeUp
    <3>2. CASE wpc' = [wpc EXCEPT ![v] = "exit"] /\ UNCHANGED job
      BY <1>4, <3>2 DEF WorkerStates
    <3>3. CASE /\ pending_tasks # <<>> /\ wpc' = [wpc EXCEPT ![v] = "exec"]
               /\ Head(pending_tasks) \in Tasks
               /\ job' = [job EXCEPT ![v] = Head(pending_tasks)]
               /\ pc' = [pc EXCEPT ![Head(pending_tasks)] = "run"]
      <4> DEFINE h == Head(pending_tasks)
      <4>1. pending_tasks \in Seq(Tasks) /\ h \in Actors
        BY <1>1, <3>3 DEF Typed, TypeOK, Actors
      <4>2. h = pending_tasks[1] /\ 1 \in 1..Len(pending_tasks) BY <3>3, <4>1
      <4>3. pc[h] = "queued" BY <4>2 DEF IInv, Hand
      <4>4. /\ pc'[h] = "run"
            /\ \A u \in Workers : /\ wpc'[u] = IF u = v THEN "exec" ELSE wpc[u]
                                  /\ job'[u] = IF u = v THEN h ELSE job[u]
        BY <1>1, <3>3, <4>1 DEF Typed, TypeOK
      <4> HIDE DEF h
      <4>5. CASE w = v BY <3>3, <4>3, <4>4, <4>5 DEF Takes, h
      <4>6. CASE w # v BY <1>2, <4>4, <4>6 DEF Keeps
      <4> QED BY <4>5, <4>6
    <3> QED BY <1>1, <3>1, <3>2, <3>3, ProceedMoves
  <2>2. CASE FallAsleep(v) \/ SleepAgain(v)
    BY <1>4, <2>2 DEF FallAsleep, SleepAgain, WorkerStates
  <2>3. CASE Release(v)
    <3>1. v # w BY <1>2, <2>3
    <3>2. job'[w] = job[w] /\ wpc'[w] = wpc[w]
      BY <1>1, <2>3, <3>1 DEF Release, Typed, TypeOK
    <3> QED BY <1>2, <3>2 DEF Keeps
  <2> QED BY <1>5, <1>7, <2>1, <2>2, <2>3, OthersApart DEF Runs
<1>8. CASE Stop
  BY <1>3, <1>8 DEF Stop, NotifiedAll
<1>9. CASE SpuriousWakeUp
  BY <1>3, <1>4, <1>9 DEF SpuriousWakeUp, WorkerStates
<1>10. CASE Join \/ UNCHANGED vars
  BY <1>3, <1>10 DEF Join, vars
<1> QED BY <1>5, <1>6, <1>7, <1>8, <1>9, <1>10, OthersApart DEF Next, Over

LEMMA ExclusiveNext == IInv /\ Exclusive /\ [Next]_vars => Exclusive'
<1> SUFFICES ASSUME IInv, Exclusive, [Next]_vars PROVE Exclusive'
  OBVIOUS
<1>1. ASSUME NEW w \in Workers, wpc'[w] = "exec" PROVE Keeps(w) \/ Takes(w)
  BY <1>1, ThreadSteps
<1>2. \A w \in Workers : Keeps(w) => job[w] \in Tasks BY DEF Keeps, IInv, Typed, Held
<1>3. ASSUME NEW w \in Workers, wpc'[w] = "exec" PROVE pc'[job'[w]] \in Working
  <2>1. CASE Keeps(w)
    <3>1. pc[job[w]] \in Working /\ wpc[w] = "exec" BY <2>1 DEF Keeps, Exclusive
    <3>2. Passes(job[w]) BY <1>2, <2>1, TaskPasses
    <3>3. \A v \in Workers : Release(v) /\ job[v] = job[w] => v = w
      BY <3>1 DEF Release, Executed, Exclusive
    <3> QED BY <2>1, <3>1, <3>2, <3>3 DEF Keeps, Passes
  <2>2. CASE Takes(w) BY <2>2 DEF Takes, Working, BodyStates
  <2> QED BY <1>1, <1>3, <2>1, <2>2
<1>4. ASSUME NEW v \in Workers, NEW w \in Workers, wpc'[v] = "exec", wpc'[w] = "exec",
             job'[v] = job'[w], Takes(w), v # w
      PROVE  FALSE
  <2>1. wpc[v] = "exec" /\ job'[v] = job[v] /\ pc[job'[w]] = "queued" BY <1>4 DEF Takes
  <2> QED BY <1>4, <2>1 DEF Exclusive, Working, BodyStates
<1>5. ASSUME NEW v \in Workers, NEW w \in Workers, wpc'[v] = "exec", wpc'[w] = "exec",
             job'[v] = job'[w]
      PROVE  v = w
  <2>1. CASE Keeps(v) /\ Keeps(w) BY <1>5, <2>1 DEF Keeps, Exclusive
  <2>2. CASE Takes(v) \/ Takes(w) BY <1>4, <1>5, <2>2
  <2> QED BY <1>1, <1>5, <2>1, <2>2
<1> QED BY <1>3, <1>5 DEF Exclusive

(* A task is executed by one thread at most, which stays with it until its *)
(* function is over (ThreadPool.cpp:104-143).                              *)
THEOREM TasksHaveOneThread == Spec => []Exclusive
<1>1. Init => Exclusive BY DEF Init, Exclusive
<1> QED BY <1>1, ExclusiveNext, PoolInvariant, PTL DEF Spec

LEMMA AwaitsNext == Typed /\ Awaits /\ [Next]_vars => Awaits'
<1> SUFFICES ASSUME Typed, Awaits, [Next]_vars PROVE Awaits'
  OBVIOUS
<1>1. ASSUME UNCHANGED phase, \A w \in Workers : wpc'[w] = "sleep" => wpc[w] = "sleep"
      PROVE  Awaits'
  BY <1>1 DEF Awaits, stop
<1>2. ASSUME UNCHANGED phase, NEW v \in Workers, NEW x \in WorkerStates \ {"sleep"},
             wpc' = [wpc EXCEPT ![v] = x]
      PROVE  Awaits'
  BY <1>1, <1>2 DEF Typed, TypeOK
<1>3. ASSUME Apart PROVE Awaits' BY <1>1, <1>3 DEF Apart
<1>4. ASSUME NEW a \in Actors, Spawns(a) PROVE Awaits'
  <2>1. CASE Push(a)
    <3>1. ~stop' BY <2>1 DEF Push, Accepts, stop
    <3> QED BY <3>1 DEF Awaits
  <2>2. CASE ~Push(a)
    BY <1>3, <1>4, <2>2, OthersApart DEF Spawns, EnqueueAndStart, Enqueue, EnqueueFails
  <2> QED BY <2>1, <2>2
<1>5. ASSUME NEW w \in Workers, Runs(w) PROVE Awaits'
  <2>1. CASE TakeNext(w) \/ WakeUp(w)
    <3>1. UNCHANGED phase /\ \E x \in {"exit", "exec"} : wpc' = [wpc EXCEPT ![w] = x]
      BY <2>1, ProceedMoves DEF TakeNext, WakeUp
    <3> QED BY <1>2, <3>1 DEF WorkerStates
  <2>2. CASE FallAsleep(w) \/ SleepAgain(w)
    <3>1. ~stop' BY <2>2 DEF FallAsleep, SleepAgain, HasWork, stop
    <3> QED BY <3>1 DEF Awaits
  <2>3. CASE Release(w)
    BY <1>2, <2>3 DEF Release, WorkerStates
  <2> QED BY <1>3, <1>5, <2>1, <2>2, <2>3, OthersApart DEF Runs
<1>6. CASE Stop
  <2>1. \A w \in Workers : wpc'[w] # "sleep" BY <1>6 DEF Stop, NotifiedAll
  <2> QED BY <2>1 DEF Awaits
<1>7. CASE Join
  BY <1>7 DEF Join, Awaits, stop
<1>8. CASE SpuriousWakeUp
  <2>1. UNCHANGED phase BY <1>8 DEF SpuriousWakeUp
  <2>2. UNCHANGED wpc \/ \E w \in Workers : wpc' = [wpc EXCEPT ![w] = "woken"]
    BY <1>8 DEF SpuriousWakeUp
  <2> QED BY <1>1, <1>2, <2>1, <2>2 DEF WorkerStates
<1>9. CASE UNCHANGED vars BY <1>1, <1>9 DEF vars
<1> QED BY <1>3, <1>4, <1>5, <1>6, <1>7, <1>8, <1>9, OthersApart DEF Next, Over

LEMMA LineageNext == IInv /\ Lineage /\ [Next]_vars => Lineage'
<1> SUFFICES ASSUME IInv, Lineage, [Next]_vars PROVE Lineage'
  OBVIOUS
<1>1. ASSUME NEW t \in Tasks, pc'[t] = "unborn" PROVE pc[t] = "unborn"
  BY <1>1, TaskPasses DEF Passes
<1>2. ASSUME UNCHANGED join_set PROVE Lineage'
  <2>1. \A t, u \in Tasks : join_set'[u] = t => pc'[t] # "unborn"
    BY <1>1, <1>2 DEF Lineage
  <2>2. \A S \in SUBSET Tasks : S # {} => Childless(S)'
    BY <1>2 DEF Lineage, Childless
  <2> QED BY <2>1, <2>2 DEF Lineage
<1>3. ASSUME NEW a \in Actors, NEW c \in Tasks, NEW z \in JoinSets \cup {NoSet},
             Construct(a, c, z)
      PROVE  Lineage'
  <2>1. /\ c \in Actors /\ pc[c] = "unborn" /\ pc[a] = "run" /\ z \in Targets(a)
        /\ pc' = [pc EXCEPT ![a] = "spawn", ![c] = "made"]
    BY <1>3 DEF Construct, Actors
  <2>2. /\ \A t \in Actors : pc'[t] = IF t = c THEN "made" ELSE IF t = a THEN "spawn" ELSE pc[t]
        /\ \A u \in Tasks : join_set'[u] = IF u = c THEN z ELSE join_set[u]
    <3>1. pc \in [Actors -> PcStates] /\ join_set \in [Tasks -> JoinSets \cup {NoSet}]
      BY DEF IInv, Typed, TypeOK
    <3>2. \A u \in Tasks : join_set'[u] = IF u = c THEN z ELSE join_set[u]
      BY <1>3, <3>1 DEF Construct
    <3> QED BY <2>1, <3>1, <3>2, TwoSteps, StateNames
  <2>3. z \in Tasks => pc[z] # "unborn"
    BY <2>1, ActorAssumption DEF Targets, Lineage, Actors
  <2>4. \A t, u \in Tasks : join_set'[u] = t => pc'[t] # "unborn"
    BY <1>1, <2>2, <2>3 DEF Lineage
  <2>5. ASSUME NEW S \in SUBSET Tasks, S # {} PROVE Childless(S)'
    <3>1. CASE c \in S
      <4>1. \A u \in S : join_set'[u] # c BY <2>1, <2>2, <2>3 DEF Lineage
      <4> QED BY <3>1, <4>1 DEF Childless
    <3>2. CASE c \notin S
      <4>1. Childless(S) BY <2>5 DEF Lineage
      <4>2. \A u \in S : join_set'[u] = join_set[u] BY <2>2, <3>2
      <4> QED BY <4>1, <4>2 DEF Childless
    <3> QED BY <3>1, <3>2
  <2> QED BY <2>4, <2>5 DEF Lineage
<1>4. ASSUME NEW a \in Actors, Spawns(a) PROVE Lineage'
  BY <1>2, <1>3, <1>4
  DEF Spawns, EnqueueAndStart, Enqueue, EnqueueFails, Push, Reject, DropRejected, taskVars
<1>5. ASSUME NEW a \in Actors, Leave(a) PROVE Lineage' BY <1>2, <1>5 DEF Leave
<1>6. ASSUME NEW s \in JoinSets, Joins(s) PROVE Lineage'
  BY <1>2, <1>6 DEF Joins, Wait, WaitReturns, WaitThrows, WaitBlocks, DestroySet,
                    DestroyBlocks, taskVars
<1>7. ASSUME NEW w \in Workers, Runs(w) PROVE Lineage'
  BY <1>2, <1>7 DEF Runs, TakeNext, FallAsleep, WakeUp, SleepAgain, RecordError, Release, taskVars
<1>8. CASE Stop \/ Join \/ SpuriousWakeUp \/ UNCHANGED vars
  BY <1>2, <1>8 DEF Stop, Join, SpuriousWakeUp, taskVars, vars
<1> QED BY <1>4, <1>5, <1>6, <1>7, <1>8 DEF Next, Over

(* A client runs until it is gone.                                         *)
ClientsRun == \A c \in Clients : pc[c] \in BodyStates \cup {"gone"}

LEMMA ClientsNext == IInv /\ ClientsRun /\ [Next]_vars => ClientsRun'
<1> SUFFICES ASSUME IInv, ClientsRun, [Next]_vars, NEW c \in Clients
             PROVE  pc'[c] \in BodyStates \cup {"gone"}
  BY DEF ClientsRun
<1> DEFINE goal == pc'[c] \in BodyStates \cup {"gone"}
<1>1. Typed /\ c \in Actors /\ c \notin Tasks /\ c \in JoinSets
  BY ActorAssumption DEF IInv, Actors, JoinSets
<1>2. ASSUME pc'[c] = pc[c] PROVE goal BY <1>2 DEF ClientsRun
<1>3. ASSUME Woken(pc, pc') PROVE goal BY <1>1, <1>2, <1>3 DEF Woken, BodyStates
<1>4. ASSUME NEW a \in Actors, NEW x, pc' = [pc EXCEPT ![a] = x],
             a \in Tasks \/ x \in BodyStates \cup {"gone"}
      PROVE  goal
  <2>1. pc'[c] = IF c = a THEN x ELSE pc[c] BY <1>1, <1>4 DEF Typed, TypeOK
  <2> QED BY <1>1, <1>2, <1>4, <2>1
<1>5. ASSUME NEW a \in Actors, Spawns(a) PROVE goal
  <2>1. CASE Push(a)
    <3>1. /\ kid[a] \in Tasks /\ kid[a] \in Actors
          /\ pc' = [pc EXCEPT ![a] = "run", ![kid[a]] = "queued"]
      BY <1>1, <2>1, PushTyped DEF Actors
    <3>2. pc'[c] = IF c = kid[a] THEN "queued" ELSE IF c = a THEN "run" ELSE pc[c]
      BY <1>1, <3>1, TwoSteps, StateNames DEF Typed, TypeOK
    <3> QED BY <1>1, <1>2, <3>1, <3>2 DEF BodyStates
  <2>2. CASE Reject(a) BY <1>4, <2>2 DEF Reject, BodyStates
  <2>3. CASE DropRejected(a)
    <3>1. PICK u : u = kid[a] OBVIOUS
    <3>2. /\ pc'[u] = "gone" /\ pc'[a] = "run"
          /\ \A b \in Actors \ {a, u} : \/ pc'[b] = pc[b]
                                        \/ /\ pc[b] \in {"wait", "dtorwait"}
                                           /\ pc'[b] \in {"check", "dtor"}
      BY <2>3, <3>1, DropMoves
    <3> QED BY <1>1, <1>2, <3>2 DEF BodyStates
  <2>4. ASSUME NEW j \in Tasks, NEW z \in JoinSets \cup {NoSet}, Construct(a, j, z) PROVE goal
    <3>1. j \in Actors /\ pc' = [pc EXCEPT ![a] = "spawn", ![j] = "made"]
      BY <2>4 DEF Construct, Actors
    <3>2. pc'[c] = IF c = j THEN "made" ELSE IF c = a THEN "spawn" ELSE pc[c]
      BY <1>1, <3>1, TwoSteps, StateNames DEF Typed, TypeOK
    <3> QED BY <1>1, <1>2, <3>2 DEF BodyStates
  <2> QED BY <1>5, <2>1, <2>2, <2>3, <2>4 DEF Spawns, EnqueueAndStart, Enqueue, EnqueueFails
<1>6. ASSUME NEW a \in Actors, Leave(a) PROVE goal
  <2>1. CASE a \in Tasks BY <1>4, <1>6, <2>1 DEF Leave
  <2>2. CASE a \notin Tasks
    <3>1. a \in JoinSets BY <2>2 DEF Actors, JoinSets
    <3> QED BY <1>4, <1>6, <3>1 DEF Leave, BodyStates
  <2> QED BY <2>1, <2>2
<1>7. ASSUME NEW s \in JoinSets, Joins(s) PROVE goal
  <2>1. s \in Actors /\ (s \in Clients \/ s \in Tasks)
    BY ActorAssumption DEF JoinSets, Actors
  <2>2. \E x \in BodyStates \cup {"end", "gone"} :
          pc' = [pc EXCEPT ![s] = x] /\ (x = "end" => s \notin Clients)
    BY <1>7 DEF Joins, Wait, WaitReturns, WaitThrows, WaitBlocks, DestroySet,
                DestroyBlocks, Ended, BodyStates
  <2> QED BY <1>4, <2>1, <2>2
<1>8. ASSUME NEW w \in Workers, Runs(w) PROVE goal
  <2>1. CASE TakeNext(w) \/ WakeUp(w)
    <3>1. HasWork /\ Proceed(w) BY <2>1 DEF TakeNext, WakeUp
    <3>2. UNCHANGED pc \/ \E h \in Tasks : pc' = [pc EXCEPT ![h] = "run"]
      BY <1>1, <3>1, ProceedMoves
    <3> QED BY <1>2, <1>4, <3>2 DEF Actors
  <2>2. CASE FallAsleep(w) \/ SleepAgain(w)
    BY <1>2, <2>2 DEF FallAsleep, SleepAgain
  <2>3. CASE RecordError(w)
    <3>1. pc' = pc \/ pc' = NotifyAll(pc, join_set[job[w]])
      BY <2>3 DEF RecordError
    <3>2. Woken(pc, pc) /\ Woken(pc, NotifyAll(pc, join_set[job[w]]))
      BY <1>1, NotifyWakes DEF Typed, TypeOK, Woken
    <3> QED BY <1>3, <3>1, <3>2
  <2>4. CASE Release(w)
    <3>1. PICK j : j = job[w] OBVIOUS
    <3>2. j \in Tasks /\ Destroy(j, pc) /\ pc \in [Actors -> PcStates]
      BY <1>1, <2>4, <3>1 DEF Release, Executed, Typed, TypeOK, Held
    <3>3. Woken([pc EXCEPT ![j] = "gone"], pc') BY <1>1, <3>2, DestroyEffect DEF Typed
    <3>4. [pc EXCEPT ![j] = "gone"][c] = pc[c] BY <1>1, <3>2
    <3>5. pc'[c] = pc[c] \/ pc'[c] \in {"check", "dtor"} BY <1>1, <3>3, <3>4 DEF Woken
    <3> QED BY <1>2, <3>5 DEF BodyStates
  <2> QED BY <1>8, <2>1, <2>2, <2>3, <2>4 DEF Runs
<1>9. CASE Stop \/ Join \/ UNCHANGED vars
  BY <1>2, <1>9 DEF Stop, Join, vars
<1>10. CASE SpuriousWakeUp
  <2>1. pc' = pc \/ \E z \in JoinSets : pc' = NotifyAll(pc, z)
    BY <1>10 DEF SpuriousWakeUp
  <2>2. Woken(pc, pc) /\ \A z : Woken(pc, NotifyAll(pc, z))
    BY <1>1, NotifyWakes DEF Typed, TypeOK, Woken
  <2> QED BY <1>3, <2>1, <2>2
<1> QED BY <1>5, <1>6, <1>7, <1>8, <1>9, <1>10 DEF Next, Over

(* A task that some join set waits for and that waits for no other one is  *)
(* in the queue when nobody can move.                                      *)
LEMMA SomeoneIsQueued ==
  ASSUME IInv, Kept, Moves, Lineage, ~CanMove,
         NEW a \in Actors, pc[a] \in {"wait", "dtorwait"}
  PROVE  pending_tasks # <<>>
<1> DEFINE B == {t \in Tasks : pc[t] \in {"wait", "dtorwait"}}
<1>1. ASSUME NEW s \in Actors, pc[s] \in {"wait", "dtorwait"}, Live(s) \cap B = {}
      PROVE  pending_tasks # <<>>
  <2>1. s \in JoinSets /\ task_count[s] # 0 BY <1>1 DEF Moves
  <2>2. PICK t \in Live(s) : TRUE BY <2>1, CountNat
  <2>3. /\ t \in Tasks /\ t \in Actors /\ t \notin B
        /\ pc[t] \in PcStates \ {"unborn", "gone"}
    BY <1>1, <2>2 DEF Live, IInv, Typed, TypeOK, Actors
  <2>4. pc[t] # "made" BY <2>3 DEF Kept, Spawning, CanMove
  <2>5. pc[t] # "end" BY <2>3 DEF Kept, Executing, CanMove, Working
  <2>6. pc[t] \notin {"run", "spawn", "reject", "check", "dtor"} BY <2>3 DEF CanMove
  <2>7. pc[t] = "queued" BY <2>3, <2>4, <2>5, <2>6 DEF PcStates, BodyStates
  <2>8. PICK i \in 1..Len(pending_tasks) : pending_tasks[i] = t
    BY <2>3, <2>7 DEF Kept, Queued
  <2> QED BY <2>8
<1>2. CASE B = {} BY <1>1, <1>2
<1>3. CASE B # {}
  <2>1. B \in SUBSET Tasks OBVIOUS
  <2>2. Childless(B) BY <1>3, <2>1 DEF Lineage
  <2>3. PICK s \in B : \A u \in B : join_set[u] # s BY <2>2 DEF Childless
  <2>4. Live(s) \cap B = {} BY <2>3 DEF Live
  <2>5. s \in Actors /\ pc[s] \in {"wait", "dtorwait"} BY <2>3 DEF Actors
  <2> QED BY <1>1, <2>4, <2>5
<1> QED BY <1>2, <1>3

(* Each thread that is blocked executes a task of its own that owns a set. *)
LEMMA BlockersSuffice ==
  ASSUME IInv, Exclusive, Moves, \A w \in Workers : Blocked(w)
  PROVE  Cardinality(Workers) <= Cardinality(Blockers)
<1> DEFINE f == [w \in Workers |-> job[w]]
<1>1. \A w \in Workers : wpc[w] = "exec" /\ job[w] \in Tasks /\ job[w] \in Blockers
  BY ActorAssumption DEF Blocked, IInv, Typed, Held, Moves, Actors, JoinSets
<1>2. f \in Injection(Workers, Blockers)
  BY <1>1 DEF Exclusive, Injection, IsInjective
<1>3. IsFiniteSet(Blockers) /\ IsFiniteSet(Workers) BY ActorAssumption, FS_Subset
<1> QED BY <1>2, <1>3, FS_Injection

LEMMA StuckIsOver ==
  ASSUME IInv, Kept, Moves, Lineage, Exclusive, Awaits, ClientsRun, NoIdleWhileWork, StarvedOnlyWhenFull,
         faults = 0, ~(Cardinality(Workers) <= Cardinality(Blockers)), phase # "dead"
  PROVE  CanMove
<1> SUFFICES ASSUME ~CanMove PROVE FALSE
  OBVIOUS
<1>1. \A a \in Actors : pc[a] \notin {"run", "spawn", "reject", "check", "dtor"}
  BY DEF CanMove
<1>2. ASSUME NEW w \in Workers, wpc[w] = "exec" PROVE Blocked(w)
  <2>1. job[w] \in Actors /\ pc[job[w]] \in Working /\ pc[job[w]] # "end"
    BY <1>2 DEF IInv, Typed, Held, Exclusive, CanMove, Actors
  <2> QED BY <1>1, <1>2, <2>1 DEF Blocked, Working, BodyStates
<1>3. CASE \E a \in Actors : pc[a] \in {"wait", "dtorwait"}
  <2>1. pending_tasks # <<>> BY <1>3, SomeoneIsQueued
  <2>2. \A w \in Workers : wpc[w] \notin {"loop", "woken", "exit"}
    BY <2>1 DEF CanMove, Kept
  <2>3. \A w \in Workers : wpc[w] # "sleep"
    <3>1. Cardinality({w \in Workers : wpc[w] \in {"loop", "woken"}}) = 0
      BY <2>2, FS_EmptySet
    <3>2. ~(Len(pending_tasks) <= 0)
      <4>1. pending_tasks \in Seq(Tasks) BY DEF IInv, Typed, TypeOK
      <4> QED BY <2>1, <4>1
    <3> QED BY <3>1, <3>2 DEF NoIdleWhileWork
  <2>4. \A w \in threads : wpc[w] = "exec"
    BY <2>2, <2>3 DEF threads, IInv, Typed, TypeOK, WorkerStates
  <2>5. threads = Workers /\ \A w \in threads : Blocked(w)
    BY <1>2, <2>1, <2>4 DEF StarvedOnlyWhenFull, threads
  <2> QED BY <2>5, BlockersSuffice
<1>4. CASE \A a \in Actors : pc[a] \notin {"wait", "dtorwait"}
  <2>1. \A w \in Workers : wpc[w] # "exec"
    BY <1>2, <1>4 DEF Blocked, IInv, Typed, Held, Actors
  <2>2. \A c \in Clients : pc[c] = "gone"
    BY <1>1, <1>4 DEF ClientsRun, BodyStates, Actors
  <2>3. phase = "stopping" BY <2>2 DEF CanMove, IInv, Typed, TypeOK
  <2>4. \A w \in Workers : wpc[w] # "sleep" BY <2>3 DEF Awaits, stop
  <2>5. \A w \in threads : wpc[w] = "exit"
    BY <2>1, <2>4 DEF threads, CanMove, IInv, Typed, TypeOK, WorkerStates
  <2> QED BY <2>3, <2>5 DEF CanMove
<1> QED BY <1>3, <1>4

(* As long as every thread that was asked for could be started and there   *)
(* are more threads than tasks with a join set of their own, the program   *)
(* goes on until the pool is destroyed: whatever waits for whatever, some  *)
(* actor or thread can take a step (ThreadPool.cpp:104-169, 174-203).      *)
THEOREM PoolNeverDeadlocks ==
  Cardinality(Blockers) < Cardinality(Workers) =>
    (Spec => [](faults = 0 => phase = "dead" \/ CanMove))
<1> SUFFICES ASSUME Cardinality(Blockers) < Cardinality(Workers)
             PROVE  Spec => [](faults = 0 => phase = "dead" \/ CanMove)
  OBVIOUS
<1> DEFINE Inv == Exclusive /\ Lineage /\ Awaits /\ ClientsRun
<1>1. Init => Inv
  <2> SUFFICES ASSUME Init PROVE Inv
    OBVIOUS
  <2>1. \A t, u \in Tasks : join_set[u] # t BY ActorAssumption DEF Init, Actors
  <2>2. \A S \in SUBSET Tasks : S # {} => Childless(S) BY <2>1 DEF Childless
  <2>3. Lineage BY <2>1, <2>2 DEF Lineage
  <2>4. Exclusive /\ Awaits /\ ClientsRun
    BY DEF Init, Exclusive, Awaits, stop, ClientsRun, BodyStates, Actors
  <2> QED BY <2>3, <2>4
<1>2. IInv /\ Inv /\ [Next]_vars => Inv'
  BY ExclusiveNext, LineageNext, AwaitsNext, ClientsNext DEF IInv
<1>3. IInv /\ Inv /\ Kept /\ Moves /\ NoIdleWhileWork /\ StarvedOnlyWhenFull
        => (faults = 0 => phase = "dead" \/ CanMove)
  <2>1. Cardinality(Blockers) \in Nat /\ Cardinality(Workers) \in Nat
    BY ActorAssumption, FS_Subset, FS_CardinalityType
  <2>2. ~(Cardinality(Workers) <= Cardinality(Blockers)) BY <2>1
  <2> QED BY <2>2, StuckIsOver
<1>4. Init => Kept
  BY ActorAssumption DEF Init, Kept, stop, Working, BodyStates, Actors
<1>5. Init => Moves BY StateNames DEF Init, Moves
<1> QED
  BY <1>1, <1>2, <1>3, <1>4, <1>5, KeptNext, MovesNext, PoolInvariant, SleepersAreCounted,
     NoThreadSleepsOverWork, OnlyFullPoolsStarve, PTL DEF Spec
=============================================================================
