------------------------- MODULE ThreadPool_proofs --------------------------
(***************************************************************************)
(* Proofs about ThreadPool for any clients, tasks, join sets and threads:  *)
(* type correctness, exactness of the join sets' counts, and that no task  *)
(* outlives the set it belongs to.  Hand is the part of the inductive      *)
(* invariant about who holds which task: a task that is being spawned is   *)
(* held by one actor only, a queued one stands in the queue once.  The     *)
(* last part shows that every step of the pool is a step of ForkJoin.      *)
(***************************************************************************)
EXTENDS ThreadPool, FiniteSetTheorems, TLAPS

(* What TypeOK leaves open: the tasks that Destroy and Push are applied to *)
(* are tasks.                                                              *)
Held ==
  /\ \A a \in Actors : pc[a] \in {"spawn", "reject"} => kid[a] \in Tasks
  /\ \A w \in Workers : wpc[w] = "exec" => job[w] \in Tasks

Typed == TypeOK /\ Held

Hand ==
  /\ \A a \in Actors : pc[a] \in {"spawn", "reject"} => pc[kid[a]] = "made"
  /\ \A a, b \in Actors :
       (/\ pc[a] \in {"spawn", "reject"} /\ pc[b] \in {"spawn", "reject"}
        /\ kid[a] = kid[b]) => a = b
  /\ \A i \in 1..Len(pending_tasks) : pc[pending_tasks[i]] = "queued"
  /\ \A i, j \in 1..Len(pending_tasks) :
       pending_tasks[i] = pending_tasks[j] => i = j

IInv == Typed /\ Hand /\ CountIsLive /\ NoDanglingSet

-----------------------------------------------------------------------------
(* A step that at most wakes owners of join sets up.                       *)
Woken(p, q) ==
  \A a \in Actors :
    \/ q[a] = p[a]
    \/ p[a] \in {"wait", "dtorwait"} /\ q[a] \in {"check", "dtor"}

(* notify_all changes nothing but the state of an owner that waits.        *)
LEMMA NotifyWakes ==
  ASSUME NEW p \in [Actors -> PcStates], NEW s
  PROVE  /\ NotifyAll(p, s) \in [Actors -> PcStates]
         /\ Woken(p, NotifyAll(p, s))
<1>1. ASSUME NEW a \in Actors
      PROVE  /\ NotifyAll(p, s)[a] \in PcStates
             /\ \/ NotifyAll(p, s)[a] = p[a]
                \/ p[a] \in {"wait", "dtorwait"} /\ NotifyAll(p, s)[a] \in {"check", "dtor"}
  <2>1. CASE p[a] = "wait"
    BY <2>1 DEF NotifyAll, Awake, PcStates, BodyStates
  <2>2. CASE p[a] = "dtorwait"
    BY <2>2 DEF NotifyAll, Awake, PcStates, BodyStates
  <2>3. CASE p[a] \notin {"wait", "dtorwait"}
    BY <2>3 DEF NotifyAll, Awake
  <2> QED BY <2>1, <2>2, <2>3
<1> QED BY <1>1 DEF NotifyAll, Woken

(* ~Task: the task is gone, its set counts one less, owners may wake up.   *)
LEMMA DestroyEffect ==
  ASSUME TypeOK, NEW t \in Tasks, NEW p \in [Actors -> PcStates], Destroy(t, p)
  PROVE  /\ pc' \in [Actors -> PcStates]
         /\ Woken([p EXCEPT ![t] = "gone"], pc')
         /\ task_count' = IF join_set[t] = NoSet THEN task_count
                          ELSE [task_count EXCEPT ![join_set[t]] = @ - 1]
         /\ task_count' \in [JoinSets -> Int]
<1> DEFINE q == [p EXCEPT ![t] = "gone"]
<1>1. q \in [Actors -> PcStates]
  BY DEF PcStates, Actors
<1>2. Woken(q, q)
  BY DEF Woken
<1>3. pc' = q \/ pc' = NotifyAll(q, join_set[t])
  BY DEF Destroy
<1>4. /\ NotifyAll(q, join_set[t]) \in [Actors -> PcStates]
      /\ Woken(q, NotifyAll(q, join_set[t]))
  BY <1>1, NotifyWakes
<1>5. task_count' = IF join_set[t] = NoSet THEN task_count
                    ELSE [task_count EXCEPT ![join_set[t]] = @ - 1]
  BY DEF Destroy
<1>6. task_count' \in [JoinSets -> Int]
  <2>1. join_set[t] \in JoinSets \/ join_set[t] = NoSet
    BY DEF TypeOK
  <2> QED BY <1>5, <2>1 DEF TypeOK
<1> QED BY <1>1, <1>2, <1>3, <1>4, <1>5, <1>6

-----------------------------------------------------------------------------
(* Two actors take a step at once: the one that spawns and its task.       *)
LEMMA TwoSteps ==
  ASSUME NEW p \in [Actors -> PcStates], NEW a \in Actors, NEW b \in Actors,
         NEW x \in PcStates, NEW y \in PcStates
  PROVE  LET q == [p EXCEPT ![a] = x, ![b] = y]
         IN  /\ q \in [Actors -> PcStates]
             /\ \A c \in Actors : q[c] = IF c = b THEN y ELSE IF c = a THEN x ELSE p[c]
<1> DEFINE r == [p EXCEPT ![a] = x]
<1>1. r \in [Actors -> PcStates] /\ \A c \in Actors : r[c] = IF c = a THEN x ELSE p[c]
  OBVIOUS
<1> HIDE DEF r
<1>2. /\ [r EXCEPT ![b] = y] \in [Actors -> PcStates]
      /\ \A c \in Actors : [r EXCEPT ![b] = y][c] = IF c = b THEN y ELSE r[c]
  BY <1>1
<1> QED BY <1>1, <1>2 DEF r

LEMMA StateNames ==
  /\ {"unborn", "made", "queued", "end", "gone"} \subseteq PcStates
  /\ {"run", "spawn", "reject", "check", "wait", "dtor", "dtorwait"} \subseteq PcStates
BY DEF PcStates, BodyStates

LEMMA InitTyped == Init => Typed
BY ActorAssumption DEF Init, Typed, TypeOK, Held, Actors, JoinSets, PcStates,
                       BodyStates, WorkerStates

LEMMA PushTyped ==
  ASSUME Typed, NEW a \in Actors, Push(a)
  PROVE  /\ kid[a] \in Tasks
         /\ pc' = [pc EXCEPT ![a] = "run", ![kid[a]] = "queued"]
         /\ pc' \in [Actors -> PcStates]
         /\ kid' \in [Actors -> Tasks \cup {NoTask}]
         /\ pending_tasks' \in Seq(Tasks)
         /\ \A b \in Actors : pc'[b] \in {"spawn", "reject"} => kid'[b] \in Tasks
<1>1. /\ kid[a] \in Tasks /\ kid[a] \in Actors
      /\ pc' = [pc EXCEPT ![a] = "run", ![kid[a]] = "queued"]
  BY DEF Typed, TypeOK, Held, Push, Accepts, Actors
<1>2. /\ pc' \in [Actors -> PcStates]
      /\ \A c \in Actors : pc'[c] = IF c = kid[a] THEN "queued"
                                     ELSE IF c = a THEN "run" ELSE pc[c]
  BY <1>1, TwoSteps, StateNames DEF Typed, TypeOK
<1>3. /\ kid' \in [Actors -> Tasks \cup {NoTask}]
      /\ \A c \in Actors : c # a => kid'[c] = kid[c]
  BY DEF Push, Typed, TypeOK
<1>4. pending_tasks' \in Seq(Tasks)
  BY <1>1 DEF Push, Moved, Typed, TypeOK
<1> QED BY <1>1, <1>2, <1>3, <1>4 DEF Typed, Held

LEMMA ProceedTyped ==
  ASSUME Typed, NEW w \in Workers, HasWork, Proceed(w),
         UNCHANGED kid
  PROVE  /\ pc' \in [Actors -> PcStates]
         /\ pending_tasks' \in Seq(Tasks)
         /\ wpc' \in [Workers -> WorkerStates]
         /\ job' \in [Workers -> Tasks \cup {NoTask}]
         /\ Held'
<1>1. CASE Exits
  BY <1>1 DEF Typed, TypeOK, Held, Proceed, WorkerStates
<1>2. CASE ~Exits
  <2>1. pending_tasks # <<>>
    BY <1>2 DEF Exits, HasWork
  <2>2. Head(pending_tasks) \in Tasks /\ Tail(pending_tasks) \in Seq(Tasks)
    BY <2>1 DEF Typed, TypeOK
  <2>3. /\ pc' = [pc EXCEPT ![Head(pending_tasks)] = "run"]
        /\ wpc' = [wpc EXCEPT ![w] = "exec"]
        /\ job' = [job EXCEPT ![w] = Head(pending_tasks)]
        /\ pending_tasks' = Tail(pending_tasks)
    BY <1>2 DEF Proceed
  <2>4. pc' \in [Actors -> PcStates] /\ pending_tasks' \in Seq(Tasks)
    BY <2>2, <2>3, StateNames DEF Typed, TypeOK, Actors
  <2>5. \A a \in Actors : pc'[a] \in {"spawn", "reject"} => kid'[a] \in Tasks
    BY <2>2, <2>3 DEF Typed, TypeOK, Held
  <2>6. /\ wpc' \in [Workers -> WorkerStates]
        /\ job' \in [Workers -> Tasks \cup {NoTask}]
        /\ \A v \in Workers : wpc'[v] = "exec" => job'[v] \in Tasks
    BY <2>2, <2>3 DEF Typed, TypeOK, Held, WorkerStates
  <2> QED BY <2>4, <2>5, <2>6 DEF Held
<1> QED BY <1>1, <1>2

LEMMA StepTyped == Typed /\ [Next]_vars => Typed'
<1> SUFFICES ASSUME Typed, [Next]_vars PROVE Typed'
  OBVIOUS
<1> USE ActorAssumption
<1>1. ASSUME NEW a \in Actors, NEW t \in Tasks, NEW s \in JoinSets \cup {NoSet},
             Construct(a, t, s)
      PROVE  Typed'
  <2>1. a \in Actors /\ t \in Actors
    BY DEF Actors
  <2>2. /\ pc' \in [Actors -> PcStates]
        /\ \A c \in Actors : pc'[c] = IF c = t THEN "made"
                                       ELSE IF c = a THEN "spawn" ELSE pc[c]
    BY <1>1, <2>1, TwoSteps, StateNames DEF Construct, Typed, TypeOK
  <2>3. /\ kid' \in [Actors -> Tasks \cup {NoTask}]
        /\ \A b \in Actors : pc'[b] \in {"spawn", "reject"} => kid'[b] \in Tasks
    BY <1>1, <2>2 DEF Construct, Typed, TypeOK, Held
  <2>4. /\ join_set' \in [Tasks -> JoinSets \cup {NoSet}]
        /\ task_count' \in [JoinSets -> Int]
    BY <1>1 DEF Construct, Typed, TypeOK
  <2> QED BY <1>1, <2>2, <2>3, <2>4 DEF Construct, poolVars, Typed, TypeOK, Held
<1>2. ASSUME NEW a \in Actors, EnqueueAndStart(a) PROVE Typed'
  <2>1. Push(a) /\ UNCHANGED <<join_set, thrown, setVars, sleeping_threads, job, phase, faults>>
    BY <1>2 DEF EnqueueAndStart, Push
  <2>2. /\ wpc' \in [Workers -> WorkerStates]
        /\ \A w \in Workers : wpc'[w] = "exec" => wpc[w] = "exec"
    BY <1>2 DEF EnqueueAndStart, Typed, TypeOK, WorkerStates
  <2> QED BY <2>1, <2>2, PushTyped DEF Typed, TypeOK, Held, setVars
<1>3. ASSUME NEW a \in Actors, Enqueue(a) PROVE Typed'
  <2>1. Push(a) /\ UNCHANGED <<join_set, thrown, setVars, sleeping_threads, job, phase, faults>>
    BY <1>3 DEF Enqueue, Push
  <2>2. /\ wpc' \in [Workers -> WorkerStates]
        /\ \A w \in Workers : wpc'[w] = "exec" => wpc[w] = "exec"
    BY <1>3 DEF Enqueue, NotifyOne, Typed, TypeOK, WorkerStates
  <2> QED BY <2>1, <2>2, PushTyped DEF Typed, TypeOK, Held, setVars
<1>4. ASSUME NEW a \in Actors, EnqueueFails(a) PROVE Typed'
  <2>1. /\ Push(a) /\ faults' \in Nat
        /\ UNCHANGED <<join_set, thrown, setVars, sleeping_threads, wpc, job, phase>>
    BY <1>4 DEF EnqueueFails, Push, Typed, TypeOK
  <2> QED BY <2>1, PushTyped DEF Typed, TypeOK, Held, setVars
<1>5. ASSUME NEW a \in Actors, Reject(a) PROVE Typed'
  BY <1>5 DEF Typed, TypeOK, Held, Reject, taskVars, setVars, poolVars, PcStates,
              BodyStates
<1>6. ASSUME NEW a \in Actors, DropRejected(a) PROVE Typed'
  <2> DEFINE p == [pc EXCEPT ![a] = "run"]
  <2>1. kid[a] \in Tasks /\ p \in [Actors -> PcStates] /\ Destroy(kid[a], p)
    BY <1>6 DEF DropRejected, Typed, TypeOK, Held, PcStates, BodyStates
  <2>2. /\ pc' \in [Actors -> PcStates]
        /\ Woken([p EXCEPT ![kid[a]] = "gone"], pc')
        /\ task_count' \in [JoinSets -> Int]
    BY <2>1, DestroyEffect DEF Typed, TypeOK
  <2>3. \A b \in Actors : pc'[b] \in {"spawn", "reject"} => kid'[b] \in Tasks
    BY <1>6, <2>1, <2>2 DEF Woken, DropRejected, Typed, TypeOK, Held
  <2> QED BY <1>6, <2>2, <2>3 DEF DropRejected, Typed, TypeOK, Held, poolVars
<1>7. ASSUME NEW a \in Actors, Leave(a) PROVE Typed'
  BY <1>7 DEF Typed, TypeOK, Held, Leave, setVars, poolVars, PcStates, BodyStates
<1>8. ASSUME NEW s \in JoinSets, Joins(s) PROVE Typed'
  <2>1. PICK x \in {"run", "check", "wait", "dtorwait", "end", "gone"} :
                pc' = [pc EXCEPT ![s] = x]
    BY <1>8 DEF Joins, Wait, WaitReturns, WaitThrows, WaitBlocks, DestroySet,
                DestroyBlocks, Ended
  <2>2. /\ pc' \in [Actors -> PcStates]
        /\ \A b \in Actors : pc'[b] \in {"spawn", "reject"} => pc[b] \in {"spawn", "reject"}
    <3>1. x \in PcStates /\ x \notin {"spawn", "reject"}
      BY StateNames
    <3> QED BY <2>1, <3>1 DEF Typed, TypeOK
  <2>3. /\ exception' = exception \/ exception' = [exception EXCEPT ![s] = FALSE]
        /\ UNCHANGED <<taskVars, task_count, poolVars>>
    BY <1>8 DEF Joins, Wait, WaitReturns, WaitThrows, WaitBlocks, DestroySet,
                DestroyBlocks, setVars
  <2> QED BY <2>2, <2>3 DEF Typed, TypeOK, Held, taskVars, poolVars
<1>9. ASSUME NEW w \in Workers, TakeNext(w) PROVE Typed'
  BY <1>9, ProceedTyped DEF Typed, TypeOK, TakeNext, taskVars, setVars
<1>10. ASSUME NEW w \in Workers, FallAsleep(w) PROVE Typed'
  BY <1>10 DEF Typed, TypeOK, Held, FallAsleep, taskVars, setVars, WorkerStates
<1>11. ASSUME NEW w \in Workers, WakeUp(w) PROVE Typed'
  BY <1>11, ProceedTyped DEF Typed, TypeOK, WakeUp, taskVars, setVars
<1>12. ASSUME NEW w \in Workers, SleepAgain(w) PROVE Typed'
  BY <1>12 DEF Typed, TypeOK, Held, SleepAgain, taskVars, setVars, WorkerStates
<1>13. ASSUME NEW w \in Workers, RecordError(w) PROVE Typed'
  <2>1. pc' = pc \/ pc' = NotifyAll(pc, join_set[job[w]])
    BY <1>13 DEF RecordError
  <2>2. pc' \in [Actors -> PcStates] /\ Woken(pc, pc')
    <3>1. pc \in [Actors -> PcStates] /\ Woken(pc, pc)
      BY DEF Typed, TypeOK, Woken
    <3>2. /\ NotifyAll(pc, join_set[job[w]]) \in [Actors -> PcStates]
          /\ Woken(pc, NotifyAll(pc, join_set[job[w]]))
      BY <3>1, NotifyWakes
    <3> QED BY <2>1, <3>1, <3>2
  <2>3. /\ \/ exception' = exception
           \/ exception' = [exception EXCEPT ![join_set[job[w]]] = TRUE]
        /\ thrown' \subseteq Tasks
        /\ UNCHANGED <<kid, join_set, task_count, poolVars>>
    BY <1>13 DEF RecordError, Typed, TypeOK
  <2>4. \A b \in Actors : pc'[b] \in {"spawn", "reject"} => pc[b] \in {"spawn", "reject"}
    BY <2>2 DEF Woken
  <2> QED BY <2>2, <2>3, <2>4 DEF Typed, TypeOK, Held, poolVars
<1>14. ASSUME NEW w \in Workers, Release(w) PROVE Typed'
  <2>1. job[w] \in Tasks /\ pc \in [Actors -> PcStates] /\ Destroy(job[w], pc)
    BY <1>14 DEF Release, Executed, Typed, TypeOK, Held
  <2>2. /\ pc' \in [Actors -> PcStates]
        /\ Woken([pc EXCEPT ![job[w]] = "gone"], pc')
        /\ task_count' \in [JoinSets -> Int]
    BY <2>1, DestroyEffect DEF Typed, TypeOK
  <2> QED
    BY <1>14, <2>1, <2>2 DEF Release, Executed, Typed, TypeOK, Held, Woken, taskVars,
                             WorkerStates
<1>15. CASE Stop
  BY <1>15 DEF Typed, TypeOK, Held, Stop, NotifiedAll, taskVars, setVars, WorkerStates
<1>16. CASE Join
  BY <1>16 DEF Typed, TypeOK, Held, Join, taskVars, setVars
<1>17. CASE SpuriousWakeUp
  <2>1. CASE UNCHANGED wpc
    <3>1. \E s \in JoinSets : pc' = NotifyAll(pc, s)
      BY <1>17, <2>1 DEF SpuriousWakeUp, Typed, TypeOK
    <3>2. pc' \in [Actors -> PcStates] /\ Woken(pc, pc')
      BY <3>1, NotifyWakes DEF Typed, TypeOK
    <3> QED
      BY <1>17, <2>1, <3>2 DEF SpuriousWakeUp, Typed, TypeOK, Held, Woken, taskVars, setVars
  <2>2. CASE UNCHANGED pc
    BY <1>17, <2>2 DEF SpuriousWakeUp, Typed, TypeOK, Held, taskVars, setVars, WorkerStates
  <2> QED BY <1>17, <2>1, <2>2 DEF SpuriousWakeUp
<1>18. CASE UNCHANGED vars
  BY <1>18 DEF Typed, TypeOK, Held, vars
<1> QED
  BY <1>1, <1>2, <1>3, <1>4, <1>5, <1>6, <1>7, <1>8, <1>9, <1>10, <1>11, <1>12,
     <1>13, <1>14, <1>15, <1>16, <1>17, <1>18
  DEF Next, Spawns, Runs, Over

(* Every variable of the pool keeps its type (TypeOK), and Destroy and     *)
(* Push are only ever applied to tasks.                                    *)
THEOREM PoolTyped == Spec => []Typed
BY InitTyped, StepTyped, PTL DEF Spec

THEOREM PoolTypeOK == Spec => []TypeOK
BY PoolTyped, PTL DEF Typed

-----------------------------------------------------------------------------
(* What a step has to keep for the counts to stay exact: the tasks of each *)
(* set, and every owner of a set that is not empty.                        *)
LEMMA CountFrame ==
  ASSUME Typed, CountIsLive, NoDanglingSet,
         UNCHANGED <<join_set, task_count>>,
         \A t \in Tasks : pc'[t] \in {"unborn", "gone"} <=> pc[t] \in {"unborn", "gone"},
         \A s \in JoinSets : Alive(s) /\ Live(s) # {} => Alive(s)'
  PROVE  CountIsLive' /\ NoDanglingSet'
<1>1. ASSUME NEW s \in JoinSets PROVE Live(s)' = Live(s)
  BY <1>1 DEF Live
<1>2. CountIsLive'
  BY <1>1 DEF CountIsLive
<1>3. NoDanglingSet'
  BY <1>1 DEF NoDanglingSet
<1> QED BY <1>2, <1>3

(* What it has to keep for every task to stay in one pair of hands.        *)
LEMMA HandFrame ==
  ASSUME Typed, Hand,
         UNCHANGED <<kid, pending_tasks>>,
         \A a \in Actors : pc'[a] \in {"spawn", "reject"} => pc[a] \in {"spawn", "reject"},
         \A t \in Tasks : pc[t] \in {"made", "queued"} => pc'[t] = pc[t]
  PROVE  Hand'
<1>1. \A a \in Actors : pc'[a] \in {"spawn", "reject"} => pc'[kid[a]] = "made"
  BY DEF Hand, Typed, Held
<1>2. \A i \in 1..Len(pending_tasks) : pc'[pending_tasks[i]] = "queued"
  BY DEF Hand, Typed, TypeOK
<1>3. \A a, b \in Actors :
        (/\ pc'[a] \in {"spawn", "reject"} /\ pc'[b] \in {"spawn", "reject"}
         /\ kid[a] = kid[b]) => a = b
  BY DEF Hand
<1>4. \A i, j \in 1..Len(pending_tasks) :
        pending_tasks[i] = pending_tasks[j] => i = j
  BY DEF Hand
<1>5. kid' = kid /\ pending_tasks' = pending_tasks
  OBVIOUS
<1> QED BY <1>1, <1>2, <1>3, <1>4, <1>5 DEF Hand

LEMMA QuietStep ==
  ASSUME IInv, Woken(pc, pc'),
         UNCHANGED <<kid, join_set, task_count, pending_tasks>>
  PROVE  Hand' /\ CountIsLive' /\ NoDanglingSet'
<1>1. \A a \in Actors : \/ pc'[a] = pc[a]
                        \/ pc[a] \in {"wait", "dtorwait"} /\ pc'[a] \in {"check", "dtor"}
  BY DEF Woken
<1>2. Hand'
  BY <1>1, HandFrame DEF IInv, Actors
<1>3. \A s \in JoinSets : Alive(s) => Alive(s)'
  BY <1>1, ActorAssumption DEF Alive, BodyStates, JoinSets, Actors
<1>4. CountIsLive' /\ NoDanglingSet'
  BY <1>1, <1>3, CountFrame DEF IInv, Actors
<1> QED BY <1>2, <1>4

LEMMA LiveFinite == \A s : IsFiniteSet(Live(s))
BY ActorAssumption, FS_Subset DEF Live

(* A task is constructed: its set, if it has one, counts one more.         *)
LEMMA CountAdd ==
  ASSUME IInv, NEW t \in Tasks, NEW s \in JoinSets \cup {NoSet},
         pc[t] = "unborn", pc'[t] = "made",
         \A u \in Tasks \ {t} : pc'[u] \in {"unborn", "gone"} <=> pc[u] \in {"unborn", "gone"},
         join_set' = [join_set EXCEPT ![t] = s],
         task_count' = IF s = NoSet THEN task_count
                                    ELSE [task_count EXCEPT ![s] = @ + 1],
         s # NoSet => Alive(s),
         \A x \in JoinSets : Alive(x) => Alive(x)'
  PROVE  CountIsLive' /\ NoDanglingSet'
<1>1. \A x \in JoinSets : x # s => Live(x)' = Live(x)
  <2> SUFFICES ASSUME NEW x \in JoinSets, x # s PROVE Live(x)' = Live(x)
    OBVIOUS
  <2>1. \A u \in Tasks : /\ u # t => join_set'[u] = join_set[u]
                         /\ join_set'[t] = s
    BY DEF IInv, Typed, TypeOK
  <2>2. t \notin Live(x)' /\ t \notin Live(x)
    BY <2>1 DEF Live
  <2>3. \A u \in Tasks \ {t} : u \in Live(x)' <=> u \in Live(x)
    BY <2>1 DEF Live
  <2> QED BY <2>2, <2>3 DEF Live
<1>2. ASSUME s \in JoinSets
      PROVE  Live(s)' = Live(s) \cup {t} /\ t \notin Live(s)
  <2>1. \A u \in Tasks : /\ u # t => join_set'[u] = join_set[u]
                         /\ join_set'[t] = s
    BY DEF IInv, Typed, TypeOK
  <2>2. t \in Live(s)' /\ t \notin Live(s)
    BY <2>1 DEF Live
  <2>3. \A u \in Tasks \ {t} : u \in Live(s)' <=> u \in Live(s)
    BY <2>1 DEF Live
  <2> QED BY <2>2, <2>3 DEF Live
<1>3. ASSUME NEW x \in JoinSets
      PROVE  task_count'[x] = Cardinality(Live(x)')
  <2>1. task_count[x] = Cardinality(Live(x)) /\ task_count[x] \in Int
    BY DEF IInv, CountIsLive, Typed, TypeOK
  <2>2. CASE x # s
    BY <1>1, <2>1, <2>2, ActorAssumption DEF IInv, Typed, TypeOK
  <2>3. CASE x = s
    <3>1. task_count'[x] = task_count[x] + 1
      BY <2>3, ActorAssumption DEF IInv, Typed, TypeOK, JoinSets, Actors
    <3>2. Cardinality(Live(x)') = Cardinality(Live(x)) + 1
      BY <1>2, <2>3, LiveFinite, FS_AddElement
    <3> QED BY <2>1, <3>1, <3>2
  <2> QED BY <2>2, <2>3
<1>4. ASSUME NEW x \in JoinSets, Live(x)' # {}
      PROVE  Alive(x)'
  <2>1. CASE x = s
    BY <2>1, ActorAssumption DEF JoinSets, Actors
  <2>2. CASE x # s
    <3>1. Live(x) # {}
      BY <1>1, <1>4, <2>2
    <3> QED BY <3>1 DEF IInv, NoDanglingSet
  <2> QED BY <2>1, <2>2
<1> QED BY <1>3, <1>4 DEF CountIsLive, NoDanglingSet

(* A task is destroyed: its set counts one less.                           *)
LEMMA CountRemove ==
  ASSUME IInv, NEW t \in Tasks,
         pc[t] \notin {"unborn", "gone"}, pc'[t] = "gone",
         \A u \in Tasks \ {t} : pc'[u] \in {"unborn", "gone"} <=> pc[u] \in {"unborn", "gone"},
         UNCHANGED join_set,
         task_count' = IF join_set[t] = NoSet THEN task_count
                       ELSE [task_count EXCEPT ![join_set[t]] = @ - 1],
         \A x \in JoinSets : Alive(x) => Alive(x)'
  PROVE  CountIsLive' /\ NoDanglingSet'
<1> DEFINE s == join_set[t]
<1>1. \A x \in JoinSets : x # s => Live(x)' = Live(x)
  BY DEF Live
<1>2. Live(s)' = Live(s) \ {t} /\ t \in Live(s)
  BY DEF Live
<1>3. ASSUME NEW x \in JoinSets
      PROVE  task_count'[x] = Cardinality(Live(x)')
  <2>1. task_count[x] = Cardinality(Live(x)) /\ task_count[x] \in Int
    BY DEF IInv, CountIsLive, Typed, TypeOK
  <2>2. CASE x # s
    BY <1>1, <2>1, <2>2 DEF IInv, Typed, TypeOK
  <2>3. CASE x = s
    <3>1. task_count'[x] = task_count[x] - 1
      BY <2>3, ActorAssumption DEF IInv, Typed, TypeOK, JoinSets, Actors
    <3>2. Cardinality(Live(x)') = Cardinality(Live(x)) - 1
      BY <1>2, <2>3, LiveFinite, FS_RemoveElement
    <3> QED BY <2>1, <3>1, <3>2
  <2> QED BY <2>2, <2>3
<1>4. ASSUME NEW x \in JoinSets, Live(x)' # {}
      PROVE  Alive(x)'
  <2>1. Live(x) # {}
    BY <1>1, <1>2, <1>4
  <2> QED BY <2>1 DEF IInv, NoDanglingSet
<1> QED BY <1>3, <1>4 DEF CountIsLive, NoDanglingSet

-----------------------------------------------------------------------------
LEMMA InitInv == Init => IInv
<1> SUFFICES ASSUME Init PROVE IInv
  OBVIOUS
<1>1. \A t \in Tasks : pc[t] = "unborn"
  BY ActorAssumption DEF Init, Actors
<1>2. \A s \in JoinSets : Live(s) = {} /\ task_count[s] = 0
  BY <1>1 DEF Live, Init
<1>3. CountIsLive /\ NoDanglingSet
  BY <1>2, FS_EmptySet DEF CountIsLive, NoDanglingSet
<1>4. Hand
  BY DEF Init, Hand, Actors
<1> QED BY <1>3, <1>4, InitTyped DEF IInv

(* The task leaves the hands of the actor that spawns it for the queue.    *)
LEMMA PushKeeps ==
  ASSUME IInv, NEW a \in Actors, Push(a)
  PROVE  Hand' /\ CountIsLive' /\ NoDanglingSet'
<1> DEFINE t == kid[a]
<1>1. /\ t \in Tasks /\ t \in Actors /\ pc[t] = "made" /\ pc[a] = "spawn"
      /\ UNCHANGED <<join_set, task_count>>
      /\ kid' = [kid EXCEPT ![a] = NoTask]
      /\ pending_tasks' = Append(pending_tasks, t)
  BY PushTyped DEF IInv, Hand, Typed, Held, Push, Accepts, Moved, Actors, setVars
<1>2. \A c \in Actors : pc'[c] = IF c = t THEN "queued" ELSE IF c = a THEN "run" ELSE pc[c]
  BY <1>1, PushTyped, TwoSteps, StateNames DEF IInv, Typed, TypeOK
<1>3. \A b \in Actors : pc'[b] \in {"spawn", "reject"} =>
        b # a /\ pc[b] \in {"spawn", "reject"} /\ kid'[b] = kid[b] /\ kid[b] # t
  BY <1>1, <1>2 DEF IInv, Hand, Typed, TypeOK
<1>4. /\ Len(pending_tasks') = Len(pending_tasks) + 1
      /\ pending_tasks'[Len(pending_tasks) + 1] = t
      /\ \A i \in 1..Len(pending_tasks) : /\ pending_tasks'[i] = pending_tasks[i]
                                           /\ pending_tasks[i] \in Tasks
                                           /\ pc[pending_tasks[i]] = "queued"
      /\ Len(pending_tasks) \in Nat
  <2>1. pending_tasks \in Seq(Tasks) /\ Len(pending_tasks) \in Nat
    BY DEF IInv, Typed, TypeOK
  <2>2. /\ Len(pending_tasks') = Len(pending_tasks) + 1
        /\ pending_tasks'[Len(pending_tasks) + 1] = t
        /\ \A i \in 1..Len(pending_tasks) : pending_tasks'[i] = pending_tasks[i]
    BY <1>1, <2>1
  <2>3. \A i \in 1..Len(pending_tasks) :
          pending_tasks[i] \in Tasks /\ pc[pending_tasks[i]] = "queued"
    BY <2>1 DEF IInv, Hand
  <2> QED BY <2>1, <2>2, <2>3
<1>5. \A b \in Actors : pc'[b] \in {"spawn", "reject"} => pc'[kid'[b]] = "made"
  <2> SUFFICES ASSUME NEW b \in Actors, pc'[b] \in {"spawn", "reject"}
               PROVE  pc'[kid'[b]] = "made"
    OBVIOUS
  <2>1. /\ kid'[b] = kid[b] /\ kid[b] # t /\ kid[b] \in Actors
        /\ pc[kid[b]] = "made"
    BY <1>3 DEF IInv, Typed, Held, Hand, Actors
  <2> QED BY <1>1, <1>2, <2>1
<1>6. \A b, c \in Actors :
        (/\ pc'[b] \in {"spawn", "reject"} /\ pc'[c] \in {"spawn", "reject"}
         /\ kid'[b] = kid'[c]) => b = c
  BY <1>3 DEF IInv, Hand
<1>7. \A i \in 1..Len(pending_tasks') :
        /\ pc'[pending_tasks'[i]] = "queued"
        /\ pending_tasks'[i] = t <=> i = Len(pending_tasks) + 1
  <2> SUFFICES ASSUME NEW i \in 1..Len(pending_tasks')
               PROVE  /\ pc'[pending_tasks'[i]] = "queued"
                      /\ pending_tasks'[i] = t <=> i = Len(pending_tasks) + 1
    OBVIOUS
  <2>1. CASE i = Len(pending_tasks) + 1
    BY <1>1, <1>2, <1>4, <2>1
  <2>2. CASE i \in 1..Len(pending_tasks)
    <3>1. pending_tasks'[i] \in Actors /\ pc[pending_tasks'[i]] = "queued"
      BY <1>4, <2>2 DEF Actors
    <3>2. pending_tasks'[i] # t /\ pending_tasks'[i] # a
      BY <1>1, <3>1
    <3> QED BY <1>2, <1>4, <2>2, <3>1, <3>2
  <2> QED BY <1>4, <2>1, <2>2
<1>8. \A i, j \in 1..Len(pending_tasks') :
        pending_tasks'[i] = pending_tasks'[j] => i = j
  <2> SUFFICES ASSUME NEW i \in 1..Len(pending_tasks'), NEW j \in 1..Len(pending_tasks'),
                      pending_tasks'[i] = pending_tasks'[j]
               PROVE  i = j
    OBVIOUS
  <2>1. CASE i = Len(pending_tasks) + 1 \/ j = Len(pending_tasks) + 1
    BY <1>7, <2>1
  <2>2. CASE i \in 1..Len(pending_tasks) /\ j \in 1..Len(pending_tasks)
    BY <1>4, <2>2 DEF IInv, Hand
  <2> QED BY <1>4, <2>1, <2>2
<1>9. Hand'
  BY <1>5, <1>6, <1>7, <1>8 DEF Hand
<1>10. \A u \in Tasks : pc'[u] \in {"unborn", "gone"} <=> pc[u] \in {"unborn", "gone"}
  BY <1>1, <1>2 DEF Actors
<1>11. \A s \in JoinSets : Alive(s) => Alive(s)'
  BY <1>1, <1>2, ActorAssumption DEF Alive, BodyStates, JoinSets, Actors
<1>12. CountIsLive' /\ NoDanglingSet'
  BY <1>1, <1>10, <1>11, CountFrame DEF IInv
<1> QED BY <1>9, <1>12

(* The oldest task leaves the queue and runs; or the worker exits.         *)
LEMMA ProceedKeeps ==
  ASSUME IInv, NEW w \in Workers, HasWork, Proceed(w),
         UNCHANGED <<kid, join_set, task_count>>
  PROVE  Hand' /\ CountIsLive' /\ NoDanglingSet'
<1>1. CASE Exits
  <2>1. UNCHANGED <<pc, pending_tasks>>
    BY <1>1 DEF Proceed
  <2>2. Woken(pc, pc')
    BY <2>1 DEF Woken
  <2> QED BY <2>1, <2>2, QuietStep
<1>2. CASE ~Exits
  <2> DEFINE t == Head(pending_tasks)
  <2>1. pending_tasks # <<>>
    BY <1>2 DEF Exits, HasWork
  <2>2. /\ pending_tasks \in Seq(Tasks) /\ Len(pending_tasks) \in Nat
        /\ t = pending_tasks[1] /\ 1 \in 1..Len(pending_tasks)
        /\ t \in Tasks /\ t \in Actors
    BY <2>1 DEF IInv, Typed, TypeOK, Actors
  <2>3. pc[t] = "queued"
    BY <2>2 DEF IInv, Hand
  <2>4. /\ \A c \in Actors : pc'[c] = IF c = t THEN "run" ELSE pc[c]
        /\ pending_tasks' = Tail(pending_tasks)
    BY <1>2, <2>2 DEF Proceed, IInv, Typed, TypeOK
  <2>5. /\ Len(pending_tasks') = Len(pending_tasks) - 1
        /\ \A i \in 1..Len(pending_tasks') :
             /\ i + 1 \in 1..Len(pending_tasks) /\ i + 1 # 1
             /\ pending_tasks'[i] = pending_tasks[i + 1]
    BY <2>1, <2>2, <2>4
  <2>6. \A i \in 1..Len(pending_tasks') : pc'[pending_tasks'[i]] = "queued"
    <3> SUFFICES ASSUME NEW i \in 1..Len(pending_tasks')
                 PROVE  pc'[pending_tasks'[i]] = "queued"
      OBVIOUS
    <3>1. /\ pending_tasks[i + 1] \in Actors /\ pending_tasks[i + 1] # t
          /\ pc[pending_tasks[i + 1]] = "queued"
      BY <2>2, <2>5 DEF IInv, Hand, Actors
    <3> QED BY <2>4, <2>5, <3>1
  <2>7. \A i, j \in 1..Len(pending_tasks') :
          pending_tasks'[i] = pending_tasks'[j] => i = j
    <3> SUFFICES ASSUME NEW i \in 1..Len(pending_tasks'), NEW j \in 1..Len(pending_tasks'),
                        pending_tasks'[i] = pending_tasks'[j]
                 PROVE  i = j
      OBVIOUS
    <3>1. i + 1 = j + 1
      BY <2>5 DEF IInv, Hand
    <3> QED BY <3>1, <2>5, <2>2
  <2>8. \A b \in Actors : pc'[b] \in {"spawn", "reject"} =>
          pc[b] \in {"spawn", "reject"} /\ pc'[kid[b]] = "made"
    <3> SUFFICES ASSUME NEW b \in Actors, pc'[b] \in {"spawn", "reject"}
                 PROVE  pc[b] \in {"spawn", "reject"} /\ pc'[kid[b]] = "made"
      OBVIOUS
    <3>1. pc[b] \in {"spawn", "reject"}
      BY <2>4
    <3>2. kid[b] \in Actors /\ pc[kid[b]] = "made"
      BY <3>1 DEF IInv, Typed, Held, Hand, Actors
    <3> QED BY <2>3, <2>4, <3>1, <3>2
  <2>9. Hand'
    <3>1. kid' = kid
      OBVIOUS
    <3>2. \A b, c \in Actors :
            (/\ pc'[b] \in {"spawn", "reject"} /\ pc'[c] \in {"spawn", "reject"}
             /\ kid'[b] = kid'[c]) => b = c
      BY <2>8, <3>1 DEF IInv, Hand
    <3> QED BY <2>6, <2>7, <2>8, <3>1, <3>2 DEF Hand
  <2>10. \A u \in Tasks : pc'[u] \in {"unborn", "gone"} <=> pc[u] \in {"unborn", "gone"}
    BY <2>3, <2>4 DEF Actors
  <2>11. \A s \in JoinSets : Alive(s) => Alive(s)'
    BY <2>4, ActorAssumption DEF Alive, BodyStates, JoinSets, Actors
  <2>12. CountIsLive' /\ NoDanglingSet'
    BY <2>10, <2>11, CountFrame DEF IInv
  <2> QED BY <2>9, <2>12
<1> QED BY <1>1, <1>2

(* ~Task on a task t that was made or has ended, the rest of the step p    *)
(* touching no other task that is held by an actor or by the queue.        *)
LEMMA DestroyKeeps ==
  ASSUME IInv, NEW t \in Tasks, NEW p \in [Actors -> PcStates], Destroy(t, p),
         UNCHANGED join_set, pc[t] \in {"made", "end"},
         \A c \in Actors : p[c] = pc[c] \/ (p[c] = "run" /\ pc[c] = "reject")
  PROVE  /\ CountIsLive' /\ NoDanglingSet'
         /\ \A c \in Actors \ {t} : \/ pc'[c] = pc[c]
                                   \/ (pc'[c] = "run" /\ pc[c] = "reject")
                                   \/ /\ pc[c] \in {"wait", "dtorwait"}
                                      /\ pc'[c] \in {"check", "dtor"}
         /\ pc'[t] = "gone"
<1> DEFINE q == [p EXCEPT ![t] = "gone"]
<1>1. /\ Woken(q, pc')
      /\ task_count' = IF join_set[t] = NoSet THEN task_count
                       ELSE [task_count EXCEPT ![join_set[t]] = @ - 1]
  BY DestroyEffect DEF IInv, Typed
<1>2. \A c \in Actors : q[c] = IF c = t THEN "gone" ELSE p[c]
  BY DEF Actors
<1>3. pc'[t] = "gone"
  BY <1>1, <1>2 DEF Woken, Actors
<1>4. \A c \in Actors \ {t} : \/ pc'[c] = pc[c]
                            \/ (pc'[c] = "run" /\ pc[c] = "reject")
                            \/ /\ pc[c] \in {"wait", "dtorwait"}
                               /\ pc'[c] \in {"check", "dtor"}
  <2> SUFFICES ASSUME NEW c \in Actors, c # t
               PROVE  \/ pc'[c] = pc[c]
                      \/ (pc'[c] = "run" /\ pc[c] = "reject")
                      \/ /\ pc[c] \in {"wait", "dtorwait"}
                         /\ pc'[c] \in {"check", "dtor"}
    OBVIOUS
  <2>1. q[c] = p[c]
    BY <1>2
  <2>2. pc'[c] = q[c] \/ (q[c] \in {"wait", "dtorwait"} /\ pc'[c] \in {"check", "dtor"})
    BY <1>1 DEF Woken
  <2> QED BY <2>1, <2>2
<1>5. \A u \in Tasks \ {t} : pc'[u] \in {"unborn", "gone"} <=> pc[u] \in {"unborn", "gone"}
  BY <1>4 DEF Actors
<1>6. \A x \in JoinSets : Alive(x) => Alive(x)'
  BY <1>4, ActorAssumption DEF Alive, BodyStates, JoinSets, Actors
<1>7. CountIsLive' /\ NoDanglingSet'
  BY <1>1, <1>3, <1>5, <1>6, CountRemove
<1> QED BY <1>3, <1>4, <1>7

LEMMA ConstructKeeps ==
  ASSUME IInv, NEW a \in Actors, NEW t \in Tasks, NEW s \in JoinSets \cup {NoSet},
         Construct(a, t, s)
  PROVE  Hand' /\ CountIsLive' /\ NoDanglingSet'
<1>1. a \in Actors /\ t \in Actors /\ pc[a] = "run" /\ pc[t] = "unborn"
  BY DEF Construct, Actors
<1>2. \A c \in Actors : pc'[c] = IF c = t THEN "made" ELSE IF c = a THEN "spawn" ELSE pc[c]
  BY <1>1, TwoSteps, StateNames DEF Construct, IInv, Typed, TypeOK
<1>3. /\ kid' = [kid EXCEPT ![a] = t] /\ pending_tasks' = pending_tasks
      /\ \A c \in Actors : kid'[c] = IF c = a THEN t ELSE kid[c]
  BY DEF Construct, poolVars, IInv, Typed, TypeOK
<1>4. \A b \in Actors \ {a} : pc'[b] \in {"spawn", "reject"} =>
        /\ pc[b] \in {"spawn", "reject"} /\ kid'[b] = kid[b]
        /\ kid[b] \in Actors /\ pc[kid[b]] = "made" /\ kid[b] # t
  BY <1>1, <1>2, <1>3 DEF IInv, Typed, Held, Hand, Actors
<1>5. \A b \in Actors : pc'[b] \in {"spawn", "reject"} => pc'[kid'[b]] = "made"
  <2> SUFFICES ASSUME NEW b \in Actors, pc'[b] \in {"spawn", "reject"}
               PROVE  pc'[kid'[b]] = "made"
    OBVIOUS
  <2>1. CASE b = a
    BY <1>1, <1>2, <1>3, <2>1
  <2>2. CASE b # a
    BY <1>1, <1>2, <1>4, <2>2
  <2> QED BY <2>1, <2>2
<1>6. \A b, c \in Actors :
        (/\ pc'[b] \in {"spawn", "reject"} /\ pc'[c] \in {"spawn", "reject"}
         /\ kid'[b] = kid'[c]) => b = c
  BY <1>3, <1>4 DEF IInv, Hand
<1>7. \A i \in 1..Len(pending_tasks) :
        pending_tasks[i] \in Actors /\ pc'[pending_tasks[i]] = "queued"
  BY <1>1, <1>2 DEF IInv, Hand, Typed, TypeOK, Actors
<1>8. Hand'
  BY <1>3, <1>5, <1>6, <1>7 DEF IInv, Hand
<1>9. \A x \in JoinSets : Alive(x) => Alive(x)'
  BY <1>1, <1>2, ActorAssumption DEF Alive, BodyStates, JoinSets, Actors
<1>10. s # NoSet => Alive(s)
  <2> SUFFICES ASSUME s # NoSet PROVE Alive(s)
    OBVIOUS
  <2>1. CASE s = a
    BY <1>1, <2>1 DEF Alive, BodyStates
  <2>2. CASE s # a
    <3>1. a \in Tasks /\ s = join_set[a] /\ s \in JoinSets
      BY <2>2 DEF Construct, Targets
    <3>2. a \in Live(s)
      BY <1>1, <3>1 DEF Live
    <3> QED BY <3>1, <3>2 DEF IInv, NoDanglingSet
  <2> QED BY <2>1, <2>2
<1>11. \A u \in Tasks \ {t} : pc'[u] \in {"unborn", "gone"} <=> pc[u] \in {"unborn", "gone"}
  BY <1>1, <1>2 DEF Actors
<1>12. CountIsLive' /\ NoDanglingSet'
  BY <1>1, <1>2, <1>9, <1>10, <1>11, CountAdd DEF Construct
<1> QED BY <1>8, <1>12

LEMMA DropKeeps ==
  ASSUME IInv, NEW a \in Actors, DropRejected(a)
  PROVE  Hand' /\ CountIsLive' /\ NoDanglingSet'
<1> DEFINE t == kid[a]
           p == [pc EXCEPT ![a] = "run"]
<1>1. /\ t \in Tasks /\ pc[a] = "reject" /\ pc[t] = "made"
      /\ UNCHANGED <<join_set, pending_tasks>>
      /\ kid' = [kid EXCEPT ![a] = NoTask]
      /\ Destroy(t, p)
  BY DEF DropRejected, IInv, Typed, Held, Hand, poolVars
<1>2. /\ p \in [Actors -> PcStates]
      /\ \A c \in Actors : p[c] = pc[c] \/ (p[c] = "run" /\ pc[c] = "reject")
      /\ p[a] = "run"
  BY <1>1, StateNames DEF IInv, Typed, TypeOK
<1>3. /\ CountIsLive' /\ NoDanglingSet'
      /\ \A c \in Actors \ {t} : \/ pc'[c] = pc[c]
                                \/ (pc'[c] = "run" /\ pc[c] = "reject")
                                \/ /\ pc[c] \in {"wait", "dtorwait"}
                                   /\ pc'[c] \in {"check", "dtor"}
      /\ pc'[t] = "gone"
  BY <1>1, <1>2, DestroyKeeps
<1>4. pc'[a] = "run"
  <2>1. Woken([p EXCEPT ![t] = "gone"], pc')
    BY <1>1, <1>2, DestroyEffect DEF IInv, Typed
  <2>2. t # a
    BY <1>1
  <2> QED BY <1>2, <2>1, <2>2 DEF Woken
<1>5. \A b \in Actors : pc'[b] \in {"spawn", "reject"} =>
        /\ b # a /\ pc[b] \in {"spawn", "reject"} /\ kid'[b] = kid[b]
        /\ kid[b] \in Actors /\ kid[b] # t /\ pc[kid[b]] = "made"
  BY <1>1, <1>3, <1>4 DEF IInv, Typed, TypeOK, Held, Hand, Actors
<1>6. \A b \in Actors : pc'[b] \in {"spawn", "reject"} => pc'[kid'[b]] = "made"
  BY <1>3, <1>5
<1>7. \A b, c \in Actors :
        (/\ pc'[b] \in {"spawn", "reject"} /\ pc'[c] \in {"spawn", "reject"}
         /\ kid'[b] = kid'[c]) => b = c
  BY <1>5, <1>1 DEF IInv, Hand
<1>8. \A i \in 1..Len(pending_tasks) : pc'[pending_tasks[i]] = "queued"
  <2> SUFFICES ASSUME NEW i \in 1..Len(pending_tasks) PROVE pc'[pending_tasks[i]] = "queued"
    OBVIOUS
  <2>1. pending_tasks[i] \in Actors /\ pc[pending_tasks[i]] = "queued"
    BY DEF IInv, Hand, Typed, TypeOK, Actors
  <2> QED BY <1>1, <1>3, <2>1
<1>9. Hand'
  BY <1>1, <1>6, <1>7, <1>8 DEF IInv, Hand
<1> QED BY <1>3, <1>9

LEMMA ReleaseKeeps ==
  ASSUME IInv, NEW w \in Workers, Release(w)
  PROVE  Hand' /\ CountIsLive' /\ NoDanglingSet'
<1> DEFINE t == job[w]
<1>1. /\ t \in Tasks /\ pc[t] = "end" /\ Destroy(t, pc)
      /\ UNCHANGED <<kid, join_set, pending_tasks>>
  BY DEF Release, Executed, IInv, Typed, Held, taskVars
<1>2. pc \in [Actors -> PcStates]
  BY DEF IInv, Typed, TypeOK
<1>3. /\ CountIsLive' /\ NoDanglingSet'
      /\ \A c \in Actors \ {t} : \/ pc'[c] = pc[c]
                                \/ (pc'[c] = "run" /\ pc[c] = "reject")
                                \/ /\ pc[c] \in {"wait", "dtorwait"}
                                   /\ pc'[c] \in {"check", "dtor"}
      /\ pc'[t] = "gone"
  BY <1>1, <1>2, DestroyKeeps
<1>4. /\ \A a \in Actors : pc'[a] \in {"spawn", "reject"} => pc[a] \in {"spawn", "reject"}
      /\ \A u \in Tasks : pc[u] \in {"made", "queued"} => pc'[u] = pc[u]
  BY <1>1, <1>3 DEF Actors
<1> QED BY <1>1, <1>3, <1>4, HandFrame DEF IInv

(* An owner or a task that is not held by anybody else takes a step.       *)
LEMMA LoneStepKeeps ==
  ASSUME IInv, NEW a \in Actors, NEW x \in PcStates,
         pc' = [pc EXCEPT ![a] = x],
         UNCHANGED <<kid, join_set, task_count, pending_tasks>>,
         pc[a] \notin {"unborn", "made", "queued", "gone"},
         x \in {"spawn", "reject"} => pc[a] \in {"spawn", "reject"},
         x \notin {"unborn", "made", "queued"},
         x = "gone" => a \in Clients,
         x \in BodyStates \/ a \notin JoinSets \/ Live(a) = {}
  PROVE  Hand' /\ CountIsLive' /\ NoDanglingSet'
<1>1. \A c \in Actors : pc'[c] = IF c = a THEN x ELSE pc[c]
  BY DEF IInv, Typed, TypeOK
<1>2. Hand'
  BY <1>1, HandFrame DEF IInv, Actors
<1>3. \A u \in Tasks : pc'[u] \in {"unborn", "gone"} <=> pc[u] \in {"unborn", "gone"}
  BY <1>1, ActorAssumption DEF Actors
<1>4. \A s \in JoinSets : Alive(s) /\ Live(s) # {} => Alive(s)'
  BY <1>1, ActorAssumption DEF Alive, JoinSets, Actors
<1>5. CountIsLive' /\ NoDanglingSet'
  BY <1>3, <1>4, CountFrame DEF IInv
<1> QED BY <1>2, <1>5

LEMMA JoinsKeeps ==
  ASSUME IInv, NEW s \in JoinSets, Joins(s)
  PROVE  Hand' /\ CountIsLive' /\ NoDanglingSet'
<1>1. UNCHANGED <<kid, join_set, task_count, pending_tasks>>
  BY DEF Joins, Wait, WaitReturns, WaitThrows, WaitBlocks, DestroySet,
         DestroyBlocks, taskVars, setVars, poolVars
<1>2. s \in Actors
  BY ActorAssumption DEF JoinSets, Actors
<1>3. CASE DestroySet(s)
  <2>1. Live(s) = {}
    <3>1. Cardinality(Live(s)) = 0
      BY <1>3 DEF DestroySet, Emptied, IInv, CountIsLive
    <3> QED BY <3>1, LiveFinite, FS_EmptySet
  <2>2. /\ pc' = [pc EXCEPT ![s] = Ended(s)] /\ pc[s] = "dtor"
        /\ Ended(s) \in {"end", "gone"} /\ (Ended(s) = "gone" => s \in Clients)
    BY <1>3 DEF DestroySet, Ended
  <2> QED BY <1>1, <1>2, <2>1, <2>2, LoneStepKeeps, StateNames
<1>4. CASE ~DestroySet(s)
  <2>1. PICK x \in {"run", "check", "wait", "dtorwait"} :
          pc' = [pc EXCEPT ![s] = x] /\ pc[s] \in {"run", "check", "dtor"}
    BY <1>4 DEF Joins, Wait, WaitReturns, WaitThrows, WaitBlocks, DestroyBlocks
  <2>2. x \in BodyStates /\ x \in PcStates
    BY DEF BodyStates, PcStates
  <2> QED BY <1>1, <1>2, <2>1, <2>2, LoneStepKeeps
<1> QED BY <1>3, <1>4

LEMMA StepInv == IInv /\ [Next]_vars => IInv'
<1> SUFFICES ASSUME IInv, [Next]_vars PROVE Hand' /\ CountIsLive' /\ NoDanglingSet'
  BY StepTyped DEF IInv
<1>1. ASSUME NEW a \in Actors, Spawns(a)
      PROVE  Hand' /\ CountIsLive' /\ NoDanglingSet'
  <2>1. CASE Push(a)
    BY <2>1, PushKeeps
  <2>2. CASE Reject(a)
    BY <2>2, LoneStepKeeps, StateNames
    DEF Reject, taskVars, setVars, poolVars, BodyStates
  <2> QED
    BY <1>1, <2>1, <2>2, ConstructKeeps, DropKeeps
    DEF Spawns, EnqueueAndStart, Enqueue, EnqueueFails
<1>2. ASSUME NEW a \in Actors, Leave(a)
      PROVE  Hand' /\ CountIsLive' /\ NoDanglingSet'
  <2>1. CASE a \in JoinSets
    BY <1>2, <2>1, LoneStepKeeps, StateNames DEF Leave, setVars, poolVars, BodyStates
  <2>2. CASE a \notin JoinSets
    BY <1>2, <2>2, LoneStepKeeps, StateNames DEF Leave, setVars, poolVars
  <2> QED BY <2>1, <2>2
<1>3. ASSUME NEW w \in Workers, Runs(w)
      PROVE  Hand' /\ CountIsLive' /\ NoDanglingSet'
  <2>1. CASE TakeNext(w) \/ WakeUp(w)
    BY <2>1, ProceedKeeps DEF TakeNext, WakeUp, taskVars, setVars
  <2>2. CASE FallAsleep(w) \/ SleepAgain(w)
    BY <2>2, QuietStep DEF FallAsleep, SleepAgain, taskVars, setVars, Woken
  <2>3. CASE RecordError(w)
    <3>1. pc' = pc \/ pc' = NotifyAll(pc, join_set[job[w]])
      BY <2>3 DEF RecordError
    <3>2. Woken(pc, pc) /\ Woken(pc, NotifyAll(pc, join_set[job[w]]))
      BY NotifyWakes DEF IInv, Typed, TypeOK, Woken
    <3> QED BY <2>3, <3>1, <3>2, QuietStep DEF RecordError, poolVars
  <2> QED BY <1>3, <2>1, <2>2, <2>3, ReleaseKeeps DEF Runs
<1>4. CASE Stop \/ Join \/ UNCHANGED vars
  BY <1>4, QuietStep DEF Stop, Join, vars, taskVars, setVars, Woken
<1>5. CASE SpuriousWakeUp
  <2>1. UNCHANGED <<kid, join_set, task_count, pending_tasks>>
    BY <1>5 DEF SpuriousWakeUp, taskVars, setVars
  <2>2. pc' = pc \/ \E s \in JoinSets : pc' = NotifyAll(pc, s)
    BY <1>5 DEF SpuriousWakeUp
  <2>3. Woken(pc, pc')
    BY <2>2, NotifyWakes DEF IInv, Typed, TypeOK, Woken
  <2> QED BY <2>1, <2>3, QuietStep
<1> QED
  BY <1>1, <1>2, <1>3, <1>4, <1>5, JoinsKeeps DEF Next, Over

(* The invariant, and with it: every join set counts exactly its tasks     *)
(* that are not destroyed, and no task of a set is left when the set goes  *)
(* away, however tasks spawn tasks into it while its owner is in Wait or   *)
(* in ~JoinSet.                                                            *)
THEOREM PoolInvariant == Spec => []IInv
BY InitInv, StepInv, PTL DEF Spec

(* task_count_ is the number of tasks of the set that exist.               *)
THEOREM CountsAreExact == Spec => []CountIsLive
BY PoolInvariant, PTL DEF IInv

(* A task of a set, queued, running or in the hands of its spawner, never  *)
(* outlives the JoinSet object it points to.                               *)
THEOREM TasksNeverDangle == Spec => []NoDanglingSet
BY PoolInvariant, PTL DEF IInv

(* From the moment stop_ is set, the vector of threads that ~ThreadPool    *)
(* walks without the lock does not change.                                 *)
THEOREM ThreadsFrozen == Spec => ThreadsFrozenByStop
<1>1. TypeOK /\ [Next]_vars => [stop => threads' = threads]_vars
  <2> SUFFICES ASSUME TypeOK, Next, stop PROVE threads' = threads
    BY DEF vars, stop, threads
  <2>1. ASSUME UNCHANGED wpc PROVE threads' = threads
    BY <2>1 DEF threads
  <2>2. ASSUME NEW w \in Workers, NEW x \in WorkerStates \ {"none"},
               wpc[w] # "none", wpc' = [wpc EXCEPT ![w] = x]
        PROVE  threads' = threads
    BY <2>2 DEF threads, TypeOK
  <2>3. ASSUME NEW a \in Actors, Spawns(a) PROVE UNCHANGED wpc
    BY <2>3 DEF Spawns, Construct, EnqueueAndStart, Enqueue, EnqueueFails, Push,
                Accepts, Reject, DropRejected, poolVars
  <2>4. ASSUME NEW a \in Actors, Leave(a) PROVE UNCHANGED wpc
    BY <2>4 DEF Leave, poolVars
  <2>5. ASSUME NEW s \in JoinSets, Joins(s) PROVE UNCHANGED wpc
    BY <2>5 DEF Joins, Wait, WaitReturns, WaitThrows, WaitBlocks, DestroySet,
                DestroyBlocks, poolVars
  <2>6. ASSUME NEW w \in Workers, Runs(w)
        PROVE  \/ UNCHANGED wpc
               \/ wpc[w] # "none" /\ \E x \in WorkerStates \ {"none"} :
                                        wpc' = [wpc EXCEPT ![w] = x]
    <3>1. CASE RecordError(w)
      BY <3>1 DEF RecordError, poolVars
    <3>2. CASE Release(w)
      BY <3>2 DEF Release, Executed, WorkerStates
    <3>3. CASE TakeNext(w) \/ WakeUp(w)
      BY <3>3 DEF TakeNext, WakeUp, Proceed, WorkerStates
    <3>4. CASE FallAsleep(w) \/ SleepAgain(w)
      BY <3>4 DEF FallAsleep, SleepAgain, WorkerStates
    <3> QED BY <2>6, <3>1, <3>2, <3>3, <3>4 DEF Runs
  <2>7. CASE Stop
    BY <2>7 DEF Stop, NotifiedAll, threads, TypeOK
  <2>8. ASSUME SpuriousWakeUp
        PROVE  \/ UNCHANGED wpc
               \/ \E w \in Workers : wpc[w] # "none" /\ wpc' = [wpc EXCEPT ![w] = "woken"]
    BY <2>8 DEF SpuriousWakeUp
  <2>9. CASE Join \/ Over
    BY <2>1, <2>9 DEF Join, Over, vars
  <2> QED
    BY <2>1, <2>2, <2>3, <2>4, <2>5, <2>6, <2>7, <2>8, <2>9 DEF Next, WorkerStates
<1> QED BY <1>1, PoolTypeOK, PTL DEF Spec, ThreadsFrozenByStop

-----------------------------------------------------------------------------
(* The pool implements ForkJoin.  What the abstraction needs besides IInv: *)
(* a task has thrown only when its body is over, and a task that was not   *)
(* made has no set.                                                        *)
BodyOver == {"dtor", "dtorwait", "end"}
Raised ==
  /\ \A t \in thrown : pc[t] \in BodyOver
  /\ \A t \in Tasks : pc[t] = "unborn" => join_set[t] = NoSet

OwnerIs(state) ==
  IF state \in {"check", "wait"} THEN "waiting"
  ELSE IF state \in BodyStates THEN "open" ELSE "absent"

owners == [s \in JoinSets |-> OwnerState(s)]
lives == [s \in JoinSets |-> Live(s)]
throwns == [s \in JoinSets |-> Live(s) \cap thrown]
spawneds == {t \in Tasks : join_set[t] # NoSet}

Hidden(state) == state \in {"unborn", "gone"}
SameTask(t) ==
  /\ join_set'[t] = join_set[t] /\ (t \in thrown' <=> t \in thrown)
  /\ Hidden(pc'[t]) <=> Hidden(pc[t])
SameOwner(s) == OwnerIs(pc'[s]) = OwnerIs(pc[s])

LEMMA OwnerOf ==
  ASSUME NEW s
  PROVE  OwnerState(s) = OwnerIs(pc[s]) /\ OwnerState(s)' = OwnerIs(pc'[s])
  BY DEF OwnerState, OwnerIs, Alive, BodyStates

LEMMA LiveOf ==
  ASSUME NEW s, NEW t \in Tasks
  PROVE  /\ t \in Live(s) <=> join_set[t] = s /\ ~Hidden(pc[t])
         /\ t \in Live(s)' <=> join_set'[t] = s /\ ~Hidden(pc'[t])
  BY DEF Live, Hidden

LEMMA LiveAreTasks == ASSUME NEW s PROVE Live(s) \subseteq Tasks /\ Live(s)' \subseteq Tasks
  BY DEF Live

(* A step that one task takes, or none.                                    *)
LEMMA OthersStay ==
  ASSUME NEW T, \A t \in Tasks \ T : SameTask(t), NEW s \in JoinSets
  PROVE  /\ Live(s)' \ T = Live(s) \ T
         /\ (Live(s)' \cap thrown') \ T = (Live(s) \cap thrown) \ T
<1>1. \A t \in Tasks \ T : /\ t \in Live(s)' <=> t \in Live(s)
                           /\ t \in thrown' <=> t \in thrown
  BY LiveOf DEF SameTask
<1> QED BY <1>1, LiveAreTasks

LEMMA Unseen ==
  ASSUME \A t \in Tasks : SameTask(t) \/ (join_set[t] = NoSet /\ join_set'[t] = NoSet)
  PROVE  UNCHANGED <<lives, throwns, spawneds>>
<1> DEFINE T == {t \in Tasks : join_set[t] = NoSet /\ join_set'[t] = NoSet}
<1>1. NoSet \notin JoinSets BY ActorAssumption DEF JoinSets, Actors
<1>2. ASSUME NEW s \in JoinSets
      PROVE  Live(s)' = Live(s) /\ Live(s)' \cap thrown' = Live(s) \cap thrown
  <2>1. Live(s) \cap T = {} /\ Live(s)' \cap T = {} BY <1>1, LiveOf
  <2>2. /\ Live(s)' \ T = Live(s) \ T
        /\ (Live(s)' \cap thrown') \ T = (Live(s) \cap thrown) \ T
    <3>1. \A t \in Tasks \ T : SameTask(t) OBVIOUS
    <3> HIDE DEF T
    <3> QED BY <3>1, OthersStay
  <2> QED BY <2>1, <2>2
<1>3. spawneds' = spawneds BY DEF SameTask, spawneds
<1> QED BY <1>2, <1>3 DEF lives, throwns

LEMMA Stutters ==
  ASSUME \A t \in Tasks : SameTask(t) \/ (join_set[t] = NoSet /\ join_set'[t] = NoSet),
         \A s \in JoinSets : SameOwner(s), UNCHANGED exception
  PROVE  UNCHANGED Abstract!vars
<1>1. UNCHANGED <<lives, throwns, spawneds>> BY Unseen
<1>2. owners' = owners BY OwnerOf DEF owners, SameOwner
<1> QED BY <1>1, <1>2 DEF Abstract!vars, lives, throwns, spawneds, owners

(* The step of one owner.                                                  *)
LEMMA OwnerSteps ==
  ASSUME NEW s \in JoinSets,
         \A t \in Tasks : SameTask(t) \/ (join_set[t] = NoSet /\ join_set'[t] = NoSet),
         \A r \in JoinSets \ {s} : SameOwner(r)
  PROVE  /\ UNCHANGED <<lives, throwns, spawneds>>
         /\ owners[s] = OwnerIs(pc[s])
         /\ owners' = [owners EXCEPT ![s] = OwnerIs(pc'[s])]
         /\ lives[s] = Live(s)
<1>1. UNCHANGED <<lives, throwns, spawneds>> BY Unseen
<1>2. \A r \in JoinSets : OwnerState(r)' = IF r = s THEN OwnerIs(pc'[s]) ELSE OwnerState(r)
  BY OwnerOf DEF SameOwner
<1> QED BY <1>1, <1>2, OwnerOf DEF owners, lives

(* The step of one task of a set.                                          *)
LEMMA TaskSteps ==
  ASSUME Typed, NEW t \in Tasks, NEW s \in JoinSets, join_set'[t] = s,
         join_set[t] \in {s, NoSet},
         \A u \in Tasks \ {t} : SameTask(u), \A r \in JoinSets : SameOwner(r)
  PROVE  /\ owners' = owners
         /\ spawneds' = spawneds \cup {t} /\ (t \in spawneds <=> join_set[t] = s)
         /\ lives[s] = Live(s) /\ throwns[s] = Live(s) \cap thrown
         /\ lives' = [lives EXCEPT ![s] = IF Hidden(pc'[t]) THEN @ \ {t} ELSE @ \cup {t}]
         /\ throwns' = [throwns EXCEPT ![s] = IF Hidden(pc'[t]) \/ t \notin thrown'
                                              THEN @ \ {t} ELSE @ \cup {t}]
<1>1. NoSet \notin JoinSets BY ActorAssumption DEF JoinSets, Actors
<1>2. owners' = owners BY OwnerOf DEF owners, SameOwner
<1>3. spawneds' = spawneds \cup {t} /\ (t \in spawneds <=> join_set[t] = s)
  BY <1>1 DEF SameTask, spawneds
<1>4. ASSUME NEW r \in JoinSets
      PROVE  /\ Live(r)' \ {t} = Live(r) \ {t}
             /\ (Live(r)' \cap thrown') \ {t} = (Live(r) \cap thrown) \ {t}
  BY OthersStay
<1>5. ASSUME NEW r \in JoinSets, r # s PROVE t \notin Live(r) /\ t \notin Live(r)'
  BY <1>1, <1>5, LiveOf
<1>6. t \in Live(s)' <=> ~Hidden(pc'[t]) BY LiveOf
<1>7. ASSUME NEW r \in JoinSets
      PROVE  /\ Live(r)' = IF r # s THEN Live(r)
                           ELSE IF Hidden(pc'[t]) THEN Live(s) \ {t} ELSE Live(s) \cup {t}
             /\ Live(r)' \cap thrown'
                  = IF r # s THEN Live(r) \cap thrown
                    ELSE IF Hidden(pc'[t]) \/ t \notin thrown'
                    THEN (Live(s) \cap thrown) \ {t} ELSE (Live(s) \cap thrown) \cup {t}
  <2>1. CASE r # s BY <1>4, <1>5, <2>1
  <2>2. CASE r = s BY <1>4, <1>6, <2>2
  <2> QED BY <2>1, <2>2
<1> QED BY <1>2, <1>3, <1>7 DEF lives, throwns

(* A change of where an actor is that says nothing to the abstraction.     *)
Quiet(x, y) ==
  /\ OwnerIs(y) = OwnerIs(x) /\ (Hidden(y) <=> Hidden(x))
  /\ x \in BodyOver => y \in BodyOver
  /\ y = "unborn" => x = "unborn"

LEMMA QuietMoves ==
  ASSUME NEW x, NEW y,
         \/ y = x
         \/ <<x, y>> \in {<<"run", "spawn">>, <<"spawn", "run">>, <<"spawn", "reject">>,
                          <<"reject", "run">>, <<"check", "wait">>, <<"wait", "check">>,
                          <<"dtor", "dtorwait">>, <<"dtorwait", "dtor">>,
                          <<"made", "queued">>}
  PROVE  Quiet(x, y)
  BY DEF Quiet, OwnerIs, Hidden, BodyOver, BodyStates

LEMMA NotifyQuiet ==
  ASSUME NEW p \in [Actors -> PcStates], NEW s, NEW a \in Actors
  PROVE  \/ NotifyAll(p, s)[a] = p[a]
         \/ <<p[a], NotifyAll(p, s)[a]>> \in {<<"wait", "check">>, <<"dtorwait", "dtor">>}
<1>1. CASE p[a] = "wait" BY <1>1 DEF NotifyAll, Awake
<1>2. CASE p[a] = "dtorwait" BY <1>2 DEF NotifyAll, Awake
<1>3. CASE p[a] \notin {"wait", "dtorwait"} BY <1>3 DEF NotifyAll, Awake
<1> QED BY <1>1, <1>2, <1>3

LEMMA QuietActors ==
  ASSUME \A a \in Actors : Quiet(pc[a], pc'[a]), UNCHANGED join_set
  PROVE  /\ \A s \in JoinSets : SameOwner(s)
         /\ \A t \in Tasks : (t \in thrown' <=> t \in thrown) => SameTask(t)
  BY ActorAssumption DEF Quiet, SameOwner, SameTask, Actors, JoinSets

(* Nothing of what the owners see happens.                                 *)
LEMMA UnseenStep ==
  ASSUME Typed, Raised, \A a \in Actors : Quiet(pc[a], pc'[a]),
         UNCHANGED <<join_set, thrown, exception>>
  PROVE  Raised' /\ UNCHANGED Abstract!vars
<1>1. UNCHANGED Abstract!vars BY QuietActors, Stutters
<1>2. Raised' BY DEF Raised, Quiet, Typed, TypeOK, Actors
<1> QED BY <1>1, <1>2

(* A step of the pool is a step of ForkJoin, or one it does not see.       *)
Simulated == Raised' /\ [Abstract!Next]_(Abstract!vars)

LEMMA ConstructSimulates ==
  ASSUME Typed, Raised, NEW a \in Actors, NEW t \in Tasks, NEW s \in JoinSets \cup {NoSet},
         Construct(a, t, s)
  PROVE  Simulated
<1>1. /\ a \in Actors /\ t \in Actors /\ a # t /\ pc[a] = "run" /\ pc[t] = "unborn"
      /\ join_set[t] = NoSet /\ t \notin thrown
      /\ UNCHANGED <<thrown, exception>>
  BY DEF Construct, Raised, BodyOver, Actors
<1>2. \A c \in Actors : pc'[c] = IF c = t THEN "made"
                                 ELSE IF c = a THEN "spawn" ELSE pc[c]
  BY <1>1, TwoSteps, StateNames DEF Construct, Typed, TypeOK
<1>3. \A u \in Tasks : join_set'[u] = IF u = t THEN s ELSE join_set[u]
  BY DEF Construct, Typed, TypeOK
<1>4. \A c \in Actors \ {t} : Quiet(pc[c], pc'[c])
  BY <1>1, <1>2, QuietMoves
<1>5. \A u \in Tasks \ {t} : SameTask(u)
  BY <1>1, <1>3, <1>4 DEF SameTask, Quiet, Actors
<1>6. \A r \in JoinSets : SameOwner(r)
  <2>1. OwnerIs("unborn") = OwnerIs("made") BY DEF OwnerIs, BodyStates
  <2> QED BY <1>1, <1>2, <1>4, <2>1, ActorAssumption DEF SameOwner, Quiet, Actors, JoinSets
<1>7. Raised'
  BY <1>1, <1>2, <1>3, <1>4 DEF Raised, Quiet, Typed, TypeOK, Actors
<1>8. CASE s = NoSet
  <2>1. UNCHANGED Abstract!vars BY <1>1, <1>3, <1>5, <1>6, <1>8, Stutters
  <2> QED BY <1>7, <2>1 DEF Simulated
<1>9. CASE s \in JoinSets
  <2>1. ~Hidden(pc'[t]) BY <1>1, <1>2 DEF Hidden
  <2>2. /\ owners' = owners /\ spawneds' = spawneds \cup {t} /\ t \notin spawneds
        /\ lives' = [lives EXCEPT ![s] = @ \cup {t}]
        /\ throwns' = [throwns EXCEPT ![s] = @ \ {t}]
        /\ throwns[s] = Live(s) \cap thrown /\ lives[s] = Live(s)
    <3>1. join_set'[t] = s /\ s # NoSet BY <1>3, <1>9, ActorAssumption DEF JoinSets, Actors
    <3> HIDE DEF Simulated
    <3> QED BY <1>1, <1>5, <1>6, <1>9, <2>1, <3>1, TaskSteps
  <2>3. throwns' = throwns
    <3>1. throwns[s] \ {t} = throwns[s] BY <1>1, <2>2
    <3> QED BY <2>2, <3>1 DEF throwns
  <2>4. owners[s] = "open" \/ lives[s] # {}
    <3>1. CASE s = a
      BY <1>1, <1>9, <3>1, OwnerOf DEF owners, OwnerIs, BodyStates
    <3>2. CASE a \in Tasks /\ s = join_set[a]
      BY <1>1, <2>2, <3>2 DEF Live
    <3> QED BY <1>9, <3>1, <3>2, ActorAssumption DEF Construct, Targets, JoinSets, Actors
  <2>5. Abstract!Add(s, t)
    BY <1>1, <2>2, <2>3, <2>4 DEF Abstract!Add, owners, lives, throwns, spawneds
  <2>6. Abstract!Next BY <1>9, <2>5 DEF Abstract!Next
  <2> QED BY <1>7, <2>6 DEF Simulated
<1> QED BY <1>8, <1>9

LEMMA OwnerMoves ==
  ASSUME Typed, Raised, NEW s \in JoinSets, NEW x \in PcStates,
         pc' = [pc EXCEPT ![s] = x], UNCHANGED <<join_set, thrown>>,
         s \in Tasks => /\ ~Hidden(x) /\ ~Hidden(pc[s])
                        /\ pc[s] \in BodyOver => x \in BodyOver
  PROVE  /\ Raised' /\ UNCHANGED <<lives, throwns, spawneds>>
         /\ owners[s] = OwnerIs(pc[s])
         /\ owners' = [owners EXCEPT ![s] = OwnerIs(x)]
         /\ lives[s] = Live(s)
<1>1. s \in Actors BY ActorAssumption DEF JoinSets, Actors
<1>2. \A c \in Actors : pc'[c] = IF c = s THEN x ELSE pc[c]
  BY <1>1 DEF Typed, TypeOK
<1>3. \A t \in Tasks : SameTask(t)
  BY <1>2 DEF SameTask, Actors
<1>4. \A r \in JoinSets \ {s} : SameOwner(r)
  BY <1>2, ActorAssumption DEF SameOwner, JoinSets, Actors
<1>5. Raised'
  BY <1>2 DEF Raised, Hidden, Typed, TypeOK, Actors
<1>6. pc'[s] = x BY <1>1, <1>2
<1> QED BY <1>3, <1>4, <1>5, <1>6, OwnerSteps

LEMMA JoinsSimulates ==
  ASSUME IInv, Raised, NEW s \in JoinSets, Joins(s)
  PROVE  Simulated
<1> USE DEF setVars, taskVars
<1>1. s \in Actors /\ Typed BY ActorAssumption DEF IInv, JoinSets, Actors
<1>2. /\ OwnerIs("run") = "open" /\ OwnerIs("dtor") = "open" /\ OwnerIs("check") = "waiting"
      /\ OwnerIs("end") = "absent" /\ OwnerIs("gone") = "absent"
  BY DEF OwnerIs, BodyStates
<1>3. task_count[s] = 0 => Live(s) = {}
  BY LiveFinite, FS_EmptySet DEF IInv, CountIsLive
<1>4. CASE Wait(s)
  <2>1. /\ Raised' /\ UNCHANGED <<lives, throwns, spawneds>>
        /\ owners[s] = "open" /\ owners' = [owners EXCEPT ![s] = "waiting"]
    BY <1>1, <1>2, <1>4, OwnerMoves, StateNames DEF Wait, Hidden, BodyOver
  <2>2. Abstract!BeginWait(s)
    BY <1>4, <2>1 DEF Wait, Abstract!BeginWait, owners, lives, throwns, spawneds
  <2> QED BY <2>1, <2>2 DEF Simulated, Abstract!Next
<1>5. CASE WaitReturns(s)
  <2>1. /\ Raised' /\ UNCHANGED <<lives, throwns, spawneds>> /\ lives[s] = {}
        /\ owners[s] = "waiting" /\ owners' = [owners EXCEPT ![s] = "open"]
    BY <1>1, <1>2, <1>3, <1>5, OwnerMoves, StateNames DEF WaitReturns, Hidden, BodyOver
  <2>2. Abstract!WaitReturns(s)
    BY <1>5, <2>1 DEF WaitReturns, Abstract!WaitReturns, owners, lives, throwns, spawneds
  <2> QED BY <2>1, <2>2 DEF Simulated, Abstract!Next
<1>6. CASE WaitThrows(s)
  <2>1. /\ Raised' /\ UNCHANGED <<lives, throwns, spawneds>>
        /\ owners[s] = "waiting" /\ owners' = [owners EXCEPT ![s] = "open"]
    BY <1>1, <1>2, <1>6, OwnerMoves, StateNames DEF WaitThrows, Hidden, BodyOver
  <2>2. Abstract!WaitThrows(s)
    BY <1>6, <2>1 DEF WaitThrows, Abstract!WaitThrows, owners, lives, throwns, spawneds
  <2> QED BY <2>1, <2>2 DEF Simulated, Abstract!Next
<1>7. CASE DestroySet(s)
  <2>1. Ended(s) = IF s \in Tasks THEN "end" ELSE "gone"
    BY ActorAssumption DEF Ended, JoinSets
  <2>2. /\ Raised' /\ UNCHANGED <<lives, throwns, spawneds>> /\ lives[s] = {}
        /\ owners[s] = "open" /\ owners' = [owners EXCEPT ![s] = "absent"]
    BY <1>1, <1>2, <1>3, <1>7, <2>1, OwnerMoves, StateNames
       DEF DestroySet, Emptied, Hidden, BodyOver
  <2>3. Abstract!Close(s)
    BY <1>7, <2>2 DEF DestroySet, Abstract!Close, owners, lives, throwns, spawneds
  <2> QED BY <2>2, <2>3 DEF Simulated, Abstract!Next
<1>8. CASE WaitBlocks(s) \/ DestroyBlocks(s)
  <2>1. \A a \in Actors : Quiet(pc[a], pc'[a])
    BY <1>1, <1>8, QuietMoves DEF WaitBlocks, DestroyBlocks, Typed, TypeOK
  <2> QED BY <1>1, <1>8, <2>1, UnseenStep DEF WaitBlocks, DestroyBlocks, Simulated
<1> QED BY <1>4, <1>5, <1>6, <1>7, <1>8 DEF Joins

LEMMA DestroySimulates ==
  ASSUME Typed, Raised, NEW t \in Tasks, NEW p \in [Actors -> PcStates], Destroy(t, p),
         UNCHANGED <<join_set, thrown, exception>>,
         pc[t] \in {"made", "end"}, t \notin thrown,
         \A c \in Actors : p[c] = pc[c] \/ (p[c] = "run" /\ pc[c] = "reject")
  PROVE  Simulated
<1> DEFINE q == [p EXCEPT ![t] = "gone"]
<1>1. t \in Actors BY DEF Actors
<1>2. q \in [Actors -> PcStates] BY StateNames
<1>3. \A c \in Actors : q[c] = IF c = t THEN "gone" ELSE p[c] BY <1>1
<1>4. pc' = q \/ pc' = NotifyAll(q, join_set[t]) BY DEF Destroy
<1> HIDE DEF q
<1>5. \A c \in Actors : \/ pc'[c] = q[c]
                        \/ <<q[c], pc'[c]>> \in {<<"wait", "check">>, <<"dtorwait", "dtor">>}
  BY <1>2, <1>4, NotifyQuiet
<1>6. pc'[t] = "gone" BY <1>1, <1>3, <1>5
<1>7. \A c \in Actors \ {t} : Quiet(pc[c], pc'[c])
  <2> TAKE c \in Actors \ {t}
  <2>1. pc'[c] = pc[c] \/ <<pc[c], pc'[c]>> \in {<<"reject", "run">>, <<"wait", "check">>,
                                                <<"dtorwait", "dtor">>}
    BY <1>3, <1>5
  <2> QED BY <2>1, QuietMoves
<1>8. \A u \in Tasks \ {t} : SameTask(u)
  BY <1>7 DEF SameTask, Quiet, Actors
<1>9. \A r \in JoinSets : SameOwner(r)
  <2>1. OwnerIs(pc[t]) = OwnerIs("gone") BY DEF OwnerIs, BodyStates
  <2> QED BY <1>6, <1>7, <2>1, ActorAssumption DEF SameOwner, Quiet, Actors, JoinSets
<1>10. Raised'
  BY <1>6, <1>7 DEF Raised, Quiet, Typed, TypeOK, Actors
<1>11. CASE join_set[t] = NoSet
  <2>1. UNCHANGED Abstract!vars BY <1>8, <1>9, <1>11, Stutters
  <2> QED BY <1>10, <2>1 DEF Simulated
<1>12. CASE join_set[t] # NoSet
  <2> DEFINE s == join_set[t]
  <2>1. s \in JoinSets BY <1>12 DEF Typed, TypeOK
  <2>2. Hidden(pc'[t]) BY <1>6 DEF Hidden
  <2>3. /\ owners' = owners /\ spawneds' = spawneds \cup {t} /\ t \in spawneds
        /\ lives[s] = Live(s) /\ throwns[s] = Live(s) \cap thrown
        /\ lives' = [lives EXCEPT ![s] = @ \ {t}]
        /\ throwns' = [throwns EXCEPT ![s] = @ \ {t}]
    <3> HIDE DEF Simulated
    <3> QED BY <1>8, <1>9, <2>1, <2>2, TaskSteps
  <2>4. throwns' = throwns /\ spawneds' = spawneds
    <3>1. throwns[s] \ {t} = throwns[s] BY <2>3
    <3>2. throwns' = throwns BY <2>3, <3>1 DEF throwns
    <3>3. spawneds' = spawneds BY <2>3
    <3> QED BY <3>2, <3>3
  <2>5. t \in lives[s] \ throwns[s]
    BY <2>3 DEF Live
  <2>6. Abstract!Finish(s, t)
    BY <2>3, <2>4, <2>5 DEF Abstract!Finish, owners, lives, throwns, spawneds
  <2> QED BY <1>10, <2>1, <2>6 DEF Simulated, Abstract!Next
<1> QED BY <1>11, <1>12

LEMMA SpawnsSimulates ==
  ASSUME IInv, Raised, NEW a \in Actors, Spawns(a)
  PROVE  Simulated
<1> USE DEF setVars, taskVars, poolVars
<1>1. Typed BY DEF IInv
<1>2. ASSUME NEW t \in Tasks, NEW s \in JoinSets \cup {NoSet}, Construct(a, t, s)
      PROVE  Simulated
  BY <1>1, <1>2, ConstructSimulates
<1>3. CASE Push(a)
  <2>1. pc[a] = "spawn" /\ kid[a] \in Tasks /\ pc[kid[a]] = "made"
    BY <1>1, <1>3, PushTyped DEF Push, Accepts, IInv, Hand
  <2>2. \A c \in Actors : pc'[c] = IF c = kid[a] THEN "queued"
                                   ELSE IF c = a THEN "run" ELSE pc[c]
    BY <1>1, <1>3, <2>1, PushTyped, TwoSteps, StateNames DEF Typed, TypeOK, Actors
  <2>3. \A c \in Actors : Quiet(pc[c], pc'[c])
    BY <2>1, <2>2, QuietMoves
  <2>4. UNCHANGED <<join_set, thrown, exception>> BY <1>3 DEF Push
  <2> QED BY <1>1, <2>3, <2>4, UnseenStep DEF Simulated
<1>4. CASE Reject(a)
  <2>1. \A c \in Actors : Quiet(pc[c], pc'[c])
    BY <1>1, <1>4, QuietMoves DEF Reject, Typed, TypeOK
  <2> QED BY <1>1, <1>4, <2>1, UnseenStep DEF Reject, Simulated
<1>5. CASE DropRejected(a)
  <2> DEFINE p == [pc EXCEPT ![a] = "run"]
  <2>1. kid[a] \in Tasks /\ pc[kid[a]] = "made"
    BY <1>1, <1>5 DEF DropRejected, IInv, Hand, Typed, Held
  <2>2. /\ p \in [Actors -> PcStates]
        /\ \A c \in Actors : p[c] = pc[c] \/ (p[c] = "run" /\ pc[c] = "reject")
    BY <1>1, <1>5, StateNames DEF DropRejected, Typed, TypeOK
  <2>3. kid[a] \notin thrown BY <2>1 DEF Raised, BodyOver
  <2>4. Destroy(kid[a], p) /\ UNCHANGED <<join_set, thrown, exception>>
    BY <1>5 DEF DropRejected
  <2> HIDE DEF p
  <2> QED BY <1>1, <2>1, <2>2, <2>3, <2>4, DestroySimulates
<1> QED BY <1>2, <1>3, <1>4, <1>5 DEF Spawns, EnqueueAndStart, Enqueue, EnqueueFails

LEMMA LeaveSimulates ==
  ASSUME IInv, Raised, NEW a \in Actors, Leave(a)
  PROVE  Simulated
<1> USE DEF setVars
<1> DEFINE x == IF a \in JoinSets THEN "dtor" ELSE "end"
<1>1. /\ Typed /\ pc[a] = "run" /\ a \notin thrown
      /\ UNCHANGED <<join_set, exception>>
      /\ thrown' \in {thrown, thrown \cup ({a} \cap Tasks)}
  BY DEF IInv, Leave, Raised, BodyOver
<1>2. \A c \in Actors : pc'[c] = IF c = a THEN x ELSE pc[c]
  BY <1>1, StateNames DEF Leave, Typed, TypeOK
<1>3. x \in BodyOver /\ ~Hidden(x) /\ ~Hidden(pc[a])
  BY <1>1 DEF BodyOver, Hidden
<1>4. \A r \in JoinSets : SameOwner(r)
  <2>1. OwnerIs("run") = OwnerIs("dtor") BY DEF OwnerIs, BodyStates
  <2> QED BY <1>1, <1>2, <2>1, ActorAssumption DEF SameOwner, JoinSets, Actors
<1>5. \A u \in Tasks \ {a} : SameTask(u)
  BY <1>1, <1>2 DEF SameTask, Actors
<1>6. (thrown' = thrown) => \A u \in Tasks : SameTask(u)
  BY <1>1, <1>2, <1>3 DEF SameTask, Actors
<1>7. Raised'
  BY <1>1, <1>2, <1>3 DEF Raised, Hidden, Typed, TypeOK, Actors
<1> HIDE DEF x
<1>8. CASE thrown' = thrown \/ a \notin Tasks \/ join_set[a] = NoSet
  <2>1. UNCHANGED Abstract!vars BY <1>1, <1>4, <1>5, <1>6, <1>8, Stutters
  <2> QED BY <1>7, <2>1 DEF Simulated
<1>9. CASE a \in Tasks /\ join_set[a] # NoSet /\ thrown' = thrown \cup {a}
  <2> DEFINE s == join_set[a]
  <2>1. s \in JoinSets BY <1>1, <1>9 DEF Typed, TypeOK
  <2>2. ~Hidden(pc'[a]) /\ a \in thrown' BY <1>2, <1>3, <1>9
  <2>3. /\ owners' = owners /\ spawneds' = spawneds \cup {a} /\ a \in spawneds
        /\ lives[s] = Live(s) /\ throwns[s] = Live(s) \cap thrown
        /\ lives' = [lives EXCEPT ![s] = @ \cup {a}]
        /\ throwns' = [throwns EXCEPT ![s] = @ \cup {a}]
    <3> HIDE DEF Simulated
    <3>1. join_set'[a] = s BY <1>1
    <3> QED BY <1>1, <1>4, <1>5, <1>9, <2>1, <2>2, <3>1, TaskSteps
  <2>4. a \in lives[s] \ throwns[s]
    BY <1>1, <1>3, <1>9, <2>3 DEF Live, Hidden
  <2>5. lives' = lives /\ spawneds' = spawneds
    <3>1. lives[s] \cup {a} = lives[s] BY <2>4
    <3>2. lives' = lives BY <2>3, <3>1 DEF lives
    <3>3. spawneds' = spawneds BY <2>3
    <3> QED BY <3>2, <3>3
  <2>6. Abstract!Throw(s, a)
    BY <1>1, <2>3, <2>4, <2>5 DEF Abstract!Throw, owners, lives, throwns, spawneds
  <2> QED BY <1>7, <1>9, <2>1, <2>6 DEF Simulated, Abstract!Next
<1> QED BY <1>1, <1>8, <1>9

LEMMA RecordSimulates ==
  ASSUME Typed, Raised, NEW w \in Workers, RecordError(w)
  PROVE  Simulated
<1> USE DEF setVars, taskVars, poolVars
<1> DEFINE t == job[w]
           s == join_set[t]
<1>1. /\ t \in Tasks /\ t \in Actors /\ pc[t] = "end" /\ t \in thrown
      /\ thrown' = thrown \ {t} /\ UNCHANGED join_set
      /\ pc' = pc \/ pc' = NotifyAll(pc, s)
      /\ s = NoSet => UNCHANGED exception
  BY DEF RecordError, Typed, Held, Actors
<1>2. s \in JoinSets => exception' = [exception EXCEPT ![s] = TRUE]
  <2> SUFFICES ASSUME s \in JoinSets PROVE exception' = [exception EXCEPT ![s] = TRUE]
    OBVIOUS
  <2>1. s # NoSet BY ActorAssumption DEF JoinSets, Actors
  <2>2. CASE exception[s]
    <3>1. exception' = exception BY <2>2 DEF RecordError
    <3>2. exception = [exception EXCEPT ![s] = TRUE] BY <2>2 DEF Typed, TypeOK
    <3> QED BY <3>1, <3>2
  <2>3. CASE ~exception[s] BY <2>1, <2>3 DEF RecordError
  <2> QED BY <2>2, <2>3
<1> HIDE DEF t
<1>3. \A c \in Actors : Quiet(pc[c], pc'[c])
  <2> TAKE c \in Actors
  <2>1. pc \in [Actors -> PcStates] BY DEF Typed, TypeOK
  <2>2. pc'[c] = pc[c] \/ <<pc[c], pc'[c]>> \in {<<"wait", "check">>, <<"dtorwait", "dtor">>}
    BY <1>1, <2>1, NotifyQuiet
  <2> QED BY <2>2, QuietMoves
<1>4. \A r \in JoinSets : SameOwner(r) BY <1>1, <1>3, QuietActors
<1>5. \A u \in Tasks \ {t} : SameTask(u) BY <1>1, <1>3, QuietActors
<1>6. Raised' BY <1>1, <1>3 DEF Raised, Quiet, Typed, TypeOK, Actors
<1>7. CASE s = NoSet
  <2>1. UNCHANGED Abstract!vars BY <1>1, <1>4, <1>5, <1>7, Stutters
  <2> QED BY <1>6, <2>1 DEF Simulated
<1>8. CASE s \in JoinSets
  <2>1. ~Hidden(pc[t]) BY <1>1 DEF Hidden
  <2>2. ~Hidden(pc'[t]) /\ t \notin thrown' BY <1>1, <1>3, <2>1 DEF Quiet
  <2>3. /\ owners' = owners /\ spawneds' = spawneds \cup {t} /\ t \in spawneds
        /\ lives[s] = Live(s) /\ throwns[s] = Live(s) \cap thrown
        /\ lives' = [lives EXCEPT ![s] = @ \cup {t}]
        /\ throwns' = [throwns EXCEPT ![s] = @ \ {t}]
    <3> HIDE DEF Simulated
    <3>1. join_set'[t] = s BY <1>1
    <3> QED BY <1>4, <1>5, <1>1, <1>8, <2>2, <3>1, TaskSteps
  <2>4. t \in lives[s] /\ t \in throwns[s]
    BY <1>1, <2>1, <2>3 DEF Live, Hidden
  <2>5. lives' = lives /\ spawneds' = spawneds
    <3>1. lives[s] \cup {t} = lives[s] BY <2>4
    <3>2. lives' = lives BY <2>3, <3>1 DEF lives
    <3>3. spawneds' = spawneds BY <2>3
    <3> QED BY <3>2, <3>3
  <2>6. Abstract!Record(s, t)
    BY <1>2, <1>8, <2>3, <2>4, <2>5
       DEF Abstract!Record, owners, lives, throwns, spawneds
  <2> QED BY <1>1, <1>6, <1>8, <2>6 DEF Simulated, Abstract!Next
<1> QED BY <1>1, <1>7, <1>8 DEF Typed, TypeOK

(* A worker takes the oldest task: if it owns a join set, the set appears. *)
LEMMA ProceedSimulates ==
  ASSUME IInv, Raised, NEW w \in Workers, HasWork, Proceed(w),
         UNCHANGED <<join_set, thrown, exception>>
  PROVE  Simulated
<1>1. Typed BY DEF IInv
<1>2. CASE Exits
  <2>1. \A c \in Actors : Quiet(pc[c], pc'[c]) BY <1>2, QuietMoves DEF Proceed
  <2> QED BY <1>1, <2>1, UnseenStep DEF Simulated
<1>3. CASE ~Exits
  <2> DEFINE t == Head(pending_tasks)
  <2>1. pending_tasks # <<>> /\ pending_tasks \in Seq(Tasks)
    BY <1>1, <1>3 DEF Exits, HasWork, Typed, TypeOK
  <2>2. t \in Tasks /\ t \in Actors /\ t = pending_tasks[1] /\ 1 \in 1..Len(pending_tasks)
    BY <2>1 DEF Actors
  <2>3. pc[t] = "queued" /\ pc' = [pc EXCEPT ![t] = "run"]
    BY <1>3, <2>2 DEF IInv, Hand, Proceed
  <2> HIDE DEF t
  <2>4. ~Hidden("queued") /\ ~Hidden("run") /\ "queued" \notin BodyOver
        /\ OwnerIs("queued") = "absent" /\ OwnerIs("run") = "open"
    BY DEF Hidden, BodyOver, OwnerIs, BodyStates
  <2>5. CASE t \in JoinSets
    <3>1. /\ Raised' /\ UNCHANGED <<lives, throwns, spawneds>>
          /\ owners[t] = "absent" /\ owners' = [owners EXCEPT ![t] = "open"]
      <4>1. pc[t] = "queued" /\ ~Hidden(pc[t]) /\ pc[t] \notin BodyOver BY <2>3, <2>4
      <4>2. "run" \in PcStates BY StateNames
      <4>3. /\ Raised' /\ UNCHANGED <<lives, throwns, spawneds>>
            /\ owners[t] = OwnerIs(pc[t]) /\ owners' = [owners EXCEPT ![t] = OwnerIs("run")]
        BY <1>1, <2>3, <2>4, <2>5, <4>1, <4>2, OwnerMoves
      <4> QED BY <2>4, <4>1, <4>3
    <3>2. Abstract!Open(t)
      BY <3>1 DEF Abstract!Open, owners, lives, throwns, spawneds
    <3> QED BY <2>5, <3>1, <3>2 DEF Simulated, Abstract!Next
  <2>6. CASE t \notin JoinSets
    <3>1. \A c \in Actors : pc'[c] = IF c = t THEN "run" ELSE pc[c]
      BY <1>1, <2>3 DEF Typed, TypeOK
    <3>2. \A u \in Tasks : SameTask(u)
      BY <2>3, <2>4, <3>1 DEF SameTask, Actors
    <3>3. \A r \in JoinSets : SameOwner(r)
      BY <2>6, <3>1, ActorAssumption DEF SameOwner, JoinSets, Actors
    <3>4. Raised'
      BY <1>1, <2>3, <2>4, <3>1 DEF Raised, Typed, TypeOK, Actors
    <3>5. UNCHANGED Abstract!vars BY <3>2, <3>3, Stutters
    <3> QED BY <3>4, <3>5 DEF Simulated
  <2> QED BY <2>5, <2>6
<1> QED BY <1>2, <1>3

LEMMA RunsSimulates ==
  ASSUME IInv, Raised, NEW w \in Workers, Runs(w)
  PROVE  Simulated
<1> USE DEF setVars, taskVars
<1>1. Typed BY DEF IInv
<1>2. CASE TakeNext(w) \/ WakeUp(w)
  BY <1>2, ProceedSimulates DEF TakeNext, WakeUp
<1>3. CASE RecordError(w)
  BY <1>1, <1>3, RecordSimulates
<1>4. CASE Release(w)
  <2>1. job[w] \in Tasks /\ pc[job[w]] = "end" /\ job[w] \notin thrown
        /\ Destroy(job[w], pc) /\ UNCHANGED <<join_set, thrown, exception>>
    BY <1>1, <1>4 DEF Release, Executed, Typed, Held
  <2>2. pc \in [Actors -> PcStates] BY <1>1 DEF Typed, TypeOK
  <2> QED BY <1>1, <2>1, <2>2, DestroySimulates
<1>5. CASE FallAsleep(w) \/ SleepAgain(w)
  <2>1. UNCHANGED <<pc, join_set, thrown, exception>>
    BY <1>5 DEF FallAsleep, SleepAgain
  <2>2. \A c \in Actors : Quiet(pc[c], pc'[c]) BY <2>1, QuietMoves
  <2> QED BY <1>1, <2>1, <2>2, UnseenStep DEF Simulated
<1> QED BY <1>2, <1>3, <1>4, <1>5 DEF Runs

LEMMA StepSimulates == IInv /\ Raised /\ [Next]_vars => Simulated
<1> SUFFICES ASSUME IInv, Raised, [Next]_vars PROVE Simulated
  OBVIOUS
<1> USE DEF setVars, taskVars, poolVars
<1>1. Typed /\ pc \in [Actors -> PcStates] BY DEF IInv, Typed, TypeOK
<1>2. CASE Stop \/ Join \/ Over \/ UNCHANGED vars
  <2>1. UNCHANGED <<pc, join_set, thrown, exception>>
    BY <1>2 DEF Stop, Join, Over, vars
  <2>2. \A c \in Actors : Quiet(pc[c], pc'[c]) BY <2>1, QuietMoves
  <2> QED BY <1>1, <2>1, <2>2, UnseenStep DEF Simulated
<1>3. CASE SpuriousWakeUp
  <2>1. UNCHANGED <<join_set, thrown, exception>> BY <1>3 DEF SpuriousWakeUp
  <2>2. pc' = pc \/ \E s : pc' = NotifyAll(pc, s) BY <1>3 DEF SpuriousWakeUp
  <2>3. \A c \in Actors : Quiet(pc[c], pc'[c])
    BY <1>1, <2>2, NotifyQuiet, QuietMoves
  <2> QED BY <1>1, <2>1, <2>3, UnseenStep DEF Simulated
<1> QED
  BY <1>2, <1>3, SpawnsSimulates, LeaveSimulates, JoinsSimulates, RunsSimulates DEF Next

LEMMA InitSimulates == Init => Raised /\ Abstract!Init
<1> SUFFICES ASSUME Init PROVE Raised /\ Abstract!Init
  OBVIOUS
<1>1. \A a \in Actors : pc[a] = IF a \in Clients THEN "run" ELSE "unborn"
  BY DEF Init
<1>2. NoSet \notin JoinSets BY ActorAssumption DEF JoinSets, Actors
<1>3. \A s \in JoinSets : Live(s) = {}
  BY <1>2 DEF Init, Live
<1>4. \A s \in JoinSets : OwnerState(s) \in {"absent", "open"}
  <2>1. \A s \in JoinSets : pc[s] \in {"run", "unborn"}
    BY <1>1, ActorAssumption DEF JoinSets, Actors
  <2>2. OwnerIs("run") = "open" /\ OwnerIs("unborn") = "absent" BY DEF OwnerIs, BodyStates
  <2> QED BY <2>1, <2>2, OwnerOf
<1>5. Raised BY DEF Init, Raised
<1>6. {t \in Tasks : join_set[t] # NoSet} = {} BY DEF Init
<1> QED BY <1>3, <1>4, <1>5, <1>6 DEF Init, Abstract!Init

(* The join sets of the pool keep the promise of ForkJoin, for any number  *)
(* of clients, tasks, nested sets and threads: Wait returns normally only  *)
(* over an empty set without an error, throws once per recorded error, no  *)
(* task leaves its set before its error is recorded, and ~JoinSet returns  *)
(* only over an empty set (JoinSet::Wait, JoinSet::~JoinSet, Task::~Task,  *)
(* Task::RecordError in ThreadPool.h and ThreadPool.cpp).                  *)
THEOREM PoolImplementsForkJoin == Spec => ForkJoinSpec
<1>1. Init => Raised /\ Abstract!Init BY InitSimulates
<1>2. IInv /\ Raised /\ [Next]_vars => Raised' /\ [Abstract!Next]_(Abstract!vars)
  BY StepSimulates DEF Simulated
<1> QED BY <1>1, <1>2, PoolInvariant, PTL DEF Spec, ForkJoinSpec, Abstract!Spec
=============================================================================
