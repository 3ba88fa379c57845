----------------------------- MODULE ThreadPool -----------------------------
(***************************************************************************)
(* The client SDK's thread pool and join sets (ArmoniK.SDK.Client,         *)
(* src/ThreadPool.cpp and private/ThreadPool.h): at most max_threads       *)
(* worker threads created on demand, a FIFO of pending tasks under the     *)
(* pool's mutex and condition variable, and join sets whose count and      *)
(* first exception live under a mutex and a condition variable of their    *)
(* own.  Each action is one critical section, or one step of a thread      *)
(* between two of them.                                                    *)
(*                                                                         *)
(* An actor is a piece of code that uses the pool: a client thread, or the *)
(* function of a task.  Actors in JoinSets own a join set for as long as   *)
(* their body runs, so a join set is named by its owner.                   *)
(***************************************************************************)
EXTENDS Integers, Sequences, FiniteSets

CONSTANTS Clients,    \* threads outside the pool, each holding a JoinSet
          Tasks,      \* tasks that may be spawned, each at most once
          Blockers,   \* the tasks whose function holds a JoinSet of its own
          Workers,    \* the threads the pool may create: max_threads_ of them
          MaxFaults,  \* bound: how many times std::thread may fail to start
          Spurious,   \* condition variables may wake up on their own
          NoSet,      \* join_set_ = nullptr
          NoTask      \* a default-constructed Task

Actors == Clients \cup Tasks
JoinSets == Clients \cup Blockers

ASSUME ActorAssumption ==
  /\ IsFiniteSet(Tasks) /\ IsFiniteSet(Workers)
  /\ Blockers \subseteq Tasks
  /\ Clients \cap Tasks = {}
  /\ NoSet \notin Actors /\ NoTask \notin Actors
ASSUME FaultAssumption == MaxFaults \in Nat /\ Spurious \in BOOLEAN

VARIABLES
  pc,               \* pc[a]: where actor a is; a task that is not running is
                    \*   unborn, made (constructed), queued, end (its function
                    \*   is over) or gone
  kid,              \* kid[a]: the task a is handing to the pool
  join_set,         \* join_set[t]: Task::join_set_
  thrown,           \* the tasks whose function threw, until that is recorded
  task_count,       \* task_count[s]: JoinSet::task_count_
  exception,        \* exception[s]: JoinSet::exception_ is set
  pending_tasks,    \* ThreadPool::pending_tasks_
  sleeping_threads, \* ThreadPool::sleeping_threads_
  wpc,              \* wpc[w]: none (not in threads_), loop (before the lock of
                    \*   Run), sleep (in the wait set), woken, exec, exit
  job,              \* job[w]: the task w executes
  phase,            \* up, stopping (stop_ is set), dead (~ThreadPool returned)
  faults            \* how many threads failed to start

taskVars == <<kid, join_set, thrown>>
setVars  == <<task_count, exception>>
poolVars == <<pending_tasks, sleeping_threads, wpc, job, phase, faults>>
vars == <<pc, kid, join_set, thrown, task_count, exception,
          pending_tasks, sleeping_threads, wpc, job, phase, faults>>

BodyStates == {"run", "spawn", "reject", "check", "wait", "dtor", "dtorwait"}
PcStates == BodyStates \cup {"unborn", "made", "queued", "end", "gone"}
WorkerStates == {"none", "loop", "sleep", "woken", "exec", "exit"}

TypeOK ==
  /\ pc \in [Actors -> PcStates]
  /\ kid \in [Actors -> Tasks \cup {NoTask}]
  /\ join_set \in [Tasks -> JoinSets \cup {NoSet}]
  /\ thrown \subseteq Tasks
  /\ task_count \in [JoinSets -> Int]
  /\ exception \in [JoinSets -> BOOLEAN]
  /\ pending_tasks \in Seq(Tasks)
  /\ sleeping_threads \in Int
  /\ wpc \in [Workers -> WorkerStates]
  /\ job \in [Workers -> Tasks \cup {NoTask}]
  /\ phase \in {"up", "stopping", "dead"}
  /\ faults \in Nat

Init ==
  /\ pc = [a \in Actors |-> IF a \in Clients THEN "run" ELSE "unborn"]
  /\ kid = [a \in Actors |-> NoTask]
  /\ join_set = [t \in Tasks |-> NoSet]
  /\ thrown = {}
  /\ task_count = [s \in JoinSets |-> 0]
  /\ exception = [s \in JoinSets |-> FALSE]
  /\ pending_tasks = <<>>
  /\ sleeping_threads = 0
  /\ wpc = [w \in Workers |-> "none"]
  /\ job = [w \in Workers |-> NoTask]
  /\ phase = "up"
  /\ faults = 0

threads == {w \in Workers : wpc[w] # "none"}     \* ThreadPool::threads_
stop == phase # "up"                             \* ThreadPool::stop_
Live(s) == {t \in Tasks : join_set[t] = s /\ pc[t] \notin {"unborn", "gone"}}
Alive(s) == pc[s] \in BodyStates                 \* the JoinSet object exists

-----------------------------------------------------------------------------
(* The condition variable of a join set: notify_all lets the owner, which  *)
(* may be in Wait or in ~JoinSet, look at the count and the exception.     *)
Awake(state) ==
  CASE state = "wait" -> "check" [] state = "dtorwait" -> "dtor" [] OTHER -> state

(* Mutant: the waiting owner is not notified.                              *)
NotifyNobody(p, s) == p

NotifyAll(p, s) == [a \in Actors |-> IF a = s THEN Awake(p[a]) ELSE p[a]]

(* Task::~Task of task t, by whoever holds it; p is pc with the other      *)
(* effects of the step.                                                    *)
Destroy(t, p) ==
  LET s == join_set[t]
      q == [p EXCEPT ![t] = "gone"]
  IN  IF s = NoSet
      THEN pc' = q /\ UNCHANGED task_count
      ELSE /\ task_count' = [task_count EXCEPT ![s] = @ - 1]
           /\ pc' = IF task_count[s] = 1 THEN NotifyAll(q, s) ELSE q

-----------------------------------------------------------------------------
(* Spawning, by actor a.  The body of a task can name the set it belongs   *)
(* to (nested spawns), and the set it owns; ThreadPool::Spawn has no set.  *)
Targets(a) ==
  (IF a \in JoinSets THEN {a} ELSE {}) \cup
  {IF a \in Tasks THEN join_set[a] ELSE NoSet}

(* Task(func, join_set): the count grows before the pool is locked.        *)
Construct(a, t, s) ==
  /\ pc[a] = "run" /\ pc[t] = "unborn" /\ s \in Targets(a)
  /\ pc' = [pc EXCEPT ![a] = "spawn", ![t] = "made"]
  /\ kid' = [kid EXCEPT ![a] = t]
  /\ join_set' = [join_set EXCEPT ![t] = s]
  /\ task_count' = IF s = NoSet THEN task_count
                                ELSE [task_count EXCEPT ![s] = @ + 1]
  /\ UNCHANGED <<thrown, exception, poolVars>>

(* Mutants: a stopping pool accepts tasks; the queue receives a moved-from *)
(* Task.                                                                   *)
AcceptsAlways(a) == pc[a] = "spawn"
MovedFrom(a) == NoTask

Accepts(a) == pc[a] = "spawn" /\ ~stop
Moved(a) == kid[a]

Push(a) ==
  /\ Accepts(a)
  /\ pending_tasks' = Append(pending_tasks, Moved(a))
  /\ pc' = [pc EXCEPT ![a] = "run", ![kid[a]] = "queued"]
  /\ kid' = [kid EXCEPT ![a] = NoTask]
  /\ UNCHANGED <<join_set, thrown, setVars, sleeping_threads, job, phase>>

(* Mutant: a thread is started only for the first task of the queue.       *)
NeedsThreadIfIdle ==
  sleeping_threads = 0 /\ threads # Workers /\ pending_tasks = <<>>

NeedsThread == sleeping_threads = 0 /\ threads # Workers

(* ThreadPool::Spawn when a new thread is started: it waits for the lock.  *)
EnqueueAndStart(a) ==
  /\ NeedsThread
  /\ Push(a)
  /\ \E w \in Workers \ threads : wpc' = [wpc EXCEPT ![w] = "loop"]
  /\ UNCHANGED faults

(* Mutants: one thread is notified only when the queue was empty, or never.*)
NotifyOneIfIdle ==
  IF pending_tasks = <<>> /\ \E w \in Workers : wpc[w] = "sleep"
  THEN \E w \in Workers : wpc[w] = "sleep" /\ wpc' = [wpc EXCEPT ![w] = "woken"]
  ELSE UNCHANGED wpc
NotifyNone == UNCHANGED wpc

NotifyOne ==
  IF \E w \in Workers : wpc[w] = "sleep"
  THEN \E w \in Workers : wpc[w] = "sleep" /\ wpc' = [wpc EXCEPT ![w] = "woken"]
  ELSE UNCHANGED wpc

(* ThreadPool::Spawn without a new thread: notify_one wakes one sleeper.   *)
Enqueue(a) ==
  /\ ~NeedsThread
  /\ Push(a)
  /\ NotifyOne
  /\ UNCHANGED faults

(* std::thread cannot start: emplace_back throws out of Spawn after the    *)
(* task was queued, and nobody is notified.                                *)
EnqueueFails(a) ==
  /\ faults < MaxFaults
  /\ NeedsThread
  /\ Push(a)
  /\ faults' = faults + 1
  /\ UNCHANGED wpc

(* "Spawn on stopped ThreadPool" is thrown, the task was not moved ...     *)
Reject(a) ==
  /\ pc[a] = "spawn" /\ stop
  /\ pc' = [pc EXCEPT ![a] = "reject"]
  /\ UNCHANGED <<taskVars, setVars, poolVars>>

(* Mutant: the refused task is forgotten without its destructor.           *)
LeakRejected(a) ==
  /\ pc[a] = "reject"
  /\ pc' = [pc EXCEPT ![a] = "run", ![kid[a]] = "gone"]
  /\ kid' = [kid EXCEPT ![a] = NoTask]
  /\ UNCHANGED <<join_set, thrown, setVars, poolVars>>

(* ... and is destroyed while the exception leaves JoinSet::Spawn.         *)
DropRejected(a) ==
  /\ pc[a] = "reject"
  /\ Destroy(kid[a], [pc EXCEPT ![a] = "run"])
  /\ kid' = [kid EXCEPT ![a] = NoTask]
  /\ UNCHANGED <<join_set, thrown, exception, poolVars>>

-----------------------------------------------------------------------------
(* JoinSet::Wait and JoinSet::~JoinSet, by the owner s of the set.         *)
Wait(s) ==
  /\ pc[s] = "run"
  /\ pc' = [pc EXCEPT ![s] = "check"]
  /\ UNCHANGED <<taskVars, setVars, poolVars>>

WaitReturns(s) ==
  /\ pc[s] = "check" /\ task_count[s] = 0 /\ ~exception[s]
  /\ pc' = [pc EXCEPT ![s] = "run"]
  /\ UNCHANGED <<taskVars, setVars, poolVars>>

(* The exception is taken and rethrown; the body may catch it or end.      *)
WaitThrows(s) ==
  /\ pc[s] = "check" /\ exception[s]
  /\ exception' = [exception EXCEPT ![s] = FALSE]
  /\ pc' = [pc EXCEPT ![s] = "run"]
  /\ UNCHANGED <<taskVars, task_count, poolVars>>

WaitBlocks(s) ==
  /\ pc[s] = "check" /\ task_count[s] # 0 /\ ~exception[s]
  /\ pc' = [pc EXCEPT ![s] = "wait"]
  /\ UNCHANGED <<taskVars, setVars, poolVars>>

(* Mutant: ~JoinSet waits for what Wait waits for.                         *)
EmptiedOrFailed(s) == task_count[s] = 0 \/ exception[s]
Emptied(s) == task_count[s] = 0                \* what ~JoinSet waits for

Ended(a) == IF a \in Clients THEN "gone" ELSE "end"

(* The body of a ends, normally or with an exception; the locals of its    *)
(* frame are destroyed, its JoinSet among them.                            *)
Leave(a) ==
  /\ pc[a] = "run"
  /\ pc' = [pc EXCEPT ![a] = IF a \in JoinSets THEN "dtor" ELSE "end"]
  /\ thrown' \in {thrown, thrown \cup ({a} \cap Tasks)}
  /\ UNCHANGED <<kid, join_set, setVars, poolVars>>

DestroySet(s) ==
  /\ pc[s] = "dtor" /\ Emptied(s)
  /\ pc' = [pc EXCEPT ![s] = Ended(s)]
  /\ UNCHANGED <<taskVars, setVars, poolVars>>

DestroyBlocks(s) ==
  /\ pc[s] = "dtor" /\ ~Emptied(s)
  /\ pc' = [pc EXCEPT ![s] = "dtorwait"]
  /\ UNCHANGED <<taskVars, setVars, poolVars>>

-----------------------------------------------------------------------------
(* Mutant: a stopped pool drops its queue.                                 *)
ExitsAtStop == stop
Exits == stop /\ pending_tasks = <<>>

(* ThreadPool::Run, by worker w holding the pool's lock, when the wait's   *)
(* predicate is true: exit, or take the oldest task.                       *)
Proceed(w) ==
  IF Exits
  THEN /\ wpc' = [wpc EXCEPT ![w] = "exit"]
       /\ UNCHANGED <<pc, pending_tasks, job>>
  ELSE /\ wpc' = [wpc EXCEPT ![w] = "exec"]
       /\ job' = [job EXCEPT ![w] = Head(pending_tasks)]
       /\ pc' = [pc EXCEPT ![Head(pending_tasks)] = "run"]
       /\ pending_tasks' = Tail(pending_tasks)

HasWork == stop \/ pending_tasks # <<>>

(* From the top of the loop, sleeping_threads_ goes up and down at once.   *)
TakeNext(w) ==
  /\ wpc[w] = "loop" /\ HasWork
  /\ Proceed(w)
  /\ UNCHANGED <<taskVars, setVars, sleeping_threads, phase, faults>>

FallAsleep(w) ==
  /\ wpc[w] = "loop" /\ ~HasWork
  /\ sleeping_threads' = sleeping_threads + 1
  /\ wpc' = [wpc EXCEPT ![w] = "sleep"]
  /\ UNCHANGED <<pc, taskVars, setVars, pending_tasks, job, phase, faults>>

(* Mutant: the awakened thread still counts as asleep.                     *)
WakeUpUncounted(w) ==
  /\ wpc[w] = "woken" /\ HasWork
  /\ Proceed(w)
  /\ UNCHANGED <<taskVars, setVars, sleeping_threads, phase, faults>>

WakeUp(w) ==
  /\ wpc[w] = "woken" /\ HasWork
  /\ sleeping_threads' = sleeping_threads - 1
  /\ Proceed(w)
  /\ UNCHANGED <<taskVars, setVars, phase, faults>>

SleepAgain(w) ==
  /\ wpc[w] = "woken" /\ ~HasWork
  /\ wpc' = [wpc EXCEPT ![w] = "sleep"]
  /\ UNCHANGED <<pc, taskVars, setVars, pending_tasks, sleeping_threads, job, phase, faults>>

(* Task::RecordError: the first exception is kept, a task without a set    *)
(* loses it.                                                               *)
RecordError(w) ==
  /\ wpc[w] = "exec" /\ pc[job[w]] = "end" /\ job[w] \in thrown
  /\ thrown' = thrown \ {job[w]}
  /\ LET s == join_set[job[w]]
     IN  IF s # NoSet /\ ~exception[s]
         THEN /\ exception' = [exception EXCEPT ![s] = TRUE]
              /\ pc' = NotifyAll(pc, s)
         ELSE UNCHANGED <<exception, pc>>
  /\ UNCHANGED <<kid, join_set, task_count, poolVars>>

(* Mutant: the task leaves its set before its error is recorded.           *)
ExecutedOrThrown(w) == wpc[w] = "exec" /\ pc[job[w]] = "end"
Executed(w) == wpc[w] = "exec" /\ pc[job[w]] = "end" /\ job[w] \notin thrown

(* The loop's Task goes out of scope.                                      *)
Release(w) ==
  /\ Executed(w)
  /\ Destroy(job[w], pc)
  /\ wpc' = [wpc EXCEPT ![w] = "loop"]
  /\ job' = [job EXCEPT ![w] = NoTask]
  /\ UNCHANGED <<taskVars, exception, pending_tasks, sleeping_threads, phase, faults>>

-----------------------------------------------------------------------------
(* Mutant: ~ThreadPool notifies nobody.                                    *)
NotifiedNobody == wpc
NotifiedAll == [w \in Workers |-> IF wpc[w] = "sleep" THEN "woken" ELSE wpc[w]]

(* ThreadPool::~ThreadPool.  The pool outlives its clients: it is a member *)
(* of the session service whose methods use it.                            *)
Stop ==
  /\ phase = "up"
  /\ \A c \in Clients : pc[c] = "gone"
  /\ phase' = "stopping"
  /\ wpc' = NotifiedAll
  /\ UNCHANGED <<pc, taskVars, setVars, pending_tasks, sleeping_threads, job, faults>>

Join ==
  /\ phase = "stopping"
  /\ \A w \in threads : wpc[w] = "exit"
  /\ phase' = "dead"
  /\ UNCHANGED <<pc, taskVars, setVars, pending_tasks, sleeping_threads, wpc, job, faults>>

SpuriousWakeUp ==
  /\ Spurious
  /\ \/ \E s \in JoinSets : /\ pc[s] \in {"wait", "dtorwait"}
                            /\ pc' = NotifyAll(pc, s)
                            /\ UNCHANGED wpc
     \/ \E w \in Workers : /\ wpc[w] = "sleep"
                           /\ wpc' = [wpc EXCEPT ![w] = "woken"]
                           /\ UNCHANGED pc
  /\ UNCHANGED <<taskVars, setVars, pending_tasks, sleeping_threads, job, phase, faults>>

(* The program is over; nothing else may be.                               *)
Over == phase = "dead" /\ UNCHANGED vars

Spawns(a) ==
  \/ \E t \in Tasks : \E s \in JoinSets \cup {NoSet} : Construct(a, t, s)
  \/ EnqueueAndStart(a) \/ Enqueue(a) \/ EnqueueFails(a)
  \/ Reject(a) \/ DropRejected(a)

Joins(s) ==
  \/ Wait(s) \/ WaitReturns(s) \/ WaitThrows(s) \/ WaitBlocks(s)
  \/ DestroySet(s) \/ DestroyBlocks(s)

Runs(w) ==
  \/ TakeNext(w) \/ FallAsleep(w) \/ WakeUp(w) \/ SleepAgain(w)
  \/ RecordError(w) \/ Release(w)

Next ==
  \/ \E a \in Actors : Spawns(a) \/ Leave(a)
  \/ \E s \in JoinSets : Joins(s)
  \/ \E w \in Workers : Runs(w)
  \/ Stop \/ Join \/ SpuriousWakeUp \/ Over

Spec == Init /\ [][Next]_vars

(* The scheduler runs every thread that can take a step; a body that keeps *)
(* coming back to its own code ends some day (it may wait any number of    *)
(* times before), and the owner of the pool destroys it.                   *)
Fairness ==
  /\ \A a \in Actors :
       /\ WF_vars(EnqueueAndStart(a) \/ Enqueue(a) \/ EnqueueFails(a))
       /\ WF_vars(Reject(a)) /\ WF_vars(DropRejected(a))
       /\ SF_vars(Leave(a))
  /\ \A s \in JoinSets :
       /\ WF_vars(WaitReturns(s) \/ WaitThrows(s) \/ WaitBlocks(s))
       /\ WF_vars(DestroySet(s) \/ DestroyBlocks(s))
  /\ \A w \in Workers : WF_vars(Runs(w))
  /\ WF_vars(Stop) /\ WF_vars(Join)

FairSpec == Spec /\ Fairness

-----------------------------------------------------------------------------
(* Properties.                                                             *)

(* A join set counts exactly its tasks that are not destroyed yet, queued, *)
(* running or still in the hands of the code that spawns them: a count     *)
(* that is off by one makes Wait return early or never (Task::Task, the    *)
(* moves, Task::~Task, JoinSet::Wait).                                     *)
CountIsLive == \A s \in JoinSets : task_count[s] = Cardinality(Live(s))

(* No task, in whatever thread holds it, refers to a JoinSet that its      *)
(* owner has destroyed or not created: also not one that another task of   *)
(* the set spawned while the owner was already in ~JoinSet.                *)
NoDanglingSet == \A s \in JoinSets : Live(s) # {} => Alive(s)

(* A thread stays in the pool's wait set only while there are no more      *)
(* queued tasks than threads on their way to the queue: notify_one is      *)
(* neither lost nor given to a thread that does not need it.               *)
NoIdleWhileWork ==
  (\E w \in Workers : wpc[w] = "sleep") =>
    Len(pending_tasks) <= Cardinality({w \in Workers : wpc[w] \in {"loop", "woken"}})

(* sleeping_threads_ is the number of threads inside condition_.wait, the  *)
(* notified ones that do not hold the lock again included: Spawn decides   *)
(* from it whether a thread is created.                                    *)
SleepersCounted ==
  sleeping_threads = Cardinality({w \in Workers : wpc[w] \in {"sleep", "woken"}})

Blocked(w) == wpc[w] = "exec" /\ pc[job[w]] \in {"wait", "dtorwait"}

(* Tasks wait in the queue behind threads that all block in a join set     *)
(* only when the pool has all the threads it may have: Spawn never leaves  *)
(* a task to threads that wait for it although it could start another one. *)
StarvedOnlyWhenFull ==
  (/\ pending_tasks # <<>> /\ faults = 0
   /\ \A w \in threads : Blocked(w))
     => threads = Workers

(* When ~ThreadPool has returned every thread was joined and every task    *)
(* that was ever spawned, by a task while the pool was stopping included,  *)
(* has run or was refused; only a pool that never could start a thread     *)
(* leaves tasks in its queue.                                              *)
NothingLeftBehind ==
  phase = "dead" => \/ threads = {}
                    \/ \A t \in Tasks : pc[t] \in {"unborn", "gone"}

(* ~ThreadPool walks threads_ without the mutex: from the moment stop_ is  *)
(* set no thread is added to it.                                           *)
ThreadsFrozenByStop == [][stop => threads' = threads]_vars

(* The join sets keep the promise of ForkJoin.                             *)
OwnerState(s) ==
  CASE ~Alive(s)                    -> "absent"
    [] pc[s] \in {"check", "wait"}  -> "waiting"
    [] OTHER                        -> "open"

Abstract == INSTANCE ForkJoin WITH
  Sets <- JoinSets,
  Jobs <- Tasks,
  owner <- [s \in JoinSets |-> OwnerState(s)],
  spawned <- {t \in Tasks : join_set[t] # NoSet},
  live <- [s \in JoinSets |-> Live(s)],
  thrown <- [s \in JoinSets |-> Live(s) \cap thrown],
  error <- exception

(* Wait returns only over an empty set without an error, throws exactly    *)
(* once per recorded error, an error is recorded before its task leaves    *)
(* the set, and ~JoinSet returns only over an empty set.                   *)
ForkJoinSpec == Abstract!Spec

(* Every task that was queued runs and is destroyed, whatever the others   *)
(* do, as long as some thread can be created that never blocks.            *)
QueuedTasksRun == \A t \in Tasks : pc[t] = "queued" ~> pc[t] = "gone"

(* Wait and ~JoinSet return: no wake-up of a join set is lost.             *)
OwnersReturn ==
  \A s \in JoinSets :
    /\ pc[s] = "wait" ~> pc[s] = "run"
    /\ pc[s] = "dtorwait" ~> pc[s] \in {"end", "gone"}

(* ~ThreadPool returns: no thread sleeps through the stop.                 *)
StopCompletes == phase = "stopping" ~> phase = "dead"
=============================================================================
