# A verification project for ArmoniK.Extensions.Cpp

TLA+ models of the concurrent and stateful parts of the C++ SDK of ArmoniK: the
client library, which submits tasks to a control plane and waits for their
results, and the dynamic worker, which loads shared libraries and executes
tasks. The models are checked with TLC on small instances. Every safety property
they are checked for is also proved with TLAPS, for any number of threads, tasks,
channels, results, libraries and objects, and so are the refinements of what the
join sets of the thread pool promise, and of what the client promises for a
result. Liveness is left to TLC.

`PROJECT.json` lists the components, the runs, the mutants that show that each
property can fail, the source lines every definition models, the hazards and
the theorems.

## The system

| part | code | state | operations |
|---|---|---|---|
| thread pool and join sets | `ArmoniK.SDK.Client/src/ThreadPool.cpp` | queue of tasks, threads, number of sleeping threads; per join set the count of its tasks and the first exception | `Spawn`, `Run`, `Wait`, both destructors |
| channel pool | `ChannelPool.cpp` | queue of gRPC channels | acquire and release, through `ChannelGuard` |
| streamed upload | `SessionServiceImpl.cpp`, `upload_large_result` | attempt, exception, data sent | at most three attempts, deletion of what is incomplete |
| submission | `SessionServiceImpl.cpp`, `Submit` | batches, bytes of the next request, ids of results and tasks | upload inputs, upload payloads, submit, register |
| waiting and discarding | `SessionServiceImpl.cpp` | three maps behind `maps_mutex`: handler by result, task by result, result by task | `WaitResults`, `DropSession`, `CleanupTasks` |
| dynamic worker | `ArmoniK.SDK.DynamicWorker` | loaded library, its functions, two cache keys, current service and session | `UseApplication`, `UseLibrary`, `UseService`, `UseSession`, `Execute`, shutdown |
| worker library | `ArmoniK.SDK.Worker` | none | `armonik_call_default`, `ServiceBase::call` |
| payload formats | `TaskPayload.cpp`, `ConventionPayload.cpp` | `errno` of the thread that reads | `Serialize`, `Deserialize` |
| task options, definitions, blobs | `TaskOptions.cpp`, `TaskDefinition`, `BlobDefinition`, `DynamicLibrary` | the keys that describe a library | `SetDynamicLibrary`, `GetDynamicLibrary`, `UploadLibrary` |
| configuration | `Configuration.cpp`, `ControlPlane`, `ComputePlane` | the object each of them owns, sizes | set, copy, move, `get_control_plane`, `get_compute_plane` |

How they interact. `Submit` and `WaitResults` run their requests as tasks of a
join set that lives on the caller's stack; tasks may spawn tasks of the same
set (an upload after the creation of a result) and, through the user's
handlers, may call the session service again. Every request takes a channel
out of the channel pool. The maps of handlers are written by `Submit`, emptied
result by result by `WaitResults`, and cleared by `DropSession` and
`CleanupTasks`; several threads may call all of these. What a client puts into
the options and the payload of a task travels through the control plane; the
worker decides from the options how to read the payload, which library to load
and which of the blobs are inputs. It calls user code through five C functions
of that library, and user code answers through a callback.

What is hard, and what is required:

- *Thread pool*: a task that is queued, moved, refused or destroyed must be
  counted exactly, or `Wait` returns early or never; a join set must outlive
  its tasks; a thread must be awake or started when there is work, although
  tasks may block on other tasks; stopping must drain the queue.
- *Channels*: a channel is used by one request at a time, and their number
  follows the concurrency, not the number of requests.
- *Upload*: an attempt that succeeds after a failure is a success; an upload
  that returns has left all of the data.
- *Submission*: a task is submitted after everything it reads was uploaded;
  requests stay below the message limit; requests refer to local variables of
  the call and must not outlive it.
- *Results*: a registered result is answered by one caller, once, whatever
  fails; a wait ends; discarded results stay discarded.
- *Worker*: the library, service and session that are kept for the next task
  are alive and are the ones it asks for, after any failure in the middle.
- *Requests*: two formats, two ways to find a library and three kinds of inputs
  meet in the worker, which knows only keys and ids: user code is called with
  what the client asked for, or not at all, and nothing well prepared is refused.
- *Configuration*: the objects own what they proxy and are copied, moved and
  assigned in any order; no two share it, and the sizes a session reads are
  usable whatever text they were given as.

## Modules

| module | models | composition |
|---|---|---|
| `ThreadPool` | the pool and its join sets, one action per critical section | implements `ForkJoin` |
| `ForkJoin` | what a join set promises, without threads or counters | abstract |
| `ChannelPool` | guards and the queue of channels, cut at the lock | |
| `Upload` | `upload_large_result` | extends `ChannelPool`: two guards per thread, the other guards are other requests |
| `Submission` | one call of `Submit` | uses the promise of `ForkJoin`: requests are a set, the call waits for it to be empty |
| `SessionResults` | the maps and the calls that share them | implements `Delivery`; join sets as in `Submission` |
| `Delivery` | what the client promises for a result | abstract |
| `DynamicWorker` | the worker's caches and what user code has created and not destroyed | |
| `Payloads` | the two formats of a task, with the width of a field and a small alphabet | operators only |
| `Configuration` | the configuration objects and the memory they own | |
| `Dispatch` | a request from the options and blobs of a client to the call of user code | extends `Payloads` and `Configuration` |
| `ThreadPool_proofs`, `ThreadQueue_proofs` | theorems: the join sets; the queue and the threads | the second extends the first |
| `Upload_proofs` | theorems about the channel pool and about uploads | |
| `Induction` | lemmas: induction, recursion, quotients, and the sequences of `SetToSeq` and `FlattenSeq` | |
| `Submission_proofs` | theorems | extends `Induction` |
| `Dispatch_proofs` | theorems about the configuration, the legacy format and requests | extends `Induction` |
| `SessionResults_proofs`, `DynamicWorker_proofs` | theorems | |
| `MC*` | constants of the runs | |

Names follow the code: variables are its members (`task_count`,
`sleeping_threads`, `result_handlers`, `currentLibraryPath`), operators its
functions or the condition of a branch. Definitions marked `Mutant` are not
part of the specification; each is a plausible fault of the definition that
follows it.

**ThreadPool.** An actor is a piece of code that uses the pool: a client
thread, or the function of a task, which may own a join set (`Blockers`) and
may spawn into its own set, into that of its parent, or into none. `pc` follows
a task from its construction (which counts it, before the pool is locked) to
its destructor (which counts it down and may notify). Condition variables are
wait sets; `notify_one` picks any sleeper; `Spurious` adds spurious wake-ups.
A thread that cannot be started throws after the task was queued
(`MaxFaults`).

**ChannelPool.** A process is one `ChannelGuard`. The health of a channel is
read outside the lock and changes at any time. `peak` is a history variable.

**Upload.** One action per call that can throw; unwinding releases the guards
in reverse order before the exception is kept. The control plane may store
something or nothing when a stream fails, and a deletion takes effect when it
is called or never.

**Submission.** Both overloads are one call: the overload for `TaskPayload`
starts at the stage `payloads`. A request is a kind and a batch; a creation of
results by metadata starts an upload for every result with data. A request
that fails may have had its effect.

**SessionResults.** A task and its only result share one name. A call of
`WaitResults` is a program counter; its requests (`polls`) and the tasks that
handle results (`jobs`) are processes, cut where they take the lock, download
or call a handler. A handler returns, throws an `std::exception`, or throws
something else. `CleanupTasks` and `DropSession` are called for ended tasks
only, since their documentation leaves others undefined.

**DynamicWorker.** Services and sessions are records of what user code has
created; a pointer that dangles is a record that is no longer in `services` or
`sessions`. Every call into the loader or into user code may fail where
`Failures` says so, `leave_session` among them: an exception of it that reaches
the destructor of a `ServiceManager` ends the process (`Crash`). With `MayStop`
the worker may stop between two tasks, and the members of `ApplicationManager`
are destroyed in the reverse order of their declaration (`Unload`, then
`DestroyManager`). After a destroyed service was used, the program's behaviour
is undefined; the run `dynamicworker_failures` goes on from there and is about
the worker's own bookkeeping only.

**Payloads.** A character is a number, those below `Base` are digits, a field
is preceded by its size in `Width` digits (the code: base 16 and 8 digits of a
`uint32_t`). Sizes wrap, `Deserialize` refuses what is cut short or is no
number. The JSON text of the convention is a record, since all that matters is
that it holds text and that neither format is taken for the other.

**Configuration.** Every object has a cell of `memory` that its `impl` points
to; a move leaves a null pointer, which `get` and `set` of a `Configuration`
cope with and everything else dereferences (`UseOfNothing`, after which the
program is over). The text of a key is what `std::stoi` makes of it: a number,
or `Junk`.

**Dispatch.** A program configures, opens a session with task options or
without, and sends one request: task definitions, a legacy payload, or a task of
another client that inlines its inputs or speaks another version. The worker
refuses a task, for good or to be retried, or calls user code. Variables such
as `calls` and fields such as `asked`, `meant`, `stale` and `causes` are
history: what was asked for, and what became of it. The method asked for is the
`method_name` of the definition, or the symbol of the library when it names
none; the name travels in the payload, and the worker calls the symbol.
`MethodIsDispatched` states what the headers promise, and fails;
`CalledAsAsked` holds of library and inputs for every definition, and of the method for
those that name none or the symbol itself (`NamesAnother`).

## Runs

| run | shows | bounds, and why they are enough |
|---|---|---|
| `threadpool_safety` | counts, no dangling set; sleeping threads are counted, woken, replaced; nothing left behind by the destructor, `threads_` frozen | two tasks that may block on sets of their own, two plain tasks, three threads: all threads but one may block, sets are used from clients and from tasks, and a thread sleeps while another one is already promised to a task; one thread may fail to start, condition variables wake up on their own |
| `threadpool_liveness` | `ForkJoin` is implemented; tasks run, waits return, the pool stops; no deadlock | one blocking task and two plain ones, two threads, spurious wake-ups; with as many blocking tasks as threads the pool deadlocks by design. That `ForkJoin` is implemented when threads fail to start is proved (`PoolImplementsForkJoin`) |
| `upload_retries` | exclusive use and number of channels; what returns is stored; all attempts are used; it ends | three attempts (the code's number) of two chunks, and another request; three guards can have as many channels at most |
| `submission_batches` | requests fit, bytes are counted (`TypeOK`), data before tasks, all or none registered, locals outlive requests | two tasks with three inputs, batches of three: full and partial batches at every stage; sizes 0, 2, 4 and 6 with overhead 1 and limit 6: an item is empty, below or above the limit, a batch also exactly at it (`RequestsFitMessages` proves the bound for any sizes); any request may fail |
| `results_waiters` | one owner, one response; a wait for all leaves nothing behind | two waiters, overlapping calls of all kinds, two results in two submissions, one result per poll; submissions, polls and handlers fail |
| `results_discard` | the maps agree, waits end, the client implements `Delivery` | drop and clean-up against a waiter, all failures but that of a submission, results may disappear |
| `dynamicworker_reuse` | what is reused is alive and right, and lifetimes nest | all tasks of two applications and two libraries, two services (one in two namespaces), two sessions, five in a row: one cache is met again after a detour; applications fail to load, services to be created, sessions to be left |
| `dynamicworker_failures` | no leaked service, one kind of cache | every failure at once, libraries with an `armonik_call` of their own, the worker may stop; five tasks |
| `dispatch_exchange` | called as asked (a definition that names another method than the symbol says nothing of the method, see `dispatch_method_name`), refused for a cause only; objects do not share values, sizes are usable | two configurations, two planes of one kind and one of the other on four addresses: a copy, a move and a moved-from object are there together; three descriptions of libraries, four blobs, definitions that name no method, the symbol or another one, two tasks per request; fields of up to five characters whose sizes have two binary digits, so that one of them wraps; a task is tried twice, and `errno` left by the first matters to the second |

Runs that end in a violation show a disagreement of the code with what it
promises; the findings in `PROJECT.json` quote both sides:

| run | what happens |
|---|---|
| `results_two_errors` | a download fails, `HandleError` is called, then `HandleResponse` with an empty payload, and when that throws `HandleError` again |
| `dynamicworker_dead_service` | after a library failed to load, the next task of the previous one uses its destroyed service |
| `dispatch_method_name` | a definition names a method, its options a library with another symbol: the name is sent in the payload, the worker calls the symbol |

Further disagreements are behaviours of these models and have no run of their own.
In the client:

- `HandleResponse` is called without the task's result after a failed download
  (`DownloadFailed`, then `Respond`).
- A handler that a waiter has taken is called after `DropSession` returned,
  although `SessionService.h:141` says that none will be.
- A size mismatch throws an `exception_ptr` object (`SessionServiceImpl.cpp:98`,
  `117`), which callers that catch `std::exception` miss.
- Options that described an uploaded library and are then given one with a path
  keep the id of the first, which the worker prefers (`TaskOptions.cpp:44`,
  `WithLibrary`).
- A task whose definition names a method and whose library has no symbol is
  refused (`DynamicWorker.cpp:55-58`), although `DynamicLibrary.h:27-28` requires
  a symbol only "when the payload does not carry a method name" (`Permanent`).
  `RefusedForCause` counts such a task as not well prepared.
- Raw inputs that are not UTF-8 cannot be passed on (`BlobDefinition.h:20` says
  "Raw bytes to upload"): the worker hands them over as JSON text.
- A `Configuration` that was moved from, copied again, ends the program; so does
  a plane made of it or read after a move.

In the worker:

- `enter_session` throws: the id of the session was stored before, and the
  retried task is called with the session that was left (`ChangeSession`).
- `UseService` creates the new service before the current one is destroyed
  (`CreateService`, then `SwapService`).
- After an application without all symbols, `currentId` names one that is
  unloaded (`LoadApplication`).
- A convention task with another namespace meets the service of the first one:
  the key of the cache has no namespace (`ApplicationManager.cpp:62`).
- A worker that stops unloads the library before it destroys the service
  (`ApplicationManager.h:116-121`, `Unload`).
- A library whose `armonik_call` returns `RETRY` without a callback fails for
  good (`CallRaw`).
- The file of a library is written again by every task that brings it (`writes`).
- `errno` is tested and never reset (`TaskPayload.cpp:40`): a good payload is
  sent back because of what user code did before on that thread.

Deadlock is checked where the program must go on or be over (`ThreadPool`
except when a thread fails to start, `Upload`, `Submission`).
The bounded runs of `SessionResults`, `DynamicWorker` and `Dispatch` stop when
every call has been made.

### Fairness

`ThreadPool` assumes that every thread that can take a step takes it (weak
fairness of each), that a body which comes back to its own code again and
again ends some day (strong fairness of `Leave`, because it may wait in
between), and that the owner of the pool destroys it. `SessionResults` assumes
that threads run, that requests and handlers return, and that the control
plane ends every task; without the last, a wait rightly never ends. `Upload`
assumes that calls of gRPC return, as an error if need be. Mutual exclusion is
not assumed to be fair.

## Proofs

All theorems hold for any values of the constants that satisfy the named
`ASSUME`s (finite and disjoint sets, identifiers that are not empty, positive
sizes, a base of at least two), which TLC evaluates in the runs. Nothing else is
assumed. Lemmas about two-step updates of a function or a record (`TwoSteps`,
`Taken`), about the tail of a queue and about the cardinality of a set that gains
or loses a member are stated once and cited.

`Induction` makes it possible to prove what a recursive function computes. The
induction theorems of the library take a predicate as a parameter and cannot be
instantiated; `SetInduction` states induction for a set, and follows from the
well-foundedness of `<` on `Nat`. From it: a recursion has exactly one solution
(`RecursionExists`, `RecursionUnique`; a recursive function is a `CHOOSE`, and
nothing is known of it before), a number has one quotient and remainder, `SetToSeq`
lists all of a finite set, and `FlattenSeq` joins its sequences in order
(`FlattenSeqGrows`, `FlattenSeqHasAll`).

`ThreadPool_proofs`, for any clients, tasks, join sets and threads:

- `PoolTypeOK`: the variables are of their types. `Held` strengthens `TypeOK`:
  who spawns or executes holds a task.
- `CountsAreExact` (`CountIsLive`) and `TasksNeverDangle` (`NoDanglingSet`),
  from one inductive invariant, `IInv`. `CountIsLive` alone is not inductive: a
  step could queue or destroy a task twice. `Hand` says that a task being
  spawned is held by one actor only and is in no queue, and that a queued task
  stands in the queue once. A set then stays alive as long as its count is not
  zero, because its owner leaves `~JoinSet` only at zero, and a task that spawns
  into the set counts itself. The proof has a lemma for each operation on the
  count (`CountAdd`, `CountRemove`) and one per action.
- `ThreadsFrozen`: an action property, directly from the guards of `Spawn`.
- `PoolImplementsForkJoin` (`ForkJoinSpec`): the initial states map to initial
  states of `ForkJoin`, and every step to a step of it or to a stutter. Most
  steps of a pool are `Quiet`, which one lemma shows to be stutters; a step of
  one owner (`OwnerSteps`) or of one task (`TaskSteps`) is what remains, with a
  lemma per action. The mapping is exact because of `CountIsLive` (`Wait`
  looks at the count, `ForkJoin` at the tasks) and of `Raised`: a task has
  thrown only when its body is over, so that the error of a task that spawns or
  is queued is never recorded.

`ThreadQueue_proofs`, on the threads of the same pool:

- `SleepersAreCounted` and `NoThreadSleepsOverWork`: every step that queues a
  task wakes a sleeper, starts a thread, or finds no sleeper; the second needs
  the first, because `Spawn` decides from the count of sleepers.
- `StoppedPoolIsEmpty` (`NothingLeftBehind`): `Kept` says that a task that was
  made and is not gone is in somebody's hands, in the queue, or executed, and that
  a thread leaves only when the pool is stopped and the queue empty.
- `OnlyFullPoolsStarve` (`StarvedOnlyWhenFull`): the property speaks of blocked
  threads, and says nothing of how they came to block. `Moves` adds
  that while tasks are queued and threads could still be started, some thread is
  on its way to the queue or executes a task that has not handed anything to a
  set of its own yet (`Attended`): such a task cannot block without spawning, and
  `Spawn` sees to the next thread.
- `TasksHaveOneThread`: the job of a thread is a task whose function is not left
  yet, and no two threads have the same one (`Exclusive`).
- `PoolNeverDeadlocks`: with more threads than tasks that own a join set, and as long
  as no thread failed to start, some actor or thread can take a step until the
  pool is destroyed. `CanMove` lists the guards of `Next`, since `ENABLED` is out of
  the prover's reach, without those of spurious wake-ups and of `Over`. If nobody can move, everyone alive
  waits in a join set or in the queue. `Lineage` says that a task belongs to a set
  that existed before it, so among the tasks that wait there is one whose own
  tasks do not; one of those exists (`Moves`), and it is queued (`Kept`). Then
  no thread sleeps (`NoIdleWhileWork`) or has left, so all are blocked and the
  pool is full (`StarvedOnlyWhenFull`), each by a task of its own (`Exclusive`)
  that owns a set: there would be as many of these as threads. With as many, the
  pool does deadlock, which is why the bound is an assumption.

`Upload_proofs`, for any guards and channels:

- `ChannelTypeOK` and `ChannelsAreExclusive`: `TypeOK` and `Exclusive` are
  inductive together. Lemmas about the tail of a queue without duplicates and
  about appending a new element carry the two steps that touch the queue.
- `ChannelsAreBounded`: the length of the queue and the number of working
  guards move in opposite directions, except when a guard finds the queue empty.

and for any threads, other requests, chunks and attempts:

- `UploadsUseThePool`: `UploadSpec` implements `PoolSpec`, so that the theorems
  about the pool hold of uploads (`UploadsAreExclusive`). The run
  `upload_retries` checks the properties of the pool in this composition.
- `UploadsTypeOK`, `ReturnedUploadsAreStored` and `UploadsUseAllAttempts`, from
  `UploadInv`: `ReturnedIsStored` is not inductive, as an upload returns because
  it keeps no exception; `ThreadOK` relates the place in the loop with the
  exception, the attempt, the guards and what has been stored.

`Submission_proofs`, for any tasks, inputs, sizes and batches, whatever fails:

- `RequestsEndBeforeTheCall` (`LocalsOutliveRequests`): `Shape` says which
  kinds of requests and of items may exist at each stage; a call is over only
  when there is none.
- `NothingIsSubmittedEarly` (`TasksAreReady`): `Ready` follows every item of a
  stage from the loop that names it through a batch and a request to the control
  plane; a wait without an exception that finds no request has them all arrived.
- `TasksAreSubmittedOnce` (`AllOrNone`): `Counted` says that a task is in one
  batch, in one request or submitted, and only one of these, or an exception is
  kept; and that registration comes after the wait that would rethrow it.
- `RequestsFitMessages` (`RequestsFit`): `Fit` says that the bytes counted are the
  sum over the pending batch of small data, that this sum stays below the limit, and
  that no batch has more elements than the batch size. The code adds to a counter and
  resets it; that the counter is the sum (`BytesOfAppend`) needs induction over the
  batch, as `Bytes` is a recursive function.
- `SubmissionTypeOK`: with `Fit`, and `Known`: what the control plane stores has an id
  in the call unless a request failed, whose answer may have been lost.

`SessionResults_proofs`, for any results, submissions, waiters and calls:

- `ResultsAreHandledByOne` (`HandledByOne`): `Claims` says that a handler is in
  the map, or with one task, or was called or discarded.
- `SecondErrorFollowsResponse` and `ErrorsAreReportedOnce`, from `Told`, which follows a
  handler through the steps of the task that has it: `HandleError` is called at most
  once more than `HandleResponse`, and at most once if no handler throws. So the two
  calls that the run `results_two_errors` finds are the worst that can happen, and
  a throw of `HandleResponse` is necessary for them.
- `WaitsHandleAll` (`ReturnedHandled`): `Covered` says that what a waiter no
  longer polls is no longer in the map.
- `MapsAgree` (`TypeOK`): the three maps know the same results whenever nobody
  holds the lock. `Places` adds that a waiter has requests only while it polls
  and tasks only while it handles, on which the types of the rest depend.
- `ClientImplementsDelivery`: every step, mapped to the stages of the results, is
  a step of `Delivery` or a stutter (`DeliverySteps`, the safety part of what the
  run `results_discard` checks with its liveness).

`DynamicWorker_proofs`, for any tasks and libraries:

- with every failure, raw calls and stops: `WorkerTypeOK`, `ServicesNeverLeak`
  (`NoServiceLeak`; `Accounted` says that what user code has not destroyed is
  what the manager, or the temporary of `UseService`, refers to) and
  `KindsExclude` (`OneKindLoaded`).
- where libraries load, sessions are entered and the worker is not stopped
  (`Reliable`; an application may still fail to load, a service to be created, a
  session to be left): `ServicesAreLive`, `ContextsAreEntered`,
  `ServicesAreRight` and `LifetimesAreNested`, from `Usable`: the two
  caches name what is loaded, and each phase of `Execute` has established its
  part. Without `Reliable` they are false, as the run `dynamicworker_dead_service`
  and the list above show.
- without raw calls: `StatusesAreHonoured` (`StatusHonoured`).

`Dispatch_proofs`, on the configuration, for any objects, addresses and texts:

- `OwnershipIsExact`: what is owned is allocated, once, and for one object
  (`OwnedOnce`, inductive with its types). `ObjectsAreIndependent`
  (`OthersUntouched`) follows from it, since two objects that shared a cell would
  change together.
- `SizesAreUsable`: from `SizesOf`, for every text, through copies and moves.
- `DispatchConfigures`: `Spec` of `Dispatch` implements `ConfigSpec`, so that all
  of this holds of the program that goes on to submit
  (`DispatchSizesAreUsable`, `DispatchObjectsAreIndependent`).

On the legacy format, for any base of at least two, any width, any characters
(digits among them) and any number of dependencies:

- `PayloadsAreRead`: `Deserialize` of what `Serialize` wrote is well formed and
  gives back method and arguments, if no field is larger than its size can
  say. `SizesAreRead` (the digits of a number below `Base^Width`, read back,
  are that number) is by induction over the digits from the front, with the
  quotient by the weight of the place as what was read so far; the loop over the
  dependencies ends at the end of the text because each field ends where the next
  one begins (`FlattenSeqGrows`), and because there cannot be more fields
  than characters. A size that wraps makes the hypothesis false, and
  the run `dispatch_exchange` visits such payloads.

On requests, for any libraries, descriptions, inputs, legacy payloads and
numbers of tasks:

- `PreparedTasksAreCalledAsAsked` (`CalledAsAsked`) and
  `PreparedTasksAreNotRefused` (`RefusedForCause`), from `DispatchInv`. Neither is
  inductive: they speak of calls and of causes, which are what a worker made of
  tasks. `ClientOK` says that options name the library they were last given unless
  an id was left in them, and only ids of blobs that exist. `Served` says of a
  submitted task, in terms of what is stored, that a worker which follows its
  options, dependencies and payload finds what was asked for; it is established
  by the three ways to submit (`DefinitionsAreServed`, `PayloadIsServed`,
  `ForeignIsServed`) and kept because blobs are not changed and a task that is
  tried keeps its payload. When the definition names another method than the
  symbol, `Served` leaves the method open, as `CalledAsAsked` does. `InputsAreFound` is the heart of it: the id that an
  input is given by its place in the list of all raw inputs is the id under
  which its own data is stored, because that list has every one of them
  (`RawInputsAreListed`). `WorkerFinds` reads `Execute` against `Served`.

Only model-checked:

- Liveness, which needs `ENABLED`: `QueuedTasksRun`, `OwnersReturn`,
  `StopCompletes`, `WaitEnds`, `UploadEnds` and the liveness of `Delivery` in
  `DeliverySpec` (its safety is `ClientImplementsDelivery`).
- That the runs in which deadlock is checked have none, but for `ThreadPool`, of
  which `PoolNeverDeadlocks` is proved.

## Not modelled

- `CloseSession`, `CancelSession`, `PurgeSession`: one request each, nothing
  changes in the client. Moves of `SessionService` and the test for use after
  them.
- The log level, reading of configuration files and of the environment (a
  configuration that was read is one whose keys were set), accessors that only
  forward to the API library.
- The remaining value types, logging, packaging and tests: no state worth a
  model. The forwarding classes (`SessionService`, `ArmoniKSdkInterface.h`) are
  covered by the models of what they forward to.
- The control plane, gRPC and the loader: external, modelled as far as the code
  observes them. `dlclose` is taken to succeed; what rewriting the file of a loaded
  library does to its mapping is up to the operating system.
- Time: a limited wait may return after any round.

## Plan

Done, in this order: `ThreadPool` and `ForkJoin`, `DynamicWorker`,
`SessionResults` and `Delivery`, `Submission`, `ChannelPool`, `Upload`,
`Payloads`, `Configuration`, `Dispatch`; theorems about all of these, last those
that need induction over data (`Submission`, the formats, `Dispatch`).

What would add most next:

1. Composition: `Submission` on `ThreadPool` instead of a set of requests, with
   handlers that submit from within a wait; the number of threads this needs. The
   refinement of `ForkJoin` is proved, so `Submission` and `SessionResults` could
   be stated on `ForkJoin` itself.
2. `Dispatch` with more than one request per session, so that a worker meets
   the tasks of several libraries; this multiplies its states beyond what the run
   can visit with the present bounds.
3. The maps of `SessionResults` with `CloseSession` and a session service that is
   moved from while a wait runs.
