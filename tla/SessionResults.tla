--------------------------- MODULE SessionResults ---------------------------
(***************************************************************************)
(* The results of a session as its client sees them                        *)
(* (SessionServiceImpl): Submit registers a handler for every result,      *)
(* WaitResults polls the control plane and calls the handlers of the       *)
(* results that are ready, DropSession and CleanupTasks discard results.   *)
(* All of them may be called by several threads; what they share is the    *)
(* three maps behind maps_mutex.                                           *)
(*                                                                         *)
(* A task and its only result share one element of Results.  WaitResults   *)
(* runs its requests and its handlers in a join set of the thread pool     *)
(* (module ThreadPool): here every task of the join set is a process of    *)
(* its own, Wait returns when they have ended or one threw, and the        *)
(* destructor of the join set waits for the others.  The control plane is  *)
(* external.                                                               *)
(***************************************************************************)
EXTENDS Naturals, FiniteSets

CONSTANTS
  Results,       \* the results, numbered in the order of the maps
  Submitters,    \* threads that call Submit
  Batch,         \* Batch[s]: the results of the submission of s
  Waiters,       \* threads that call WaitResults
  Calls,         \* the calls they make: [ids, any, break, limited]
  WaitBatchSize, \* wait_batch_size_
  MayDrop,       \* DropSession may be called
  Cleaned,       \* the tasks that CleanupTasks is called with, if any
  Failures       \* what may go wrong (members of FailureKinds)

FailureKinds == {"submit", "poll", "download", "throw", "escape", "forget",
                 "cancel", "delete"}

ASSUME ResultsAssumption == Results \subseteq Nat /\ IsFiniteSet(Results)
ASSUME BatchAssumption ==
  /\ Batch \in [Submitters -> SUBSET Results]
  /\ \A s, t \in Submitters : s # t => Batch[s] \cap Batch[t] = {}
ASSUME CallAssumption ==
  Calls \subseteq [ids : SUBSET Results, any : BOOLEAN, break : BOOLEAN, limited : BOOLEAN]
ASSUME OptionAssumption ==
  /\ WaitBatchSize \in Nat \ {0} /\ Cleaned \subseteq Results
  /\ MayDrop \in BOOLEAN /\ Failures \subseteq FailureKinds

VARIABLES
  result_handlers, resultId_taskId, taskId_resultId,  \* the maps, as domains
  status,     \* status[r]: the result as the control plane knows it
  spc,        \* what Submit does next
  wpc,        \* what WaitResults does next
  asked,      \* asked[w]: the call
  snapshot,   \* snapshot[w]: the results it started with
  results,    \* results[w]: the results still waited for, with a status
  polls,      \* polls[w]: the batches being requested
  jobs,       \* the tasks that handle results: [w, r, status, step, handler]
  hasError,   \* hasError[w]
  exception,  \* exception[w]: the join set of w has kept an exception
  responses,  \* responses[r]: number of calls of HandleResponse
  errors,     \* errors[r]: number of calls of HandleError
  dpc,        \* what DropSession does next
  cpc         \* what CleanupTasks does next

maps == <<result_handlers, resultId_taskId, taskId_resultId>>
waitVars == <<wpc, asked, snapshot, results, polls, hasError, exception>>
handlerVars == <<responses, errors>>
vars == <<maps, status, spc, waitVars, jobs, handlerVars, dpc, cpc>>

Ready == {"COMPLETED", "ABORTED", "DELETED"}
NoResults == [r \in {} |-> "NOTFOUND"]
NoCall == [ids |-> {}, any |-> FALSE, break |-> FALSE, limited |-> FALSE]

Init ==
  /\ result_handlers = {} /\ resultId_taskId = {} /\ taskId_resultId = {}
  /\ status = [r \in Results |-> "NOTFOUND"]
  /\ spc = [s \in Submitters |-> "idle"]
  /\ wpc = [w \in Waiters |-> "idle"]
  /\ asked = [w \in Waiters |-> NoCall]
  /\ snapshot = [w \in Waiters |-> {}]
  /\ results = [w \in Waiters |-> NoResults]
  /\ polls = [w \in Waiters |-> {}]
  /\ jobs = {}
  /\ hasError = [w \in Waiters |-> FALSE]
  /\ exception = [w \in Waiters |-> FALSE]
  /\ responses = [r \in Results |-> 0] /\ errors = [r \in Results |-> 0]
  /\ dpc = "idle" /\ cpc = "idle"

-----------------------------------------------------------------------------
(* The control plane: tasks end; a result that is not ready may disappear. *)
Finish(r) ==
  /\ status[r] = "CREATED"
  /\ \E end \in {"COMPLETED", "ABORTED"} \cup
                (IF "forget" \in Failures THEN {"NOTFOUND"} ELSE {}) :
       status' = [status EXCEPT ![r] = end]
  /\ UNCHANGED <<maps, spc, waitVars, jobs, handlerVars, dpc, cpc>>

(* SubmitRaw up to the last request: results and tasks exist.  A failure   *)
(* leaves what was created so far behind, registered nowhere.              *)
SubmitTasks(s) ==
  /\ spc[s] = "idle"
  /\ \/ /\ spc' = [spc EXCEPT ![s] = "submitted"]
        /\ status' = [r \in Results |-> IF r \in Batch[s] THEN "CREATED" ELSE status[r]]
     \/ /\ "submit" \in Failures
        /\ spc' = [spc EXCEPT ![s] = "failed"]
        /\ \E made \in SUBSET Batch[s] :
             status' = [r \in Results |-> IF r \in made THEN "CREATED" ELSE status[r]]
  /\ UNCHANGED <<maps, waitVars, jobs, handlerVars, dpc, cpc>>

(* SubmitRaw, at last: the handlers are registered under the lock.         *)
Register(s) ==
  /\ spc[s] = "submitted"
  /\ spc' = [spc EXCEPT ![s] = "registered"]
  /\ result_handlers' = result_handlers \cup Batch[s]
  /\ resultId_taskId' = resultId_taskId \cup Batch[s]
  /\ taskId_resultId' = taskId_resultId \cup Batch[s]
  /\ UNCHANGED <<status, waitVars, jobs, handlerVars, dpc, cpc>>

-----------------------------------------------------------------------------
(* WaitResults takes its snapshot under the lock: every registered result, *)
(* or those of the given tasks that are known.                             *)
Selected(c) == IF c.ids = {} THEN result_handlers ELSE c.ids \cap taskId_resultId

Start(w) ==
  /\ wpc[w] \in {"idle", "returned", "thrown"}
  /\ \E c \in Calls :
       /\ asked' = [asked EXCEPT ![w] = c]
       /\ snapshot' = [snapshot EXCEPT ![w] = Selected(c)]
       /\ results' = [results EXCEPT ![w] = [r \in Selected(c) |-> "NOTFOUND"]]
       /\ wpc' = [wpc EXCEPT ![w] = IF Selected(c) = {} THEN "returned" ELSE "poll"]
  /\ hasError' = [hasError EXCEPT ![w] = FALSE]
  /\ exception' = [exception EXCEPT ![w] = FALSE]
  /\ UNCHANGED <<maps, status, spc, polls, jobs, handlerVars, dpc, cpc>>

(* The batcher cuts the results, in their order, into requests.            *)
Before(r, S) == Cardinality({q \in S : q < r})
Batches(S) == {{r \in S : Before(r, S) \div WaitBatchSize = Before(q, S) \div WaitBatchSize} : q \in S}

Poll(w) ==
  /\ wpc[w] = "poll"
  /\ polls' = [polls EXCEPT ![w] = Batches(DOMAIN results[w])]
  /\ wpc' = [wpc EXCEPT ![w] = "polling"]
  /\ UNCHANGED <<maps, status, spc, asked, snapshot, results, jobs, hasError,
                 exception, handlerVars, dpc, cpc>>

(* One request lists the results of a batch; those that the control plane  *)
(* does not know keep the status they have.                                *)
PollBatch(w, b) ==
  /\ b \in polls[w]
  /\ polls' = [polls EXCEPT ![w] = @ \ {b}]
  /\ \/ /\ results' = [results EXCEPT ![w] = [r \in DOMAIN @ |->
             IF r \in b /\ status[r] # "NOTFOUND" THEN status[r] ELSE @[r]]]
        /\ UNCHANGED exception
     \/ /\ "poll" \in Failures
        /\ exception' = [exception EXCEPT ![w] = TRUE]
        /\ UNCHANGED results
  /\ UNCHANGED <<maps, status, spc, wpc, asked, snapshot, jobs, hasError,
                 handlerVars, dpc, cpc>>

(* Wait has returned: every result that is not in the CREATED state is     *)
(* moved into a task of the join set, the others are NOTFOUND until the    *)
(* next poll says otherwise.                                               *)
NewJob(w, r) == [w |-> w, r |-> r, status |-> results[w][r], step |-> "extract", handler |-> FALSE]
(* Mutant: results that are not ready keep their status.                   *)
NotReset(w, pending) == [r \in pending |-> results[w][r]]
Reset(w, pending) == [r \in pending |-> "NOTFOUND"]

Dispatch(w) ==
  /\ wpc[w] = "polling" /\ polls[w] = {} /\ ~exception[w]
  /\ LET pending == {r \in DOMAIN results[w] : results[w][r] = "CREATED"}
     IN  /\ jobs' = jobs \cup {NewJob(w, r) : r \in DOMAIN results[w] \ pending}
         /\ results' = [results EXCEPT ![w] = Reset(w, pending)]
  /\ wpc' = [wpc EXCEPT ![w] = "handling"]
  /\ UNCHANGED <<maps, status, spc, asked, snapshot, polls, hasError, exception,
                 handlerVars, dpc, cpc>>

JobsOf(w) == {j \in jobs : j.w = w}

(* Wait has returned again: leave, or sleep and loop.                      *)
(* Mutant: a call that waits for all tasks leaves after the first.         *)
SatisfiedByFirst(w) ==
  \/ Cardinality(DOMAIN results[w]) < Cardinality(snapshot[w])
  \/ asked[w].break /\ hasError[w]
  \/ DOMAIN results[w] = {}
Satisfied(w) ==
  \/ asked[w].any /\ Cardinality(DOMAIN results[w]) < Cardinality(snapshot[w])
  \/ asked[w].break /\ hasError[w]
  \/ DOMAIN results[w] = {}

Return(w) ==
  /\ wpc[w] = "handling" /\ JobsOf(w) = {} /\ ~exception[w]
  /\ Satisfied(w) \/ asked[w].limited
  /\ wpc' = [wpc EXCEPT ![w] = "returned"]
  /\ UNCHANGED <<maps, status, spc, asked, snapshot, results, polls, jobs,
                 hasError, exception, handlerVars, dpc, cpc>>

Again(w) ==
  /\ wpc[w] = "handling" /\ JobsOf(w) = {} /\ ~exception[w]
  /\ ~Satisfied(w)
  /\ wpc' = [wpc EXCEPT ![w] = "poll"]
  /\ UNCHANGED <<maps, status, spc, asked, snapshot, results, polls, jobs,
                 hasError, exception, handlerVars, dpc, cpc>>

(* Wait rethrows an exception; the join set is destroyed, and waits for    *)
(* its other tasks, before WaitResults throws.                             *)
Unwind(w) ==
  /\ wpc[w] \in {"polling", "handling"} /\ exception[w]
  /\ polls[w] = {} /\ JobsOf(w) = {}
  /\ wpc' = [wpc EXCEPT ![w] = "thrown"]
  /\ UNCHANGED <<maps, status, spc, asked, snapshot, results, polls, jobs,
                 hasError, exception, handlerVars, dpc, cpc>>

-----------------------------------------------------------------------------
(* The task that handles one result.                                       *)
Goto(j, step) == jobs' = (jobs \ {j}) \cup {[j EXCEPT !.step = step]}
End(j) == jobs' = jobs \ {j}

(* Under the lock, the handler and the task id are moved out of the maps.  *)
FirstStep(j) == IF j.status = "COMPLETED" THEN "download" ELSE "error"
(* Mutant: the handler is copied and stays in the map.                     *)
CopyHandler(j) == UNCHANGED result_handlers
TakeHandler(j) == result_handlers' = result_handlers \ {j.r}

Extract(j) ==
  /\ j.step = "extract"
  /\ jobs' = (jobs \ {j}) \cup
       {[j EXCEPT !.step = FirstStep(j), !.handler = j.r \in result_handlers]}
  /\ TakeHandler(j)
  /\ resultId_taskId' = resultId_taskId \ {j.r}
  /\ taskId_resultId' = IF j.r \in resultId_taskId THEN taskId_resultId \ {j.r}
                                                   ELSE taskId_resultId
  /\ UNCHANGED <<status, spc, waitVars, handlerVars, dpc, cpc>>

Download(j) ==
  /\ j.step = "download"
  /\ \/ status[j.r] = "COMPLETED" /\ Goto(j, "respond")
     \/ /\ status[j.r] # "COMPLETED" \/ "download" \in Failures
        /\ Goto(j, "failed")
  /\ UNCHANGED <<maps, status, spc, waitVars, handlerVars, dpc, cpc>>

(* handle_error: the error is noted; the handler, if this task has it, is  *)
(* told, and whatever it throws is swallowed.                              *)
HandleError(j) ==
  /\ hasError' = [hasError EXCEPT ![j.w] = TRUE]
  /\ IF j.handler
     THEN errors' = [errors EXCEPT ![j.r] = @ + 1]
     ELSE UNCHANGED errors

(* After a failed download the handler is told, and called all the same.   *)
(* Mutant: the task gives up instead.                                      *)
DownloadGivenUp(j) ==
  /\ j.step = "failed"
  /\ End(j)
  /\ UNCHANGED <<maps, status, spc, waitVars, handlerVars, dpc, cpc>>
DownloadFailed(j) ==
  /\ j.step = "failed"
  /\ HandleError(j)
  /\ Goto(j, "respond_empty")
  /\ UNCHANGED <<maps, status, spc, wpc, asked, snapshot, results, polls,
                 exception, responses, dpc, cpc>>

(* IServiceInvocationHandler::HandleResponse returns, throws an            *)
(* std::exception, as those that are not overridden do, or throws          *)
(* something else, which ends the task with an exception.                  *)
HandleResponse(j) ==
  /\ responses' = [responses EXCEPT ![j.r] = @ + 1]
  /\ \/ End(j) /\ UNCHANGED exception
     \/ "throw" \in Failures /\ Goto(j, "error") /\ UNCHANGED exception
     \/ "escape" \in Failures /\ End(j) /\ exception' = [exception EXCEPT ![j.w] = TRUE]

Respond(j) ==
  /\ j.step \in {"respond", "respond_empty"} /\ j.handler
  /\ HandleResponse(j)
  /\ UNCHANGED <<maps, status, spc, wpc, asked, snapshot, results, polls,
                 hasError, errors, dpc, cpc>>

NoHandler(j) ==
  /\ j.step \in {"respond", "respond_empty"} /\ ~j.handler
  /\ End(j)
  /\ UNCHANGED <<maps, status, spc, waitVars, handlerVars, dpc, cpc>>

(* An aborted, deleted, missing or unknown result, or a handler that threw.*)
(* Mutant: the handler is told of aborted results only.                    *)
ReportAborted(j) ==
  /\ j.step = "error"
  /\ IF j.status \in {"COMPLETED", "ABORTED"} THEN HandleError(j)
                                              ELSE UNCHANGED <<hasError, errors>>
  /\ End(j)
  /\ UNCHANGED <<maps, status, spc, wpc, asked, snapshot, results, polls,
                 exception, responses, dpc, cpc>>
Report(j) ==
  /\ j.step = "error"
  /\ HandleError(j)
  /\ End(j)
  /\ UNCHANGED <<maps, status, spc, wpc, asked, snapshot, results, polls,
                 exception, responses, dpc, cpc>>

-----------------------------------------------------------------------------
(* DropSession and CleanupTasks.  Their documentation leaves tasks that    *)
(* have not ended undefined, so they are called for ended tasks only.      *)
Ended(R) == \A r \in R : status[r] # "CREATED"

DropMaps ==
  /\ MayDrop /\ dpc = "idle"
  /\ \A s \in Submitters : spc[s] \in {"registered", "failed"}
  /\ Ended(Results)
  /\ result_handlers' = {} /\ resultId_taskId' = {} /\ taskId_resultId' = {}
  /\ dpc' = "cleared"
  /\ UNCHANGED <<status, spc, waitVars, jobs, handlerVars, cpc>>

DropCancel ==
  /\ dpc = "cleared"
  /\ dpc' \in {"cancelled"} \cup (IF "cancel" \in Failures THEN {"failed"} ELSE {})
  /\ UNCHANGED <<maps, status, spc, waitVars, jobs, handlerVars, cpc>>

Deleted(R) == [r \in Results |-> IF r \in R /\ status[r] = "COMPLETED" THEN "DELETED" ELSE status[r]]

(* The data of every result is deleted, page by page; a page that cannot   *)
(* be deleted is left, one that cannot be listed ends the call.            *)
DropData ==
  /\ dpc = "cancelled"
  /\ \/ status' = Deleted(Results) /\ dpc' = "done"
     \/ /\ "delete" \in Failures
        /\ \E R \in SUBSET Results : status' = Deleted(R)
        /\ dpc' \in {"done", "failed"}
  /\ UNCHANGED <<maps, spc, waitVars, jobs, handlerVars, cpc>>

Known == Cleaned \cap taskId_resultId

(* Mutant: CleanupTasks keeps the handlers.                                *)
ForgetTasksOnly ==
  /\ resultId_taskId' = resultId_taskId \ Known
  /\ taskId_resultId' = taskId_resultId \ Known
  /\ UNCHANGED result_handlers
Forget ==
  /\ resultId_taskId' = resultId_taskId \ Known
  /\ result_handlers' = result_handlers \ Known
  /\ taskId_resultId' = taskId_resultId \ Known

CleanupMaps ==
  /\ Cleaned # {} /\ cpc = "idle"
  /\ Ended(Cleaned) /\ \A s \in Submitters : spc[s] \in {"registered", "failed"}
  /\ Forget
  /\ cpc' = "cleared"
  /\ UNCHANGED <<status, spc, waitVars, jobs, handlerVars, dpc>>

CleanupData ==
  /\ cpc = "cleared"
  /\ \/ status' = Deleted(Cleaned) /\ cpc' = "done"
     \/ /\ {"cancel", "delete"} \cap Failures # {}
        /\ \E R \in SUBSET Cleaned : status' = Deleted(R)
        /\ cpc' = "failed"
  /\ UNCHANGED <<maps, spc, waitVars, jobs, handlerVars, dpc>>

-----------------------------------------------------------------------------
Job(j) ==
  \/ Extract(j) \/ Download(j) \/ DownloadFailed(j)
  \/ Respond(j) \/ NoHandler(j) \/ Report(j)

WaiterStep(w) ==
  \/ Poll(w) \/ Dispatch(w) \/ Return(w) \/ Again(w) \/ Unwind(w)
  \/ \E b \in polls[w] : PollBatch(w, b)
  \/ \E j \in JobsOf(w) : Job(j)

Next ==
  \/ \E r \in Results : Finish(r)
  \/ \E s \in Submitters : SubmitTasks(s) \/ Register(s)
  \/ \E w \in Waiters : Start(w) \/ WaiterStep(w)
  \/ DropMaps \/ DropCancel \/ DropData \/ CleanupMaps \/ CleanupData

Spec == Init /\ [][Next]_vars

(* Threads are scheduled fairly, requests return, handlers return, and the *)
(* control plane ends every task.                                          *)
FairSpec ==
  /\ Spec
  /\ \A r \in Results : WF_vars(Finish(r))
  /\ \A w \in Waiters : WF_vars(WaiterStep(w))

-----------------------------------------------------------------------------
Registered == UNION {Batch[s] : s \in {s \in Submitters : spc[s] = "registered"}}
Held(r) == \E j \in jobs : j.r = r /\ j.handler
Called(r) == responses[r] + errors[r] > 0

(* The variables are of their types, and the three maps know the same      *)
(* results whenever nobody holds the lock.                                 *)
TypeOK ==
  /\ result_handlers \subseteq Results
  /\ resultId_taskId = result_handlers /\ taskId_resultId = result_handlers
  /\ status \in [Results -> Ready \cup {"NOTFOUND", "CREATED"}]
  /\ wpc \in [Waiters -> {"idle", "poll", "polling", "handling", "returned", "thrown"}]
  /\ \A w \in Waiters :
       /\ asked[w] \in Calls \cup {NoCall}
       /\ DOMAIN results[w] \subseteq snapshot[w]
       /\ polls[w] \subseteq SUBSET snapshot[w]
  /\ \A j \in jobs : j.w \in Waiters /\ j.r \in snapshot[j.w]
  /\ hasError \in [Waiters -> BOOLEAN] /\ exception \in [Waiters -> BOOLEAN]

(* However many threads wait for the same result, its HandleResponse is    *)
(* called at most once, one of them at most has its handler, and while it  *)
(* is registered nobody has called that handler.                           *)
HandledByOne ==
  \A r \in Results :
    /\ responses[r] <= 1
    /\ Cardinality({j \in jobs : j.r = r /\ j.handler}) <= 1
    /\ r \in result_handlers => ~Held(r) /\ ~Called(r)

(* The client implements Delivery: a registered result is never lost, one  *)
(* that a waiter has taken is answered by it, whatever fails.              *)
Stage(r) ==
  CASE r \notin Registered    -> "new"
    [] r \in result_handlers  -> "registered"
    [] r \in Registered \ result_handlers /\ Called(r) -> "answered"
    [] r \in Registered \ result_handlers /\ ~Called(r) /\ Held(r) -> "claimed"
    [] OTHER -> "discarded"
stages == [r \in Results |-> Stage(r)]
D == INSTANCE Delivery WITH stage <- stages
DeliverySteps == D!Init /\ [][D!Next]_stages
DeliverySpec == D!Spec

(* A call that waits for all of its tasks and returns leaves no handler of *)
(* them in the map: each was called, or taken by another waiter, or        *)
(* discarded.                                                              *)
ReturnedHandled ==
  \A w \in Waiters :
    wpc[w] = "returned" /\ ~asked[w].any /\ ~asked[w].break /\ ~asked[w].limited
      => snapshot[w] \cap result_handlers = {}

(* A wait for all tasks comes to an end once the tasks do, even if results *)
(* disappear on the way.                                                   *)
WaitEnds ==
  \A w \in Waiters : wpc[w] = "poll" ~> wpc[w] \in {"returned", "thrown"}

(* 3.end2end.md: HandleError is called once per task.                      *)
ErrorAtMostOnce == \A r \in Results : errors[r] <= 1
=============================================================================
