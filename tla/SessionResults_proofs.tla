----------------------- MODULE SessionResults_proofs -----------------------
(***************************************************************************)
(* Theorems about the results of a session, for any results, submissions,  *)
(* waiters, calls and failures: each result is handled by one waiter, and  *)
(* the client takes only the steps that module Delivery promises.          *)
(***************************************************************************)
EXTENDS SessionResults, FiniteSetTheorems, TLAPS

USE DEF vars, maps, waitVars, handlerVars

IsJob(j) ==
  /\ j = [w |-> j.w, r |-> j.r, status |-> j.status, step |-> j.step, handler |-> j.handler]
  /\ j.w \in Waiters /\ j.r \in Results /\ j.handler \in BOOLEAN

Shapes ==
  /\ spc \in [Submitters -> {"idle", "submitted", "failed", "registered"}]
  /\ DOMAIN results = Waiters
  /\ \A w \in Waiters : DOMAIN results[w] \subseteq Results
  /\ responses \in [Results -> Nat] /\ errors \in [Results -> Nat]
  /\ \A j \in jobs : IsJob(j)

(* A handler is in the map, or with one task of a join set, or has been    *)
(* called or discarded; a task that still has to call HandleResponse is    *)
(* the first to do so.                                                     *)
Claims ==
  /\ result_handlers \subseteq Registered
  /\ \A j \in jobs : j.handler =>
       /\ j.step # "extract" /\ j.r \in Registered \ result_handlers
       /\ j.step # "error" => responses[j.r] = 0
  /\ \A j, k \in jobs : j.handler /\ k.handler /\ j.r = k.r => j = k
  /\ \A r \in Results :
       /\ Called(r) => r \in Registered \ result_handlers
       /\ responses[r] <= 1

ClaimsInv == Shapes /\ Claims

LEMMA RegisteredBy ==
  \A r : r \in Registered <=> \E s \in Submitters : spc[s] = "registered" /\ r \in Batch[s]
  BY DEF Registered

LEMMA RegisteredByNext ==
  \A r : r \in Registered' <=> \E s \in Submitters : spc'[s] = "registered" /\ r \in Batch[s]
  BY DEF Registered

LEMMA RegisteredAreResults == Registered \subseteq Results
  BY RegisteredBy, BatchAssumption

LEMMA Stepped ==
  ASSUME NEW j, IsJob(j), NEW step
  PROVE  LET k == [j EXCEPT !.step = step] IN
         IsJob(k) /\ k.r = j.r /\ k.handler = j.handler /\ k.step = step
<1>1. [j EXCEPT !.step = step]
        = [w |-> j.w, r |-> j.r, status |-> j.status, step |-> step, handler |-> j.handler]
  BY DEF IsJob
<1> QED BY <1>1 DEF IsJob

LEMMA Taken ==
  ASSUME NEW j, IsJob(j), NEW step, NEW handler
  PROVE  [j EXCEPT !.step = step, !.handler = handler]
           = [w |-> j.w, r |-> j.r, status |-> j.status, step |-> step, handler |-> handler]
<1> DEFINE i == [j EXCEPT !.step = step]
<1>1. i = [w |-> j.w, r |-> j.r, status |-> j.status, step |-> step, handler |-> j.handler]
  BY DEF IsJob
<1>2. [j EXCEPT !.step = step, !.handler = handler] = [i EXCEPT !.handler = handler]
  OBVIOUS
<1>3. [i EXCEPT !.handler = handler]
        = [w |-> j.w, r |-> j.r, status |-> j.status, step |-> step, handler |-> handler]
  <2> HIDE DEF i
  <2> QED BY <1>1
<1> QED BY <1>2, <1>3

LEMMA ClaimsInit == Init => ClaimsInv
<1> SUFFICES ASSUME Init PROVE ClaimsInv
  OBVIOUS
<1>1. Shapes BY DEF Init, Shapes, NoResults
<1>2. \A r \in Results : responses[r] = 0 /\ errors[r] = 0 BY DEF Init
<1>3. Claims BY <1>2 DEF Init, Claims, Called
<1> QED BY <1>1, <1>3 DEF ClaimsInv

LEMMA SelectedAreResults ==
  ASSUME Claims, NEW c \in Calls
  PROVE  Selected(c) \subseteq Results
<1>1. c.ids \subseteq Results BY CallAssumption
<1> QED BY <1>1, RegisteredAreResults DEF Claims, Selected

(* The steps that neither touch the handlers nor the tasks that have them. *)
Elsewhere ==
  /\ UNCHANGED <<result_handlers, jobs, responses, errors>>
  /\ \A s \in Submitters : spc'[s] = "registered" <=> spc[s] = "registered"

LEMMA ClaimsElsewhere ==
  ASSUME Claims, Elsewhere
  PROVE  Claims'
<1>1. Registered' = Registered BY RegisteredBy, RegisteredByNext DEF Elsewhere
<1> QED BY <1>1 DEF Claims, Elsewhere, Called

LEMMA JobCounts ==
  ASSUME Shapes, NEW j \in jobs, Job(j)
  PROVE  responses' \in [Results -> Nat] /\ errors' \in [Results -> Nat]
<1>1. j.r \in Results BY DEF Shapes, IsJob
<1>2. ASSUME HandleError(j) PROVE errors' \in [Results -> Nat]
  BY <1>1, <1>2 DEF HandleError, Shapes
<1>3. CASE Extract(j) \/ Download(j) \/ NoHandler(j)
  BY <1>3 DEF Extract, Download, NoHandler, Shapes
<1>4. CASE DownloadFailed(j) BY <1>2, <1>4 DEF DownloadFailed, Shapes
<1>5. CASE Report(j) BY <1>2, <1>5 DEF Report, Shapes
<1>6. CASE Respond(j)
  <2>1. responses' = [responses EXCEPT ![j.r] = @ + 1] /\ errors' = errors
    BY <1>6 DEF Respond, HandleResponse
  <2> QED BY <1>1, <2>1 DEF Shapes
<1> QED BY <1>3, <1>4, <1>5, <1>6 DEF Job

(* A task of a join set replaces itself by its next step, or ends.         *)
LEMMA JobMoves ==
  ASSUME Shapes, NEW j \in jobs, Job(j), NEW k \in jobs' \ jobs
  PROVE  /\ IsJob(k) /\ k.r = j.r
         /\ jobs' = (jobs \ {j}) \cup {k}
         /\ Extract(j) => k.handler = (j.r \in result_handlers) /\ k.step # "extract"
         /\ ~Extract(j) => k.handler = j.handler
         /\ Download(j) \/ DownloadFailed(j) => k.step # "extract"
         /\ Respond(j) \/ Report(j) => k.step = "error"
<1> USE DEF Shapes
<1>1. CASE Extract(j)
  <2> DEFINE known == j.r \in result_handlers
  <2>1. k = [j EXCEPT !.step = FirstStep(j), !.handler = known]
    BY <1>1 DEF Extract
  <2>2. FirstStep(j) # "extract" /\ j.step = "extract" BY <1>1 DEF FirstStep, Extract
  <2>3. known \in BOOLEAN OBVIOUS
  <2>4. IsJob(k) /\ k.r = j.r /\ k.handler = known /\ k.step = FirstStep(j)
    <3> HIDE DEF known
    <3>1. IsJob(j) OBVIOUS
    <3>2. k = [w |-> j.w, r |-> j.r, status |-> j.status, step |-> FirstStep(j),
               handler |-> known]
      BY <2>1, <3>1, Taken
    <3> QED BY <2>3, <3>1, <3>2 DEF IsJob
  <2>5. jobs' = (jobs \ {j}) \cup {k} BY <1>1, <2>1 DEF Extract
  <2> QED BY <1>1, <2>2, <2>4, <2>5
          DEF Download, DownloadFailed, Respond, Report
<1>2. ASSUME NEW step, jobs' = (jobs \ {j}) \cup {[j EXCEPT !.step = step]}
      PROVE  /\ IsJob(k) /\ k.r = j.r /\ k.handler = j.handler /\ k.step = step
             /\ jobs' = (jobs \ {j}) \cup {k}
  <2>1. k = [j EXCEPT !.step = step] BY <1>2
  <2>2. IsJob(k) /\ k.r = j.r /\ k.handler = j.handler /\ k.step = step
    BY <2>1, Stepped
  <2> QED BY <1>2, <2>1, <2>2
<1>3. CASE Download(j)
  BY <1>2, <1>3 DEF Download, Goto, Extract, Respond, Report
<1>4. CASE DownloadFailed(j)
  BY <1>2, <1>4 DEF DownloadFailed, Goto, Extract, Respond, Report
<1>5. CASE Respond(j)
  BY <1>2, <1>5 DEF Respond, HandleResponse, Goto, End, Extract, Download, DownloadFailed
<1>6. CASE NoHandler(j) \/ Report(j)
  BY <1>6 DEF NoHandler, Report, End
<1> QED BY <1>1, <1>3, <1>4, <1>5, <1>6 DEF Job

LEMMA ShapesNext == Shapes /\ Claims /\ [Next]_vars => Shapes'
<1> SUFFICES ASSUME Shapes, Claims, [Next]_vars PROVE Shapes'
  OBVIOUS
<1>1. CASE \E r \in Results : Finish(r)
  BY <1>1 DEF Finish, Shapes
<1>2. CASE \E s \in Submitters : SubmitTasks(s) \/ Register(s)
  <2>1. spc' \in [Submitters -> {"idle", "submitted", "failed", "registered"}]
    BY <1>2 DEF SubmitTasks, Register, Shapes
  <2>2. UNCHANGED <<results, responses, errors, jobs>>
    BY <1>2 DEF SubmitTasks, Register
  <2> QED BY <2>1, <2>2 DEF Shapes
<1>3. ASSUME NEW w \in Waiters, Start(w) PROVE Shapes'
  <2>1. PICK c \in Calls :
          results' = [results EXCEPT ![w] = [r \in Selected(c) |-> "NOTFOUND"]]
    BY <1>3 DEF Start
  <2>2. Selected(c) \subseteq Results BY SelectedAreResults
  <2>3. /\ DOMAIN results' = Waiters
        /\ \A v \in Waiters : DOMAIN results'[v] \subseteq Results
    BY <2>1, <2>2 DEF Shapes
  <2>4. UNCHANGED <<spc, responses, errors, jobs>> BY <1>3 DEF Start
  <2> QED BY <2>3, <2>4 DEF Shapes
<1>4. ASSUME NEW w \in Waiters, Poll(w) \/ Return(w) \/ Again(w) \/ Unwind(w)
      PROVE  Shapes'
  BY <1>4 DEF Poll, Return, Again, Unwind, Shapes
<1>5. ASSUME NEW w \in Waiters, NEW b \in polls[w], PollBatch(w, b) PROVE Shapes'
  <2>1. UNCHANGED <<spc, responses, errors, jobs>> BY <1>5 DEF PollBatch
  <2>2. /\ DOMAIN results' = Waiters
        /\ \A v \in Waiters : DOMAIN results'[v] = DOMAIN results[v]
    BY <1>5 DEF PollBatch, Shapes
  <2> QED BY <2>1, <2>2 DEF Shapes
<1>6. ASSUME NEW w \in Waiters, Dispatch(w) PROVE Shapes'
  <2>1. UNCHANGED <<spc, responses, errors>> BY <1>6 DEF Dispatch
  <2> DEFINE pending == {r \in DOMAIN results[w] : results[w][r] = "CREATED"}
  <2>2. /\ jobs' = jobs \cup {NewJob(w, r) : r \in DOMAIN results[w] \ pending}
        /\ results' = [results EXCEPT ![w] = Reset(w, pending)]
    BY <1>6 DEF Dispatch
  <2>3. /\ DOMAIN results' = Waiters
        /\ \A v \in Waiters : DOMAIN results'[v] \subseteq Results
    BY <2>2 DEF Shapes, Reset
  <2>4. \A r \in DOMAIN results[w] : IsJob(NewJob(w, r))
    BY DEF Shapes, IsJob, NewJob
  <2>5. \A j \in jobs' : IsJob(j) BY <2>2, <2>4 DEF Shapes
  <2> QED BY <2>1, <2>3, <2>5 DEF Shapes
<1>7. ASSUME NEW j \in jobs, Job(j) PROVE Shapes'
  <2>1. IsJob(j) BY DEF Shapes
  <2>2. UNCHANGED <<spc, results>>
    BY <1>7 DEF Job, Extract, Download, DownloadFailed, Respond, NoHandler, Report
  <2>3. responses' \in [Results -> Nat] /\ errors' \in [Results -> Nat]
    BY <1>7, <2>1, JobCounts
  <2>4. \A k \in jobs' \ jobs : IsJob(k) BY <1>7, <2>1, JobMoves
  <2> QED BY <2>2, <2>3, <2>4 DEF Shapes
<1>8. CASE DropMaps \/ DropCancel \/ DropData \/ CleanupMaps \/ CleanupData
  BY <1>8 DEF DropMaps, DropCancel, DropData, CleanupMaps, CleanupData, Shapes
<1>9. CASE UNCHANGED vars BY <1>9 DEF Shapes
<1> QED BY <1>1, <1>2, <1>3, <1>4, <1>5, <1>6, <1>7, <1>8, <1>9
        DEF Next, WaiterStep, JobsOf

LEMMA NewlyRegistered ==
  ASSUME Shapes, NEW s \in Submitters, Register(s)
  PROVE  Registered' = Registered \cup Batch[s] /\ Batch[s] \cap Registered = {}
<1>1. spc[s] # "registered" /\ spc'[s] = "registered"
      /\ \A t \in Submitters \ {s} : spc'[t] = spc[t]
  BY DEF Register, Shapes
<1>2. Registered' = Registered \cup Batch[s]
  BY <1>1, RegisteredBy, RegisteredByNext
<1>3. Batch[s] \cap Registered = {}
  BY <1>1, RegisteredBy, BatchAssumption
<1> QED BY <1>2, <1>3

LEMMA SameRegistered ==
  ASSUME spc' = spc
  PROVE  Registered' = Registered
  BY RegisteredBy, RegisteredByNext

LEMMA JobLeaves ==
  ASSUME Shapes, NEW j \in jobs, Job(j)
  PROVE  j \notin jobs'
<1>1. IsJob(j) BY DEF Shapes
<1>2. ASSUME NEW step, j.step # step PROVE j # [j EXCEPT !.step = step]
  BY <1>1, <1>2, Stepped
<1>3. CASE Extract(j)
  <2>1. j.step = "extract" /\ FirstStep(j) # "extract" BY <1>3 DEF Extract, FirstStep
  <2>2. j # [j EXCEPT !.step = FirstStep(j), !.handler = j.r \in result_handlers]
    <3> DEFINE known == j.r \in result_handlers
    <3> HIDE DEF known
    <3>1. [j EXCEPT !.step = FirstStep(j), !.handler = known]
            = [w |-> j.w, r |-> j.r, status |-> j.status, step |-> FirstStep(j),
               handler |-> known]
      BY <1>1, Taken
    <3>2. j # [j EXCEPT !.step = FirstStep(j), !.handler = known] BY <2>1, <3>1
    <3> QED BY <3>2 DEF known
  <2> QED BY <1>3, <2>2 DEF Extract
<1>4. CASE Download(j) BY <1>2, <1>4 DEF Download, Goto
<1>5. CASE DownloadFailed(j) BY <1>2, <1>5 DEF DownloadFailed, Goto
<1>6. CASE Respond(j)
  <2>1. j.step # "error" BY <1>6 DEF Respond
  <2>2. jobs' = jobs \ {j} \/ jobs' = (jobs \ {j}) \cup {[j EXCEPT !.step = "error"]}
    BY <1>6 DEF Respond, HandleResponse, Goto, End
  <2> QED BY <1>2, <2>1, <2>2
<1>7. CASE NoHandler(j) \/ Report(j) BY <1>7 DEF NoHandler, Report, End
<1> QED BY <1>3, <1>4, <1>5, <1>6, <1>7 DEF Job

LEMMA ClaimsJob ==
  ASSUME Shapes, Claims, NEW j \in jobs, Job(j)
  PROVE  Claims'
<1>1. IsJob(j) BY DEF Shapes
<1>2. Registered' = Registered
  BY SameRegistered DEF Job, Extract, Download, DownloadFailed, Respond, NoHandler, Report
<1>3. \A r \in Results : responses[r] \in Nat /\ errors[r] \in Nat BY DEF Shapes
<1>4. jobs' \subseteq jobs \/ \E k \in jobs' \ jobs : jobs' = (jobs \ {j}) \cup {k}
  BY JobMoves
<1>5. CASE Extract(j)
  <2>1. ~j.handler BY <1>5 DEF Extract, Claims
  <2>2. UNCHANGED <<responses, errors>> /\ result_handlers' = result_handlers \ {j.r}
    BY <1>5 DEF Extract, TakeHandler
  <2>3. j.r \in result_handlers => responses[j.r] = 0 /\ j.r \in Registered
    BY <1>1, <1>3 DEF Claims, Called, IsJob
  <2>4. ASSUME NEW k \in jobs' \ jobs
        PROVE  /\ k.r = j.r /\ k.handler = (j.r \in result_handlers)
               /\ k.step # "extract"
    BY <1>5, JobMoves
  <2>5. ASSUME NEW i \in jobs', i.handler
        PROVE  /\ i.step # "extract" /\ i.r \in Registered \ result_handlers'
               /\ i.step # "error" => responses[i.r] = 0
    <3>1. CASE i \in jobs BY <2>2, <2>5, <3>1 DEF Claims
    <3>2. CASE i \notin jobs BY <2>2, <2>3, <2>4, <2>5, <3>2
    <3> QED BY <3>1, <3>2
  <2>6. ASSUME NEW i \in jobs', NEW k \in jobs', i.handler, k.handler, i.r = k.r
        PROVE  i = k
    <3>1. CASE i \in jobs /\ k \in jobs BY <2>6, <3>1 DEF Claims
    <3>2. CASE i \notin jobs /\ k \in jobs
      BY <2>4, <2>6, <3>2 DEF Claims
    <3>3. CASE i \in jobs /\ k \notin jobs
      BY <2>4, <2>6, <3>3 DEF Claims
    <3>4. CASE i \notin jobs /\ k \notin jobs BY <1>4, <3>4
    <3> QED BY <3>1, <3>2, <3>3, <3>4
  <2>7. \A r \in Results : (Called(r))' <=> Called(r) BY <2>2 DEF Called
  <2> QED BY <1>2, <2>2, <2>5, <2>6, <2>7 DEF Claims
<1>6. CASE ~Extract(j)
  <2>1. result_handlers' = result_handlers
    BY <1>6 DEF Job, Download, DownloadFailed, Respond, NoHandler, Report
  <2>2. ASSUME ~j.handler PROVE UNCHANGED <<responses, errors>>
    BY <1>6, <2>2 DEF Job, Download, DownloadFailed, Respond, NoHandler, Report, HandleError
  <2>3. ASSUME NEW r \in Results, r # j.r
        PROVE  responses'[r] = responses[r] /\ errors'[r] = errors[r]
    <3>1. ASSUME HandleError(j) PROVE errors'[r] = errors[r]
      BY <2>3, <3>1 DEF HandleError, Shapes
    <3>2. CASE Respond(j)
      <4>1. responses' = [responses EXCEPT ![j.r] = @ + 1] /\ errors' = errors
        BY <3>2 DEF Respond, HandleResponse
      <4> QED BY <2>3, <4>1 DEF Shapes
    <3> QED BY <1>6, <3>1, <3>2 DEF Job, Download, DownloadFailed, NoHandler, Report
  <2>4. ASSUME j.handler
        PROVE  responses'[j.r] <= 1 /\ (~Respond(j) => responses' = responses)
    <3>1. ~Respond(j) => responses' = responses
      BY <1>6 DEF Job, Download, DownloadFailed, NoHandler, Report
    <3>2. CASE Respond(j)
      <4>1. responses' = [responses EXCEPT ![j.r] = @ + 1]
        BY <3>2 DEF Respond, HandleResponse
      <4>2. responses[j.r] = 0 BY <2>4, <3>2 DEF Respond, Claims
      <4> QED BY <1>1, <4>1, <4>2, <3>2 DEF Shapes, IsJob
    <3> QED BY <1>1, <3>1, <3>2 DEF Claims, IsJob
  <2>5. ASSUME NEW k \in jobs' \ jobs
        PROVE  /\ k.r = j.r /\ k.handler = j.handler
               /\ k.step # "error" => ~Respond(j) /\ j.step # "error"
               /\ k.handler => k.step # "extract"
    <3>1. Respond(j) \/ Report(j) => k.step = "error" BY JobMoves
    <3>2. NoHandler(j) => FALSE BY DEF NoHandler, End
    <3>3. Download(j) \/ DownloadFailed(j) => k.step # "extract" /\ j.step # "error"
      BY JobMoves DEF Download, DownloadFailed
    <3>4. k.r = j.r /\ k.handler = j.handler BY <1>6, JobMoves
    <3>5. Download(j) => ~Respond(j) BY DEF Download, Respond
    <3>6. DownloadFailed(j) => ~Respond(j) BY DEF DownloadFailed, Respond
    <3> QED BY <1>6, <3>1, <3>2, <3>3, <3>4, <3>5, <3>6 DEF Job
  <2>6. ASSUME NEW i \in jobs', NEW k \in jobs', i.handler, k.handler, i.r = k.r
        PROVE  i = k
    <3>1. CASE i \in jobs /\ k \in jobs BY <2>6, <3>1 DEF Claims
    <3>2. CASE i \notin jobs /\ k \in jobs
      BY <1>4, <2>5, <2>6, <3>2 DEF Claims
    <3>3. CASE i \in jobs /\ k \notin jobs
      BY <1>4, <2>5, <2>6, <3>3 DEF Claims
    <3>4. CASE i \notin jobs /\ k \notin jobs BY <1>4, <3>4
    <3> QED BY <3>1, <3>2, <3>3, <3>4
  <2>7. ASSUME NEW i \in jobs', i.handler
        PROVE  /\ i.step # "extract" /\ i.r \in Registered \ result_handlers
               /\ i.step # "error" => responses'[i.r] = 0
    <3>1. CASE i \notin jobs
      BY <1>1, <2>4, <2>5, <2>7, <3>1 DEF Claims
    <3>2. CASE i \in jobs /\ i.r # j.r
      BY <2>3, <2>7, <3>2 DEF Claims, Shapes, IsJob
    <3>3. CASE i \in jobs /\ i.r = j.r /\ ~j.handler
      BY <2>2, <2>7, <3>3 DEF Claims
    <3>4. CASE i \in jobs /\ i.r = j.r /\ j.handler
      <4>1. i = j BY <2>7, <3>4 DEF Claims
      <4> QED BY <2>7, <4>1, JobLeaves
    <3> QED BY <3>1, <3>2, <3>3, <3>4
  <2>8. ASSUME NEW r \in Results
        PROVE  /\ (Called(r))' => r \in Registered \ result_handlers
               /\ responses'[r] <= 1
    <3>1. CASE r # j.r BY <2>3, <3>1 DEF Called, Claims
    <3>2. CASE r = j.r /\ ~j.handler BY <2>2, <3>2 DEF Called, Claims
    <3>3. CASE r = j.r /\ j.handler BY <2>4, <3>3 DEF Claims
    <3> QED BY <3>1, <3>2, <3>3
  <2> QED BY <1>2, <2>1, <2>6, <2>7, <2>8 DEF Claims
<1> QED BY <1>5, <1>6

LEMMA ElsewhereSteps ==
  ASSUME Shapes, [Next]_vars,
         \A s \in Submitters : ~Register(s),
         \A w \in Waiters : ~Dispatch(w),
         \A j \in jobs : ~Job(j),
         ~DropMaps, ~CleanupMaps
  PROVE  Elsewhere
<1>1. ASSUME NEW s \in Submitters, SubmitTasks(s) PROVE Elsewhere
  <2>1. \A t \in Submitters : spc'[t] = "registered" <=> spc[t] = "registered"
    BY <1>1 DEF SubmitTasks, Shapes
  <2> QED BY <1>1, <2>1 DEF SubmitTasks, Elsewhere
<1>2. CASE \E r \in Results : Finish(r) BY <1>2 DEF Finish, Elsewhere
<1>3. ASSUME NEW w \in Waiters,
             Start(w) \/ Poll(w) \/ Return(w) \/ Again(w) \/ Unwind(w)
             \/ \E b \in polls[w] : PollBatch(w, b)
      PROVE  Elsewhere
  BY <1>3 DEF Start, Poll, Return, Again, Unwind, PollBatch, Elsewhere
<1>4. CASE DropCancel \/ DropData \/ CleanupData
  BY <1>4 DEF DropCancel, DropData, CleanupData, Elsewhere
<1>5. CASE UNCHANGED vars BY <1>5 DEF Elsewhere
<1> QED BY <1>1, <1>2, <1>3, <1>4, <1>5 DEF Next, WaiterStep, JobsOf

LEMMA ClaimsNext == Shapes /\ Claims /\ [Next]_vars => Claims'
<1> SUFFICES ASSUME Shapes, Claims, [Next]_vars PROVE Claims'
  OBVIOUS
<1>1. ASSUME NEW s \in Submitters, Register(s) PROVE Claims'
  <2>1. Registered' = Registered \cup Batch[s] /\ Batch[s] \cap Registered = {}
    BY <1>1, NewlyRegistered
  <2>2. /\ UNCHANGED <<jobs, responses, errors>>
        /\ result_handlers' = result_handlers \cup Batch[s]
    BY <1>1 DEF Register
  <2> QED BY <2>1, <2>2 DEF Claims, Called
<1>2. ASSUME NEW w \in Waiters, Dispatch(w) PROVE Claims'
  <2>1. UNCHANGED <<spc, result_handlers, responses, errors>> BY <1>2 DEF Dispatch
  <2>2. \A k \in jobs' \ jobs : ~k.handler BY <1>2 DEF Dispatch, NewJob
  <2>3. Registered' = Registered BY <2>1, SameRegistered
  <2>4. ASSUME NEW j \in jobs', j.handler PROVE j \in jobs BY <2>2, <2>4
  <2> QED BY <2>1, <2>3, <2>4 DEF Claims, Called
<1>3. ASSUME NEW j \in jobs, Job(j) PROVE Claims'
  BY <1>3, ClaimsJob
<1>4. CASE DropMaps \/ CleanupMaps
  <2>1. /\ UNCHANGED <<spc, jobs, responses, errors>>
        /\ result_handlers' \subseteq result_handlers
    BY <1>4 DEF DropMaps, CleanupMaps, Forget
  <2>2. Registered' = Registered BY <2>1, SameRegistered
  <2> QED BY <2>1, <2>2 DEF Claims, Called
<1>5. CASE Elsewhere BY <1>5, ClaimsElsewhere
<1> QED BY <1>1, <1>2, <1>3, <1>4, <1>5, ElsewhereSteps

LEMMA ClaimsAlways == Spec => []ClaimsInv
<1>1. ClaimsInv /\ [Next]_vars => ClaimsInv'
  BY ShapesNext, ClaimsNext DEF ClaimsInv
<1> QED BY <1>1, ClaimsInit, PTL DEF Spec

(* Whatever threads wait for the same results, and whatever fails,         *)
(* HandleResponse is called at most once for each, and one thread at most  *)
(* has its handler (SessionServiceImpl.cpp:605-622).                       *)
THEOREM ResultsAreHandledByOne == Spec => []HandledByOne
<1>1. ClaimsInv => HandledByOne
  <2> SUFFICES ASSUME ClaimsInv, NEW r \in Results
               PROVE  /\ responses[r] <= 1
                      /\ Cardinality({j \in jobs : j.r = r /\ j.handler}) <= 1
                      /\ r \in result_handlers => ~Held(r) /\ ~Called(r)
    BY DEF HandledByOne
  <2> DEFINE holders == {j \in jobs : j.r = r /\ j.handler}
  <2>1. Cardinality(holders) <= 1
    <3>1. CASE holders = {} BY <3>1, FS_EmptySet
    <3>2. ASSUME NEW j \in holders PROVE Cardinality(holders) <= 1
      <4>1. holders = {j} BY <3>2 DEF ClaimsInv, Claims
      <4>2. Cardinality({j}) = 1 BY FS_Singleton
      <4> QED BY <4>1, <4>2
    <3> QED BY <3>1, <3>2
  <2>2. r \in result_handlers => ~Held(r) /\ ~Called(r)
    BY DEF ClaimsInv, Claims, Held
  <2> QED BY <2>1, <2>2 DEF ClaimsInv, Claims
<1> QED BY <1>1, ClaimsAlways, PTL

-----------------------------------------------------------------------------
(* The client implements Delivery: the stage of a result depends on where  *)
(* its handler is.                                                         *)
LEMMA StageKept ==
  ASSUME NEW r,
         (r \in Registered)' <=> r \in Registered,
         (r \in result_handlers)' <=> r \in result_handlers,
         Held(r)' <=> Held(r), Called(r)' <=> Called(r)
  PROVE  Stage(r)' = Stage(r)
  BY DEF Stage

LEMMA Stages ==
  ASSUME Claims, NEW r \in Results
  PROVE  /\ r \notin Registered => Stage(r) = "new"
         /\ r \in result_handlers => Stage(r) = "registered"
         /\ Called(r) => Stage(r) = "answered"
         /\ Held(r) /\ ~Called(r) => Stage(r) = "claimed"
         /\ r \in Registered \ result_handlers /\ ~Held(r) /\ ~Called(r)
              => Stage(r) = "discarded"
  BY DEF Claims, Held, Stage

LEMMA StagesNext ==
  ASSUME Claims', NEW r \in Results
  PROVE  /\ Called(r)' => Stage(r)' = "answered"
         /\ Held(r)' /\ ~Called(r)' => Stage(r)' = "claimed"
         /\ r \in result_handlers' => Stage(r)' = "registered"
  BY DEF Claims, Held, Stage

LEMMA JobsStay ==
  ASSUME NEW j \in jobs, Job(j), NEW i \in jobs, i # j
  PROVE  i \in jobs'
  BY DEF Job, Extract, Download, DownloadFailed, Respond, HandleResponse, NoHandler, Report,
         Goto, End

LEMMA HandlerStays ==
  ASSUME Shapes, NEW j \in jobs, Extract(j) \/ Download(j)
  PROVE  \E k \in jobs' :
           k.r = j.r /\ k.handler = IF Extract(j) THEN j.r \in result_handlers ELSE j.handler
<1>1. IsJob(j) BY DEF Shapes
<1>2. CASE Extract(j)
  <2> DEFINE known == j.r \in result_handlers
             k     == [j EXCEPT !.step = FirstStep(j), !.handler = known]
  <2>1. k \in jobs' BY <1>2 DEF Extract
  <2>2. k.r = j.r /\ k.handler = known
    <3> HIDE DEF known
    <3>1. k = [w |-> j.w, r |-> j.r, status |-> j.status, step |-> FirstStep(j),
               handler |-> known]
      BY <1>1, Taken
    <3> HIDE DEF k
    <3> QED BY <3>1
  <2> QED BY <1>2, <2>1, <2>2
<1>3. CASE ~Extract(j) /\ Download(j)
  <2>1. PICK step : [j EXCEPT !.step = step] \in jobs' BY <1>3 DEF Download, Goto
  <2>2. /\ [j EXCEPT !.step = step].r = j.r
        /\ [j EXCEPT !.step = step].handler = j.handler
    BY <1>1, Stepped
  <2> QED BY <1>3, <2>1, <2>2
<1> QED BY <1>2, <1>3

LEMMA JobStageOfOthers ==
  ASSUME Shapes, NEW j \in jobs, Job(j), NEW r \in Results, r # j.r
  PROVE  Stage(r)' = Stage(r)
<1>1. Registered' = Registered
  BY SameRegistered DEF Job, Extract, Download, DownloadFailed, Respond, NoHandler, Report
<1>2. r \in result_handlers' <=> r \in result_handlers
  BY DEF Job, Extract, TakeHandler, Download, DownloadFailed, Respond, NoHandler, Report
<1>3. responses'[r] = responses[r] /\ errors'[r] = errors[r]
  <2>1. ASSUME HandleError(j) PROVE errors'[r] = errors[r]
    BY <2>1 DEF HandleError, Shapes
  <2>2. CASE Respond(j)
    <3>1. responses' = [responses EXCEPT ![j.r] = @ + 1] /\ errors' = errors
      BY <2>2 DEF Respond, HandleResponse
    <3> QED BY <3>1 DEF Shapes
  <2> QED BY <2>1, <2>2 DEF Job, Extract, Download, DownloadFailed, NoHandler, Report
<1>4. Held(r)' <=> Held(r)
  <2>1. \A i \in jobs : i.r = r => i \in jobs'
    BY JobsStay
  <2>2. \A k \in jobs' \ jobs : k.r # r BY JobMoves
  <2> QED BY <2>1, <2>2 DEF Held
<1> QED BY <1>1, <1>2, <1>3, <1>4, StageKept DEF Called

LEMMA JobStageKept ==
  ASSUME Shapes, Claims, NEW j \in jobs, Job(j),
         \/ Extract(j) /\ j.r \notin result_handlers
         \/ Download(j)
         \/ ~Extract(j) /\ ~j.handler
  PROVE  Stage(j.r)' = Stage(j.r)
<1>1. Registered' = Registered
  BY SameRegistered DEF Job, Extract, Download, DownloadFailed, Respond, NoHandler, Report
<1>2. j.r \in result_handlers' <=> j.r \in result_handlers
  BY DEF Job, Extract, TakeHandler, Download, DownloadFailed, Respond, NoHandler, Report
<1>3. UNCHANGED <<responses, errors>>
  BY DEF Job, Extract, Download, DownloadFailed, Respond, NoHandler, Report, HandleError
<1>4. Held(j.r)' <=> Held(j.r)
  <2>1. \A i \in jobs : i # j => i \in jobs' BY JobsStay
  <2>2. \A k \in jobs' \ jobs :
          k.r = j.r /\ (k.handler => j.handler /\ ~Extract(j))
    BY JobMoves DEF Extract, Download
  <2>3. Extract(j) => ~j.handler BY DEF Claims, Extract
  <2>4. CASE ~j.handler BY <2>1, <2>2, <2>4 DEF Held
  <2>5. CASE j.handler
    <3>1. Download(j) /\ ~Extract(j) BY <2>3, <2>5
    <3>2. \E k \in jobs' : k.r = j.r /\ k.handler BY <2>5, <3>1, HandlerStays
    <3> QED BY <2>5, <3>2 DEF Held
  <2> QED BY <2>4, <2>5
<1> QED BY <1>1, <1>2, <1>3, <1>4, StageKept DEF Called

LEMMA JobStageMoves ==
  ASSUME Shapes, Claims, NEW j \in jobs, Job(j), Claims'
  PROVE  \/ Stage(j.r)' = Stage(j.r)
         \/ Stage(j.r) = "registered" /\ Stage(j.r)' = "claimed"
         \/ Stage(j.r) = "claimed" /\ Stage(j.r)' = "answered"
<1>1. j.r \in Results /\ j.handler \in BOOLEAN BY DEF Shapes, IsJob
<1>2. CASE Extract(j) /\ j.r \in result_handlers
  <2>1. Stage(j.r) = "registered" /\ ~Called(j.r) BY <1>1, <1>2, Stages DEF Claims
  <2>2. UNCHANGED <<responses, errors>> BY <1>2 DEF Extract
  <2>3. ~Called(j.r)' BY <2>1, <2>2 DEF Called
  <2>4. Held(j.r)'
    <3>1. \E k \in jobs' : k.r = j.r /\ k.handler BY <1>2, HandlerStays
    <3> QED BY <3>1 DEF Held
  <2>5. Stage(j.r)' = "claimed" BY <1>1, <2>3, <2>4, StagesNext
  <2> QED BY <2>1, <2>5
<1>3. CASE \/ Extract(j) /\ j.r \notin result_handlers
           \/ Download(j)
           \/ ~Extract(j) /\ ~j.handler
  BY <1>3, JobStageKept
<1>4. CASE ~Extract(j) /\ ~Download(j) /\ j.handler
  <2>1. Held(j.r) BY <1>4 DEF Held
  <2>2. Stage(j.r) \in {"claimed", "answered"} BY <1>1, <2>1, Stages
  <2>3. CASE Respond(j)
    <3>1. responses' = [responses EXCEPT ![j.r] = @ + 1] /\ errors' = errors
      BY <2>3 DEF Respond, HandleResponse
    <3>2. Called(j.r)' BY <1>1, <3>1 DEF Called, Shapes
    <3>3. Stage(j.r)' = "answered" BY <1>1, <3>2, StagesNext
    <3> QED BY <2>2, <3>3
  <2>4. CASE HandleError(j) /\ responses' = responses
    <3>1. errors' = [errors EXCEPT ![j.r] = @ + 1] BY <1>4, <2>4 DEF HandleError
    <3>2. Called(j.r)' BY <1>1, <2>4, <3>1 DEF Called, Shapes
    <3>3. Stage(j.r)' = "answered" BY <1>1, <3>2, StagesNext
    <3> QED BY <2>2, <3>3
  <2> QED BY <1>4, <2>3, <2>4 DEF Job, DownloadFailed, NoHandler, Report
<1> QED BY <1>1, <1>2, <1>3, <1>4

LEMMA JobDelivers ==
  ASSUME Shapes, Claims, NEW j \in jobs, Job(j)
  PROVE  D!Next \/ UNCHANGED stages
<1>1. j.r \in Results BY DEF Shapes, IsJob
<1>2. Claims' BY ClaimsJob
<1>3. stages' = [stages EXCEPT ![j.r] = Stage(j.r)']
  BY <1>1, JobStageOfOthers DEF stages
<1>4. stages[j.r] = Stage(j.r) BY <1>1 DEF stages
<1>5. CASE Stage(j.r)' = Stage(j.r) BY <1>3, <1>4, <1>5 DEF stages
<1>6. CASE Stage(j.r) = "registered" /\ Stage(j.r)' = "claimed"
  BY <1>1, <1>3, <1>4, <1>6 DEF D!Next, D!Claim, D!Move
<1>7. CASE Stage(j.r) = "claimed" /\ Stage(j.r)' = "answered"
  BY <1>1, <1>3, <1>4, <1>7 DEF D!Next, D!Answer, D!Move
<1> QED BY <1>2, <1>5, <1>6, <1>7, JobStageMoves

LEMMA RegisterDelivers ==
  ASSUME Shapes, Claims, NEW s \in Submitters, Register(s)
  PROVE  D!Next \/ UNCHANGED stages
<1>0. Claims' BY ClaimsNext DEF Next
<1>1. Registered' = Registered \cup Batch[s] /\ Batch[s] \cap Registered = {}
  BY NewlyRegistered
<1>2. /\ UNCHANGED <<jobs, responses, errors>>
      /\ result_handlers' = result_handlers \cup Batch[s]
  BY DEF Register
<1>3. Batch[s] \subseteq Results BY BatchAssumption
<1>4. ASSUME NEW r \in Batch[s] PROVE Stage(r) = "new" /\ Stage(r)' = "registered"
  <2>1. r \notin Registered /\ r \in Results BY <1>1, <1>3
  <2>2. r \in Registered' /\ r \in result_handlers' BY <1>1, <1>2
  <2> QED BY <2>1, <2>2, Stages, StagesNext, <1>0
<1>5. ASSUME NEW r \in Results \ Batch[s] PROVE Stage(r)' = Stage(r)
  BY <1>1, <1>2, StageKept DEF Held, Called
<1>6. stages' = [r \in Results |-> IF r \in Batch[s] THEN "registered" ELSE stages[r]]
  BY <1>3, <1>4, <1>5 DEF stages
<1>7. CASE Batch[s] = {} BY <1>5, <1>7 DEF stages
<1>8. CASE Batch[s] # {}
  <2>1. \A r \in Batch[s] : stages[r] = "new" BY <1>3, <1>4 DEF stages
  <2> QED BY <1>3, <1>6, <1>8, <2>1 DEF D!Next, D!Register
<1> QED BY <1>7, <1>8

LEMMA DiscardDelivers ==
  ASSUME Shapes, Claims, DropMaps \/ CleanupMaps
  PROVE  D!Next \/ UNCHANGED stages
<1> DEFINE gone == result_handlers \ result_handlers'
<1>1. /\ UNCHANGED <<spc, jobs, responses, errors>>
      /\ result_handlers' \subseteq result_handlers
  BY DEF DropMaps, CleanupMaps, Forget
<1>2. Registered' = Registered BY <1>1, SameRegistered
<1>3. gone \subseteq Results BY RegisteredAreResults DEF Claims
<1>4. ASSUME NEW r \in gone PROVE Stage(r) = "registered" /\ Stage(r)' = "discarded"
  <2>1. r \in Registered /\ ~Called(r) /\ ~Held(r) BY <1>3 DEF Claims, Held
  <2> QED BY <1>1, <1>2, <2>1 DEF Stage, Called, Held
<1>5. ASSUME NEW r \in Results \ gone PROVE Stage(r)' = Stage(r)
  BY <1>1, <1>2, StageKept DEF Held, Called
<1>6. stages' = [r \in Results |-> IF r \in gone THEN "discarded" ELSE stages[r]]
  BY <1>3, <1>4, <1>5 DEF stages
<1>7. CASE gone = {} BY <1>5, <1>7 DEF stages
<1>8. CASE gone # {}
  <2>1. \A r \in gone : stages[r] = "registered" BY <1>3, <1>4 DEF stages
  <2> HIDE DEF gone
  <2> QED BY <1>3, <1>6, <1>8, <2>1 DEF D!Next, D!Discard
<1> QED BY <1>7, <1>8

(* Every step of the client is one that Delivery allows: a registered      *)
(* result is claimed, answered by the caller that claimed it or discarded, *)
(* and never anything else (SessionServiceImpl.cpp:280-292, 605-718).      *)
THEOREM ClientImplementsDelivery == Spec => DeliverySteps
<1>1. Init => D!Init
  <2> SUFFICES ASSUME Init PROVE D!Init
    OBVIOUS
  <2>1. \A r \in Results : r \notin Registered BY RegisteredBy DEF Init
  <2>2. Claims BY ClaimsInit DEF ClaimsInv
  <2>3. \A r \in Results : Stage(r) = "new" BY <2>1, <2>2, Stages
  <2> QED BY <2>3 DEF D!Init, stages
<1>2. ClaimsInv /\ [Next]_vars => [D!Next]_stages
  <2> SUFFICES ASSUME Shapes, Claims, [Next]_vars PROVE D!Next \/ UNCHANGED stages
    BY DEF ClaimsInv
  <2>1. CASE \E s \in Submitters : Register(s) BY <2>1, RegisterDelivers
  <2>2. CASE \E j \in jobs : Job(j) BY <2>2, JobDelivers
  <2>3. CASE DropMaps \/ CleanupMaps BY <2>3, DiscardDelivers
  <2>4. ASSUME NEW w \in Waiters, Dispatch(w) PROVE UNCHANGED stages
    <3>1. UNCHANGED <<spc, result_handlers, responses, errors>> BY <2>4 DEF Dispatch
    <3>2. jobs \subseteq jobs' /\ \A k \in jobs' \ jobs : ~k.handler
      BY <2>4 DEF Dispatch, NewJob
    <3>3. \A r \in Results : Held(r)' <=> Held(r) BY <3>2 DEF Held
    <3>4. \A r \in Results : Called(r)' <=> Called(r) BY <3>1 DEF Called
    <3>5. Registered' = Registered BY <3>1, SameRegistered
    <3>6. \A r \in Results : Stage(r)' = Stage(r)
      BY <3>1, <3>3, <3>4, <3>5, StageKept
    <3> QED BY <3>6 DEF stages
  <2>5. CASE Elsewhere
    <3>1. Registered' = Registered BY <2>5, RegisteredBy, RegisteredByNext DEF Elsewhere
    <3>2. \A r \in Results : Stage(r)' = Stage(r)
      BY <2>5, <3>1, StageKept DEF Elsewhere, Held, Called
    <3> QED BY <3>2 DEF stages
  <2> QED BY <2>1, <2>2, <2>3, <2>4, <2>5, ElsewhereSteps
<1> QED BY <1>1, <1>2, ClaimsAlways, PTL DEF Spec, DeliverySteps

-----------------------------------------------------------------------------
(* What a waiter still has to do: a result of its snapshot whose handler   *)
(* is in the map is waited for, or a task is about to take its handler.    *)
Outstanding(w) ==
  DOMAIN results[w] \cup {j.r : j \in {j \in jobs : j.w = w /\ j.step = "extract"}}

WaitsForAll(w) ==
  wpc[w] = "returned" /\ ~asked[w].any /\ ~asked[w].break /\ ~asked[w].limited

Covered ==
  /\ taskId_resultId \subseteq Registered
  /\ DOMAIN wpc = Waiters /\ DOMAIN asked = Waiters /\ DOMAIN snapshot = Waiters
  /\ \A w \in Waiters :
       /\ snapshot[w] \subseteq Registered
       /\ snapshot[w] \cap result_handlers \subseteq Outstanding(w)
       /\ WaitsForAll(w) => snapshot[w] \cap result_handlers = {}

LEMMA CoveredInit == Init => Covered
  BY DEF Init, Covered, WaitsForAll

(* The steps of other components, and of other waiters.                    *)
LEMMA CoveredKept ==
  ASSUME Shapes, Claims, Covered,
         Registered \subseteq Registered', taskId_resultId' \subseteq Registered',
         result_handlers' \cap Registered \subseteq result_handlers,
         UNCHANGED <<wpc, asked, snapshot>>,
         \A w \in Waiters :
           Outstanding(w) \cap result_handlers' \subseteq Outstanding(w)'
  PROVE  Covered'
<1>1. ASSUME NEW w \in Waiters
      PROVE  /\ snapshot'[w] \subseteq Registered'
             /\ snapshot'[w] \cap result_handlers' \subseteq Outstanding(w)'
             /\ WaitsForAll(w)' => snapshot'[w] \cap result_handlers' = {}
  BY DEF Covered, WaitsForAll
<1> QED BY <1>1 DEF Covered

LEMMA CoveredByWaiter ==
  ASSUME Shapes, Claims, Covered, NEW w \in Waiters,
         Start(w) \/ Poll(w) \/ Dispatch(w) \/ Return(w) \/ Again(w) \/ Unwind(w)
  PROVE  Covered'
<1>1. UNCHANGED <<maps, spc>>
  BY DEF Start, Poll, Dispatch, Return, Again, Unwind
<1>2. Registered' = Registered BY <1>1, SameRegistered
<1>3. /\ DOMAIN wpc' = Waiters /\ DOMAIN asked' = Waiters /\ DOMAIN snapshot' = Waiters
  BY DEF Start, Poll, Dispatch, Return, Again, Unwind, Covered
<1>4. ASSUME NEW v \in Waiters, v # w
      PROVE  /\ snapshot'[v] = snapshot[v] /\ wpc'[v] = wpc[v] /\ asked'[v] = asked[v]
             /\ results'[v] = results[v]
  BY <1>4 DEF Start, Poll, Dispatch, Return, Again, Unwind, Covered, Shapes
<1>5. jobs \subseteq jobs'
  BY DEF Start, Poll, Dispatch, Return, Again, Unwind
<1>6. ASSUME NEW v \in Waiters, v # w
      PROVE  /\ snapshot'[v] \subseteq Registered'
             /\ snapshot'[v] \cap result_handlers' \subseteq Outstanding(v)'
             /\ WaitsForAll(v)' => snapshot'[v] \cap result_handlers' = {}
  <2>1. Outstanding(v) \subseteq Outstanding(v)' BY <1>4, <1>5, <1>6 DEF Outstanding
  <2> QED BY <1>1, <1>2, <1>4, <1>6, <2>1 DEF Covered, WaitsForAll
<1>7. /\ snapshot'[w] \subseteq Registered'
      /\ snapshot'[w] \cap result_handlers' \subseteq Outstanding(w)'
      /\ WaitsForAll(w)' => snapshot'[w] \cap result_handlers' = {}
  <2>1. CASE Start(w)
    <3>1. PICK c \in Calls :
            /\ snapshot' = [snapshot EXCEPT ![w] = Selected(c)]
            /\ results' = [results EXCEPT ![w] = [r \in Selected(c) |-> "NOTFOUND"]]
            /\ wpc' = [wpc EXCEPT ![w] = IF Selected(c) = {} THEN "returned" ELSE "poll"]
      BY <2>1 DEF Start
    <3>2. /\ snapshot'[w] = Selected(c) /\ DOMAIN results'[w] = Selected(c)
          /\ wpc'[w] = "returned" => Selected(c) = {}
      BY <3>1 DEF Covered, Shapes
    <3>3. Selected(c) \subseteq Registered BY DEF Selected, Claims, Covered
    <3> QED BY <1>2, <3>2, <3>3 DEF Outstanding, WaitsForAll
  <2>2. CASE Poll(w) \/ Again(w) \/ Unwind(w)
    <3>1. UNCHANGED <<snapshot, results, jobs>> /\ wpc'[w] # "returned"
      BY <2>2 DEF Poll, Again, Unwind, Covered
    <3> QED BY <1>1, <1>2, <3>1 DEF Covered, Outstanding, WaitsForAll
  <2>3. CASE Dispatch(w)
    <3> DEFINE pending == {r \in DOMAIN results[w] : results[w][r] = "CREATED"}
    <3>1. /\ jobs' = jobs \cup {NewJob(w, r) : r \in DOMAIN results[w] \ pending}
          /\ results' = [results EXCEPT ![w] = Reset(w, pending)]
          /\ snapshot' = snapshot /\ wpc'[w] # "returned"
      BY <2>3 DEF Dispatch, Covered
    <3>2. DOMAIN results'[w] = pending BY <3>1 DEF Shapes, Reset
    <3>3. ASSUME NEW r \in Outstanding(w) PROVE r \in Outstanding(w)'
      <4>1. CASE r \in pending BY <3>2, <4>1 DEF Outstanding
      <4>2. CASE r \in DOMAIN results[w] \ pending
        <5>1. NewJob(w, r) \in jobs' BY <3>1, <4>2
        <5>2. /\ NewJob(w, r).w = w /\ NewJob(w, r).r = r
              /\ NewJob(w, r).step = "extract"
          BY DEF NewJob
        <5> QED BY <5>1, <5>2 DEF Outstanding
      <4>3. CASE r \notin DOMAIN results[w]
        BY <1>5, <3>3, <4>3 DEF Outstanding
      <4> QED BY <4>1, <4>2, <4>3
    <3> QED BY <1>1, <1>2, <3>1, <3>3 DEF Covered, WaitsForAll
  <2>4. CASE Return(w)
    <3>1. UNCHANGED <<snapshot, results, jobs, asked>> BY <2>4 DEF Return
    <3>2. JobsOf(w) = {} BY <2>4 DEF Return
    <3>3. ~asked[w].any /\ ~asked[w].break /\ ~asked[w].limited => DOMAIN results[w] = {}
      BY <2>4 DEF Return, Satisfied
    <3>4. Outstanding(w) = DOMAIN results[w] BY <3>2 DEF Outstanding, JobsOf
    <3>5. Outstanding(w)' = Outstanding(w) BY <3>1 DEF Outstanding
    <3> QED BY <1>1, <1>2, <3>1, <3>3, <3>4, <3>5 DEF Covered, WaitsForAll
  <2> QED BY <2>1, <2>2, <2>3, <2>4
<1> QED BY <1>1, <1>2, <1>3, <1>6, <1>7 DEF Covered

LEMMA CoveredNext == ClaimsInv /\ Covered /\ [Next]_vars => Covered'
<1> SUFFICES ASSUME Shapes, Claims, Covered, [Next]_vars PROVE Covered'
  BY DEF ClaimsInv
<1>1. ASSUME NEW s \in Submitters, Register(s) PROVE Covered'
  <2>1. Registered' = Registered \cup Batch[s] /\ Batch[s] \cap Registered = {}
    BY <1>1, NewlyRegistered
  <2>2. /\ result_handlers' = result_handlers \cup Batch[s]
        /\ taskId_resultId' = taskId_resultId \cup Batch[s]
        /\ UNCHANGED <<wpc, asked, snapshot, results, jobs>>
    BY <1>1 DEF Register
  <2>3. \A w \in Waiters : Outstanding(w)' = Outstanding(w) BY <2>2 DEF Outstanding
  <2> QED BY <2>1, <2>2, <2>3, CoveredKept DEF Covered
<1>2. ASSUME NEW s \in Submitters, SubmitTasks(s) PROVE Covered'
  <2>1. \A t \in Submitters : spc'[t] = "registered" <=> spc[t] = "registered"
    BY <1>2 DEF SubmitTasks, Shapes
  <2>2. UNCHANGED <<maps, wpc, asked, snapshot, results, jobs>> BY <1>2 DEF SubmitTasks
  <2>3. Registered' = Registered BY <2>1, RegisteredBy, RegisteredByNext
  <2>4. \A w \in Waiters : Outstanding(w)' = Outstanding(w) BY <2>2 DEF Outstanding
  <2> QED BY <2>2, <2>3, <2>4, CoveredKept DEF Covered
<1>3. ASSUME NEW w \in Waiters,
             Start(w) \/ Poll(w) \/ Dispatch(w) \/ Return(w) \/ Again(w) \/ Unwind(w)
      PROVE  Covered'
  BY <1>3, CoveredByWaiter
<1>4. ASSUME NEW w \in Waiters, NEW b \in polls[w], PollBatch(w, b) PROVE Covered'
  <2>1. UNCHANGED <<spc, maps, wpc, asked, snapshot, jobs>> BY <1>4 DEF PollBatch
  <2>2. \A v \in Waiters : DOMAIN results'[v] = DOMAIN results[v]
    BY <1>4 DEF PollBatch, Shapes
  <2>3. \A v \in Waiters : Outstanding(v)' = Outstanding(v)
    BY <2>1, <2>2 DEF Outstanding
  <2>4. Registered' = Registered BY <2>1, SameRegistered
  <2> QED BY <2>1, <2>3, <2>4, CoveredKept DEF Covered
<1>5. ASSUME NEW j \in jobs, Job(j) PROVE Covered'
  <2>1. UNCHANGED <<spc, wpc, asked, snapshot, results>>
    BY <1>5 DEF Job, Extract, Download, DownloadFailed, Respond, NoHandler, Report
  <2>2. /\ result_handlers' \subseteq result_handlers
        /\ taskId_resultId' \subseteq taskId_resultId
        /\ j.step = "extract" => j.r \notin result_handlers'
    BY <1>5 DEF Job, Extract, TakeHandler, Download, DownloadFailed, Respond, NoHandler, Report
  <2>3. ASSUME NEW w \in Waiters, NEW r \in Outstanding(w) \cap result_handlers'
        PROVE  r \in Outstanding(w)'
    <3>1. CASE r \in DOMAIN results[w] BY <2>1, <3>1 DEF Outstanding
    <3>2. ASSUME NEW i \in jobs, i.w = w, i.r = r, i.step = "extract"
          PROVE  r \in Outstanding(w)'
      <4>1. i # j BY <2>2, <2>3, <3>2
      <4>2. i \in jobs' BY <1>5, <4>1, JobsStay
      <4> QED BY <3>2, <4>2 DEF Outstanding
    <3> QED BY <2>3, <3>1, <3>2 DEF Outstanding
  <2>4. Registered' = Registered BY <2>1, SameRegistered
  <2> QED BY <2>1, <2>2, <2>3, <2>4, CoveredKept DEF Covered
<1>6. CASE \/ DropMaps \/ DropCancel \/ DropData \/ CleanupMaps \/ CleanupData
           \/ \E r \in Results : Finish(r)
  <2>1. /\ UNCHANGED <<spc, wpc, asked, snapshot, results, jobs>>
        /\ result_handlers' \subseteq result_handlers
        /\ taskId_resultId' \subseteq taskId_resultId
    BY <1>6 DEF DropMaps, DropCancel, DropData, CleanupMaps, CleanupData, Forget, Finish
  <2>2. \A w \in Waiters : Outstanding(w)' = Outstanding(w) BY <2>1 DEF Outstanding
  <2>3. Registered' = Registered BY <2>1, SameRegistered
  <2> QED BY <2>1, <2>2, <2>3, CoveredKept DEF Covered
<1>7. CASE UNCHANGED vars
  <2>1. \A w \in Waiters : Outstanding(w)' = Outstanding(w) BY <1>7 DEF Outstanding
  <2>2. Registered' = Registered BY <1>7, SameRegistered
  <2> QED BY <1>7, <2>1, <2>2, CoveredKept DEF Covered
<1> QED BY <1>1, <1>2, <1>3, <1>4, <1>5, <1>6, <1>7 DEF Next, WaiterStep, JobsOf

(* A wait for all tasks that returns has left none of their handlers in    *)
(* the map, whatever other threads do (SessionServiceImpl.cpp:515-735).    *)
THEOREM WaitsHandleAll == Spec => []ReturnedHandled
<1>1. Covered => ReturnedHandled BY DEF Covered, WaitsForAll, ReturnedHandled
<1>2. ClaimsInv /\ ClaimsInv' /\ Covered /\ [Next]_vars => Covered' BY CoveredNext
<1> QED BY <1>1, <1>2, CoveredInit, ClaimsAlways, PTL DEF Spec

-----------------------------------------------------------------------------
(* A waiter has requests only while it polls, and tasks only while it      *)
(* handles what they told: its snapshot changes when it has neither.       *)
Places ==
  /\ DOMAIN asked = Waiters /\ DOMAIN snapshot = Waiters /\ DOMAIN polls = Waiters
  /\ \A w \in Waiters :
       /\ wpc[w] # "polling" => polls[w] = {}
       /\ wpc[w] # "handling" => \A j \in jobs : j.w # w

TypedPlaces == TypeOK /\ Places

LEMMA TypedInit == Init => TypedPlaces
  BY DEF Init, TypedPlaces, TypeOK, Places, NoResults

LEMMA BatchesAreParts ==
  ASSUME NEW S PROVE Batches(S) \subseteq SUBSET S
  BY DEF Batches

(* The steps that leave waiters and their tasks alone.                     *)
LEMMA TypedMaps ==
  ASSUME TypedPlaces, UNCHANGED <<waitVars, jobs>>,
         status' \in [Results -> Ready \cup {"NOTFOUND", "CREATED"}],
         result_handlers' \subseteq Results,
         resultId_taskId' = result_handlers' /\ taskId_resultId' = result_handlers'
  PROVE  TypedPlaces'
<1>1. Places' BY DEF TypedPlaces, Places
<1>2. TypeOK' BY DEF TypedPlaces, TypeOK
<1> QED BY <1>1, <1>2 DEF TypedPlaces

LEMMA TypedDeleted ==
  ASSUME TypeOK, NEW R
  PROVE  Deleted(R) \in [Results -> Ready \cup {"NOTFOUND", "CREATED"}]
  BY DEF TypeOK, Deleted, Ready

(* The steps of one waiter, which leave the maps alone.                    *)
LEMMA TypedByWaiter ==
  ASSUME TypedPlaces, Shapes, Claims, NEW w \in Waiters,
         \/ Start(w) \/ Poll(w) \/ Dispatch(w) \/ Return(w) \/ Again(w) \/ Unwind(w)
         \/ \E b \in polls[w] : PollBatch(w, b)
  PROVE  TypedPlaces'
<1> USE DEF TypedPlaces
<1>1. UNCHANGED <<maps, status>>
  BY DEF Start, Poll, Dispatch, Return, Again, Unwind, PollBatch
<1>2. /\ wpc' \in [Waiters -> {"idle", "poll", "polling", "handling", "returned", "thrown"}]
      /\ hasError' \in [Waiters -> BOOLEAN] /\ exception' \in [Waiters -> BOOLEAN]
  BY DEF Start, Poll, Dispatch, Return, Again, Unwind, PollBatch, TypeOK
<1>3. DOMAIN asked' = Waiters /\ DOMAIN snapshot' = Waiters /\ DOMAIN polls' = Waiters
  BY DEF Start, Poll, Dispatch, Return, Again, Unwind, PollBatch, Places
<1>4. ASSUME NEW v \in Waiters, v # w
      PROVE  /\ wpc'[v] = wpc[v] /\ asked'[v] = asked[v] /\ snapshot'[v] = snapshot[v]
             /\ results'[v] = results[v] /\ polls'[v] = polls[v]
  BY <1>4 DEF Start, Poll, Dispatch, Return, Again, Unwind, PollBatch, Places, TypeOK, Shapes
<1>5. /\ asked'[w] \in Calls \cup {NoCall}
      /\ DOMAIN results'[w] \subseteq snapshot'[w]
      /\ polls'[w] \subseteq SUBSET snapshot'[w]
      /\ wpc'[w] # "polling" => polls'[w] = {}
      /\ \A j \in jobs' : j \in jobs \/ (j.w = w /\ j.r \in snapshot'[w])
      /\ snapshot'[w] = snapshot[w] \/ \A j \in jobs' : j.w # w
      /\ wpc'[w] # "handling" => \A j \in jobs' : j.w # w
  <2>1. CASE Start(w)
    <3>1. PICK c \in Calls :
            /\ asked' = [asked EXCEPT ![w] = c]
            /\ snapshot' = [snapshot EXCEPT ![w] = Selected(c)]
            /\ results' = [results EXCEPT ![w] = [r \in Selected(c) |-> "NOTFOUND"]]
            /\ wpc' = [wpc EXCEPT ![w] = IF Selected(c) = {} THEN "returned" ELSE "poll"]
      BY <2>1 DEF Start
    <3>2. UNCHANGED <<polls, jobs>> /\ wpc[w] \notin {"polling", "handling"}
      BY <2>1 DEF Start
    <3>3. polls[w] = {} /\ \A j \in jobs : j.w # w BY <3>2 DEF Places
    <3>4. wpc'[w] \notin {"polling", "handling"} BY <3>1 DEF TypeOK
    <3>5. asked'[w] = c /\ snapshot'[w] = Selected(c) /\ DOMAIN results'[w] = Selected(c)
      BY <3>1 DEF Places, Shapes
    <3> QED BY <3>2, <3>3, <3>4, <3>5
  <2>2. CASE Poll(w)
    <3>1. /\ UNCHANGED <<asked, snapshot, results, jobs>> /\ wpc'[w] = "polling"
          /\ polls'[w] = Batches(DOMAIN results[w]) /\ wpc[w] = "poll"
      BY <2>2 DEF Poll, TypeOK, Places
    <3>2. polls'[w] \subseteq SUBSET snapshot[w] BY <3>1, BatchesAreParts DEF TypeOK
    <3>3. \A j \in jobs : j.w # w BY <3>1 DEF Places
    <3> QED BY <3>1, <3>2, <3>3 DEF TypeOK
  <2>3. CASE Dispatch(w)
    <3> DEFINE pending == {r \in DOMAIN results[w] : results[w][r] = "CREATED"}
    <3>1. /\ jobs' = jobs \cup {NewJob(w, r) : r \in DOMAIN results[w] \ pending}
          /\ results' = [results EXCEPT ![w] = Reset(w, pending)]
          /\ UNCHANGED <<asked, snapshot, polls>> /\ wpc'[w] = "handling" /\ polls[w] = {}
      BY <2>3 DEF Dispatch, TypeOK
    <3>2. DOMAIN results'[w] \subseteq snapshot[w] BY <3>1 DEF Reset, Shapes, TypeOK
    <3>3. ASSUME NEW j \in jobs' \ jobs PROVE j.w = w /\ j.r \in snapshot[w]
      BY <3>1, <3>3 DEF NewJob, TypeOK
    <3> QED BY <3>1, <3>2, <3>3 DEF TypeOK
  <2>4. CASE Return(w) \/ Again(w) \/ Unwind(w)
    <3>1. /\ UNCHANGED <<asked, snapshot, results, polls, jobs>>
          /\ wpc'[w] \notin {"polling", "handling"} /\ JobsOf(w) = {}
      BY <2>4 DEF Return, Again, Unwind, TypeOK
    <3>2. polls[w] = {} BY <2>4 DEF Return, Again, Unwind, Places
    <3> QED BY <3>1, <3>2 DEF TypeOK, JobsOf
  <2>5. ASSUME NEW b \in polls[w], PollBatch(w, b)
        PROVE  /\ UNCHANGED <<wpc, asked, snapshot, jobs>>
               /\ polls'[w] \subseteq polls[w]
               /\ DOMAIN results'[w] = DOMAIN results[w]
    BY <2>5 DEF PollBatch, Places, Shapes
  <2>6. CASE \E b \in polls[w] : PollBatch(w, b)
    BY <2>5, <2>6 DEF TypeOK, Places
  <2> QED BY <2>1, <2>2, <2>3, <2>4, <2>6
<1>6. ASSUME NEW j \in jobs' PROVE j.w \in Waiters /\ j.r \in snapshot'[j.w]
  BY <1>4, <1>5, <1>6 DEF TypeOK
<1>7. TypeOK' BY <1>1, <1>2, <1>4, <1>5, <1>6 DEF TypeOK
<1>8. \A v \in Waiters : wpc'[v] # "handling" => \A j \in jobs' : j.w # v
  BY <1>4, <1>5 DEF Places
<1>9. Places' BY <1>3, <1>4, <1>5, <1>8 DEF Places
<1> QED BY <1>7, <1>9

LEMMA TypedByJob ==
  ASSUME TypedPlaces, Shapes, NEW j \in jobs, Job(j)
  PROVE  TypedPlaces'
<1> USE DEF TypedPlaces
<1> DEFINE Quiet == UNCHANGED <<status, wpc, asked, snapshot, results, polls>>
           Agree == /\ result_handlers' \subseteq Results
                    /\ resultId_taskId' = result_handlers'
                    /\ taskId_resultId' = result_handlers'
           Flags == hasError' \in [Waiters -> BOOLEAN] /\ exception' \in [Waiters -> BOOLEAN]
           Same(k) == k.w = j.w /\ k.r = j.r
           Done == Quiet /\ Agree /\ Flags /\ \A k \in jobs' : k \in jobs \/ Same(k)
<1>1. IsJob(j) BY DEF Shapes
<1>2. ASSUME NEW step PROVE Same([j EXCEPT !.step = step])
  BY <1>1 DEF IsJob
<1>3. ASSUME NEW k, NEW step, k \in (jobs \ {j}) \cup {[j EXCEPT !.step = step]}
      PROVE  k \in jobs \/ Same(k)
  BY <1>2, <1>3
<1>4. ASSUME Extract(j) PROVE Done
  <2> DEFINE known == j.r \in result_handlers
             next == [j EXCEPT !.step = FirstStep(j), !.handler = known]
  <2>1. Quiet /\ UNCHANGED <<hasError, exception>> BY <1>4 DEF Extract
  <2>2. /\ jobs' = (jobs \ {j}) \cup {next}
        /\ TakeHandler(j) /\ resultId_taskId' = resultId_taskId \ {j.r}
        /\ taskId_resultId' = IF known THEN taskId_resultId \ {j.r} ELSE taskId_resultId
    <3>1. resultId_taskId = result_handlers BY DEF TypeOK
    <3> QED BY <1>4, <3>1 DEF Extract
  <2>3. next = [w |-> j.w, r |-> j.r, status |-> j.status, step |-> FirstStep(j), handler |-> known]
    <3> HIDE DEF known
    <3> QED BY <1>1, Taken
  <2>4. Same(next) BY <2>3
  <2>5. Agree BY <2>2 DEF TakeHandler, TypeOK
  <2>6. \A k \in jobs' : k \in jobs \/ Same(k)
    <3> HIDE DEF next
    <3> QED BY <2>2, <2>4
  <2> QED BY <2>1, <2>5, <2>6 DEF TypeOK
<1>5. ASSUME Download(j) \/ NoHandler(j) PROVE Done
  BY <1>3, <1>5 DEF Download, NoHandler, Goto, End, TypeOK
<1>6. ASSUME DownloadFailed(j) \/ Report(j) PROVE Done
  <2>1. Quiet /\ Agree BY <1>6 DEF DownloadFailed, Report, TypeOK
  <2>2. Flags BY <1>6 DEF DownloadFailed, Report, HandleError, TypeOK
  <2>3. \A k \in jobs' : k \in jobs \/ Same(k)
    BY <1>3, <1>6 DEF DownloadFailed, Report, Goto, End
  <2> QED BY <2>1, <2>2, <2>3
<1>7. ASSUME Respond(j) PROVE Done
  <2>1. Quiet /\ Agree BY <1>7 DEF Respond, TypeOK
  <2>2. Flags BY <1>7 DEF Respond, HandleResponse, TypeOK
  <2>3. \A k \in jobs' : k \in jobs \/ Same(k)
    BY <1>3, <1>7 DEF Respond, HandleResponse, Goto, End
  <2> QED BY <2>1, <2>2, <2>3
<1>8. Done
  BY <1>4, <1>5, <1>6, <1>7 DEF Job
<1>9. \A k \in jobs' : k.w \in Waiters /\ k.r \in snapshot[k.w]
  BY <1>8 DEF TypeOK
<1>10. TypeOK' BY <1>8, <1>9 DEF TypeOK
<1>11. ASSUME NEW w \in Waiters, wpc[w] # "handling", NEW k \in jobs' PROVE k.w # w
  BY <1>8, <1>11 DEF Places
<1>12. Places' BY <1>8, <1>11 DEF Places
<1> QED BY <1>10, <1>12

LEMMA TypedNext == ClaimsInv /\ TypedPlaces /\ [Next]_vars => TypedPlaces'
<1> SUFFICES ASSUME Shapes, Claims, TypedPlaces, [Next]_vars PROVE TypedPlaces'
  BY DEF ClaimsInv
<1>1. ASSUME NEW r \in Results, Finish(r) PROVE TypedPlaces'
  <2>1. status' \in [Results -> Ready \cup {"NOTFOUND", "CREATED"}]
    BY <1>1 DEF Finish, TypedPlaces, TypeOK, Ready
  <2> QED BY <1>1, <2>1, TypedMaps DEF Finish, TypedPlaces, TypeOK
<1>2. ASSUME NEW s \in Submitters, SubmitTasks(s) \/ Register(s) PROVE TypedPlaces'
  <2>1. status' \in [Results -> Ready \cup {"NOTFOUND", "CREATED"}]
    BY <1>2 DEF SubmitTasks, Register, TypedPlaces, TypeOK
  <2>2. Batch[s] \subseteq Results BY BatchAssumption
  <2> QED BY <1>2, <2>1, <2>2, TypedMaps DEF SubmitTasks, Register, TypedPlaces, TypeOK
<1>3. CASE DropMaps \/ DropCancel \/ DropData \/ CleanupMaps \/ CleanupData
  <2>1. TypeOK BY DEF TypedPlaces
  <2>2. status' \in [Results -> Ready \cup {"NOTFOUND", "CREATED"}]
    <3>1. status' = status \/ \E R : status' = Deleted(R)
      BY <1>3 DEF DropMaps, DropCancel, DropData, CleanupMaps, CleanupData
    <3> QED BY <2>1, <3>1, TypedDeleted DEF TypeOK
  <2>3. /\ result_handlers' \subseteq Results
        /\ resultId_taskId' = result_handlers' /\ taskId_resultId' = result_handlers'
    BY <1>3, <2>1 DEF DropMaps, DropCancel, DropData, CleanupMaps, CleanupData, Forget, TypeOK
  <2>4. UNCHANGED <<waitVars, jobs>>
    BY <1>3 DEF DropMaps, DropCancel, DropData, CleanupMaps, CleanupData
  <2> QED BY <2>2, <2>3, <2>4, TypedMaps
<1>4. CASE UNCHANGED vars BY <1>4, TypedMaps DEF TypedPlaces, TypeOK
<1> QED BY <1>1, <1>2, <1>3, <1>4, TypedByWaiter, TypedByJob DEF Next, WaiterStep, JobsOf

(* The variables are of their types, and the three maps know the same      *)
(* results whenever nobody holds the lock: registration, waits, DropSession *)
(* and CleanupTasks all change them together (SessionServiceImpl.cpp:      *)
(* 282-289, 605-622, 760-766, 805-815).                                    *)
THEOREM MapsAgree == Spec => []TypeOK
<1>1. TypedPlaces => TypeOK BY DEF TypedPlaces
<1> QED BY <1>1, TypedInit, TypedNext, ClaimsAlways, PTL DEF Spec
-----------------------------------------------------------------------------
(* How often a handler is told of an error.  A task that has a handler has *)
(* called its HandleError only after a download that failed; a second call *)
(* needs a HandleResponse in between that throws.                          *)
Silent == {"extract", "download", "failed", "respond"}
Told ==
  /\ \A r \in Results :
       /\ errors[r] <= responses[r] + 1
       /\ "throw" \notin Failures => errors[r] <= 1
  /\ \A j \in jobs : j.handler =>
       /\ j.step \in Silent => errors[j.r] = 0
       /\ j.step = "respond_empty" => errors[j.r] <= 1
       /\ j.step = "error" =>
            /\ errors[j.r] <= responses[j.r]
            /\ "throw" \notin Failures => errors[j.r] = 0

TwiceAfterResponse == \A r \in Results : errors[r] <= responses[r] + 1

LEMMA ToldElsewhere ==
  ASSUME Told, UNCHANGED <<responses, errors>>, \A j \in jobs' : j.handler => j \in jobs
  PROVE  Told'
<1>1. \A r \in Results : responses'[r] = responses[r] /\ errors'[r] = errors[r] OBVIOUS
<1>2. \A r \in Results : /\ errors'[r] <= responses'[r] + 1
                         /\ "throw" \notin Failures => errors'[r] <= 1
  BY <1>1 DEF Told
<1>3. ASSUME NEW j \in jobs', j.handler
      PROVE  /\ j.step \in Silent => errors'[j.r] = 0
             /\ j.step = "respond_empty" => errors'[j.r] <= 1
             /\ j.step = "error" =>
                  /\ errors'[j.r] <= responses'[j.r]
                  /\ "throw" \notin Failures => errors'[j.r] = 0
  BY <1>3 DEF Told
<1> QED BY <1>2, <1>3 DEF Told

(* Where a task goes next.                                                 *)
LEMMA JobGoes ==
  ASSUME Shapes, NEW j \in jobs, Job(j), NEW k \in jobs' \ jobs
  PROVE  /\ k.step # "respond_empty" \/ DownloadFailed(j)
         /\ Download(j) => k.step \in Silent
         /\ Respond(j) => k.step = "error" /\ "throw" \in Failures
<1>1. IsJob(j) BY DEF Shapes
<1>2. ASSUME NEW step, jobs' = (jobs \ {j}) \cup {[j EXCEPT !.step = step]}
      PROVE  k.step = step
  <2>1. k = [j EXCEPT !.step = step] BY <1>2
  <2> QED BY <1>1, <2>1, Stepped
<1>3. CASE Extract(j)
  <2> DEFINE known == j.r \in result_handlers
  <2>1. k = [j EXCEPT !.step = FirstStep(j), !.handler = known] BY <1>3 DEF Extract
  <2>2. k.step = FirstStep(j)
    <3> HIDE DEF known
    <3>1. k = [w |-> j.w, r |-> j.r, status |-> j.status, step |-> FirstStep(j),
               handler |-> known]
      BY <1>1, <2>1, Taken
    <3> QED BY <3>1
  <2>3. j.step = "extract" BY <1>3 DEF Extract
  <2> QED BY <2>2, <2>3 DEF FirstStep, Download, Respond
<1>4. CASE Download(j)
  <2>1. k.step \in {"respond", "failed"} BY <1>2, <1>4 DEF Download, Goto
  <2> QED BY <1>4, <2>1 DEF Download, Respond, Silent
<1>5. CASE DownloadFailed(j) BY <1>5 DEF DownloadFailed, Download, Respond
<1>6. CASE Respond(j)
  <2>1. "throw" \in Failures /\ jobs' = (jobs \ {j}) \cup {[j EXCEPT !.step = "error"]}
    BY <1>6 DEF Respond, HandleResponse, Goto, End
  <2>2. k.step = "error" BY <1>2, <2>1
  <2> QED BY <1>6, <2>1, <2>2 DEF Download, Respond
<1>7. CASE NoHandler(j) \/ Report(j) BY <1>7 DEF NoHandler, Report, End
<1> QED BY <1>3, <1>4, <1>5, <1>6, <1>7 DEF Job

LEMMA ToldByJob ==
  ASSUME Shapes, Claims, Told, NEW j \in jobs, Job(j)
  PROVE  Told'
<1>1. IsJob(j) /\ j.r \in Results BY DEF Shapes, IsJob
<1> DEFINE e == errors[j.r]
           n == responses[j.r]
           f == errors'[j.r]
           m == responses'[j.r]
<1>2. e \in Nat /\ n \in Nat BY <1>1 DEF Shapes
<1>3. ASSUME NEW r \in Results, r # j.r \/ ~j.handler
      PROVE  responses'[r] = responses[r] /\ errors'[r] = errors[r]
  <2>1. ASSUME HandleError(j) PROVE errors'[r] = errors[r]
    BY <1>1, <1>3, <2>1 DEF HandleError, Shapes
  <2>2. CASE Respond(j)
    <3>1. j.handler /\ responses' = [responses EXCEPT ![j.r] = @ + 1] /\ errors' = errors
      BY <2>2 DEF Respond, HandleResponse
    <3> QED BY <1>3, <3>1 DEF Shapes
  <2> QED BY <2>1, <2>2 DEF Job, Extract, Download, DownloadFailed, NoHandler, Report
(* The one task that has the handler of a result is the one that steps.    *)
<1>4. ASSUME NEW i \in jobs', i \in jobs, i.handler PROVE i.r # j.r \/ ~j.handler
  <2>1. i # j BY JobLeaves, <1>4
  <2> QED BY <1>4, <2>1 DEF Claims
<1>5. ASSUME NEW i \in jobs', i \in jobs, i.handler
      PROVE  /\ i.step \in Silent => errors'[i.r] = 0
             /\ i.step = "respond_empty" => errors'[i.r] <= 1
             /\ i.step = "error" =>
                  /\ errors'[i.r] <= responses'[i.r]
                  /\ "throw" \notin Failures => errors'[i.r] = 0
  <2>1. i.r \in Results BY <1>5 DEF Shapes, IsJob
  <2>2. responses'[i.r] = responses[i.r] /\ errors'[i.r] = errors[i.r]
    BY <1>3, <1>4, <1>5, <2>1
  <2> QED BY <1>5, <2>2 DEF Told
<1>6. ASSUME /\ f <= m + 1 /\ ("throw" \notin Failures => f <= 1)
             /\ \A k \in jobs' \ jobs : k.handler =>
                  /\ k.step \in Silent => f = 0
                  /\ k.step = "respond_empty" => f <= 1
                  /\ k.step = "error" => f <= m /\ ("throw" \notin Failures => f = 0)
      PROVE  Told'
  <2>1. \A r \in Results : /\ errors'[r] <= responses'[r] + 1
                           /\ "throw" \notin Failures => errors'[r] <= 1
    BY <1>3, <1>6 DEF Told
  <2>2. ASSUME NEW k \in jobs' \ jobs PROVE k.r = j.r BY JobMoves
  <2>3. ASSUME NEW i \in jobs', i.handler
        PROVE  /\ i.step \in Silent => errors'[i.r] = 0
               /\ i.step = "respond_empty" => errors'[i.r] <= 1
               /\ i.step = "error" =>
                    /\ errors'[i.r] <= responses'[i.r]
                    /\ "throw" \notin Failures => errors'[i.r] = 0
    <3>1. CASE i \in jobs BY <1>5, <2>3, <3>1
    <3>2. CASE i \notin jobs BY <1>6, <2>2, <2>3, <3>2
    <3> QED BY <3>1, <3>2
  <2> QED BY <2>1, <2>3 DEF Told
<1>7. e <= n + 1 /\ ("throw" \notin Failures => e <= 1) BY <1>1 DEF Told
<1>8. CASE Extract(j)
  <2>1. f = e /\ m = n BY <1>8 DEF Extract
  <2>2. j.r \in result_handlers => e = 0 /\ n = 0 BY <1>1, <1>2 DEF Claims, Called
  <2>3. \A k \in jobs' \ jobs :
          /\ k.handler = (j.r \in result_handlers) /\ k.step # "respond_empty"
    <3>1. ~DownloadFailed(j) BY <1>8 DEF Extract, DownloadFailed
    <3> QED BY <1>8, <3>1, JobMoves, JobGoes
  <2>4. ASSUME NEW k \in jobs' \ jobs, k.handler
        PROVE  /\ k.step \in Silent => f = 0
               /\ k.step = "respond_empty" => f <= 1
               /\ k.step = "error" => f <= m /\ ("throw" \notin Failures => f = 0)
    <3>1. j.r \in result_handlers BY <2>3, <2>4
    <3>2. f = 0 /\ m = 0 BY <2>1, <2>2, <3>1
    <3> QED BY <3>2
  <2> QED BY <1>6, <1>7, <2>1, <2>4
<1>9. CASE ~j.handler
  <2>1. f = e /\ m = n BY <1>1, <1>3, <1>9
  <2>2. CASE Extract(j) BY <1>8, <2>2
  <2>3. CASE ~Extract(j)
    <3>1. \A k \in jobs' \ jobs : ~k.handler BY <1>9, <2>3, JobMoves
    <3> QED BY <1>6, <1>7, <2>1, <3>1
  <2> QED BY <2>2, <2>3
<1>10. CASE j.handler /\ Download(j)
  <2>1. f = e /\ m = n /\ e = 0 BY <1>10 DEF Download, Told, Silent
  <2>2. \A k \in jobs' \ jobs : k.step \in Silent BY <1>10, JobGoes
  <2> QED BY <1>2, <1>6, <1>7, <2>1, <2>2 DEF Silent
<1>11. CASE j.handler /\ DownloadFailed(j)
  <2>1. m = n /\ f = e + 1 /\ e = 0
    <3>1. errors' = [errors EXCEPT ![j.r] = @ + 1] BY <1>11 DEF DownloadFailed, HandleError
    <3> QED BY <1>1, <1>11, <3>1 DEF DownloadFailed, Told, Silent, Shapes
  <2>2. \A k \in jobs' \ jobs : k.step = "respond_empty"
    <3>1. ASSUME NEW k \in jobs' \ jobs PROVE k.step = "respond_empty"
      <4>1. k = [j EXCEPT !.step = "respond_empty"] BY <1>11 DEF DownloadFailed, Goto
      <4> QED BY <1>1, <4>1, Stepped
    <3> QED BY <3>1
  <2> QED BY <1>2, <1>6, <2>1, <2>2 DEF Silent
<1>12. CASE j.handler /\ Respond(j)
  <2>1. f = e /\ m = n + 1 /\ n = 0
    <3>1. responses' = [responses EXCEPT ![j.r] = @ + 1] /\ errors' = errors
      BY <1>12 DEF Respond, HandleResponse
    <3>2. j.step # "error" BY <1>12 DEF Respond
    <3> QED BY <1>1, <1>12, <3>1, <3>2 DEF Shapes, Claims
  <2>2. e <= 1 BY <1>12 DEF Respond, Told, Silent
  <2>3. \A k \in jobs' \ jobs : k.step = "error" /\ "throw" \in Failures BY <1>12, JobGoes
  <2> QED BY <1>2, <1>6, <2>1, <2>2, <2>3 DEF Silent
<1>13. CASE j.handler /\ Report(j)
  <2>1. m = n /\ f = e + 1
    <3>1. errors' = [errors EXCEPT ![j.r] = @ + 1] BY <1>13 DEF Report, HandleError
    <3> QED BY <1>1, <1>13, <3>1 DEF Report, Shapes
  <2>2. e <= n /\ ("throw" \notin Failures => e = 0) BY <1>13 DEF Report, Told
  <2>3. jobs' \ jobs = {} BY <1>13 DEF Report, End
  <2> QED BY <1>2, <1>6, <2>1, <2>2, <2>3
<1> QED BY <1>8, <1>9, <1>10, <1>11, <1>12, <1>13 DEF Job, NoHandler

LEMMA ToldNext == ClaimsInv /\ Told /\ [Next]_vars => Told'
<1> SUFFICES ASSUME ClaimsInv, Told, [Next]_vars PROVE Told'
  OBVIOUS
<1>1. ASSUME NEW s \in Submitters, Register(s) PROVE Told'
  BY <1>1, ToldElsewhere DEF Register
<1>2. ASSUME NEW w \in Waiters, Dispatch(w) PROVE Told'
  <2>1. \A k \in jobs' : k.handler => k \in jobs BY <1>2 DEF Dispatch, NewJob
  <2> QED BY <1>2, <2>1, ToldElsewhere DEF Dispatch
<1>3. ASSUME NEW j \in jobs, Job(j) PROVE Told'
  BY <1>3, ToldByJob DEF ClaimsInv
<1>4. CASE DropMaps \/ CleanupMaps
  BY <1>4, ToldElsewhere DEF DropMaps, CleanupMaps
<1>5. CASE Elsewhere BY <1>5, ToldElsewhere DEF Elsewhere
<1> QED BY <1>1, <1>2, <1>3, <1>4, <1>5, ElsewhereSteps DEF ClaimsInv

LEMMA ToldAlways == Spec => [](ClaimsInv /\ Told)
<1>1. Init => ClaimsInv /\ Told
  <2>1. Init => Told
    <3> SUFFICES ASSUME Init PROVE Told
      OBVIOUS
    <3>1. jobs = {} /\ \A r \in Results : responses[r] = 0 /\ errors[r] = 0 BY DEF Init
    <3> QED BY <3>1 DEF Told
  <2> QED BY <2>1, ClaimsInit
<1>2. ClaimsInv /\ Told /\ [Next]_vars => (ClaimsInv /\ Told)'
  BY ShapesNext, ClaimsNext, ToldNext DEF ClaimsInv
<1> QED BY <1>1, <1>2, PTL DEF Spec

(* A handler is told of two errors at most, and of the second one only     *)
(* after its HandleResponse (SessionServiceImpl.cpp:627-677).              *)
THEOREM SecondErrorFollowsResponse == Spec => []TwiceAfterResponse
<1>1. Told => TwiceAfterResponse BY DEF Told, TwiceAfterResponse
<1> QED BY <1>1, ToldAlways, PTL

(* What the guide says of HandleError is true of handlers that do not      *)
(* throw: they are told of one error at most.                              *)
THEOREM ErrorsAreReportedOnce == "throw" \notin Failures => (Spec => []ErrorAtMostOnce)
<1> SUFFICES ASSUME "throw" \notin Failures PROVE Spec => []ErrorAtMostOnce
  OBVIOUS
<1>1. Told => ErrorAtMostOnce BY DEF Told, ErrorAtMostOnce
<1> QED BY <1>1, ToldAlways, PTL
=============================================================================
