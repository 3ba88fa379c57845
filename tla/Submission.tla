----------------------------- MODULE Submission -----------------------------
(***************************************************************************)
(* One call of SessionServiceImpl::Submit: raw inputs are uploaded first   *)
(* (task definitions only), then the payloads are uploaded and the outputs *)
(* created, then the tasks are submitted, then their handlers registered.  *)
(* Requests are grouped by batchers and run as tasks of a join set while   *)
(* the caller goes on; the caller waits for the join set between stages.   *)
(*                                                                         *)
(* A result is named <<kind, n>>: the raw input n, the payload or the      *)
(* output of task n.  ids are the results whose id the caller has been     *)
(* told; the vectors raw_result_ids, input_result_ids and                  *)
(* output_result_ids of the code are its three kinds.  What the requests   *)
(* do on their way to the control plane (retries, channels) is left out.   *)
(***************************************************************************)
EXTENDS Naturals, Sequences, FiniteSets, SequencesExt

CONSTANTS
  N,                 \* number of tasks
  InputOf,           \* sequence: the task that each raw input belongs to
  Sizes,             \* the sizes that inputs and payloads may have
  submit_batch_size,
  message_overhead,
  data_chunk_max_size,
  Failures           \* requests that may fail (members of RequestKinds)

RequestKinds == {"metadata", "create", "upload", "submit"}
BatcherKinds == {"metadata", "create", "submit"}

Tasks == 1..N
Inputs == DOMAIN InputOf

ASSUME SizeAssumption == N \in Nat /\ InputOf \in Seq(Tasks) /\ Sizes \subseteq Nat
ASSUME OptionAssumption ==
  /\ submit_batch_size \in Nat /\ message_overhead \in Nat
  /\ data_chunk_max_size \in Nat /\ Failures \subseteq RequestKinds

VARIABLES
  size,         \* size[r]: bytes of the data of result r (never changes)
  stage,        \* "inputs", "payloads" or "submit"; "returned" or "thrown"
  todo,         \* what the loop of the stage has not added to a batcher yet
  waiting,      \* the caller waits for the join set
  pending,      \* pending[k]: what the batcher of requests k holds
  data_batched, \* bytes of the pending small data
  requests,     \* tasks of the join set: [kind, batch]
  exception,    \* the join set has kept an exception
  ids,          \* results whose id is known
  stored,       \* results whose data is in the control plane
  submitted,    \* submitted[i]: how often task i was submitted
  registered    \* tasks whose handler is registered

control == <<ids, stored, submitted>>
vars == <<size, stage, todo, waiting, pending, data_batched, requests,
          exception, control, registered>>

Data == ({"input"} \X Inputs) \cup ({"payload"} \X Tasks)

(* What the loop of a stage adds to the batchers, in order.                *)
Loop(s) ==
  CASE s = "inputs"   -> [j \in Inputs |-> <<"input", j>>]
    [] s = "payloads" -> [n \in 1..2 * N |-> IF n % 2 = 1 THEN <<"output", (n + 1) \div 2>>
                                                          ELSE <<"payload", n \div 2>>]
    [] s = "submit"   -> [i \in Tasks |-> <<"task", i>>]

Init ==
  /\ size \in [Data -> Sizes]
  /\ stage = IF Inputs = {} THEN "payloads" ELSE "inputs"
  /\ todo = Loop(stage) /\ waiting = FALSE
  /\ pending = [k \in BatcherKinds |-> <<>>] /\ data_batched = 0
  /\ requests = {} /\ exception = FALSE
  /\ ids = {} /\ stored = {} /\ submitted = [i \in Tasks |-> 0]
  /\ registered = {}

-----------------------------------------------------------------------------
Cost(r) == size[r] + message_overhead
Large(r) == Cost(r) >= data_chunk_max_size

Route(r) ==
  CASE r[1] = "task" -> "submit"
    [] r[1] = "output" \/ (r[1] \in {"input", "payload"} /\ Large(r)) -> "metadata"
    [] OTHER -> "create"

(* Mutant: small data is never sent before the batch is full.              *)
NeverOverflows(r) == FALSE
Overflows(r) == data_batched + Cost(r) >= data_chunk_max_size

(* Batcher: Add appends and processes a full batch; ProcessBatch passes    *)
(* what is pending, if anything, to the function of the batcher.           *)
Full(b) == Len(b) >= submit_batch_size
Request(k, b) == IF b = <<>> THEN {} ELSE {[kind |-> k, batch |-> b]}

(* Mutant: the bytes are reset only when a batch is sent early.            *)
BytesKept(bytes, sent) == bytes
BytesLeft(bytes, sent) == IF sent THEN 0 ELSE bytes

(* One turn of a loop: small data is sent early when the next one would    *)
(* make the request too large.                                             *)
Add ==
  /\ ~waiting /\ todo # <<>>
  /\ LET r     == Head(todo)
         k     == Route(r)
         early == k = "create" /\ Overflows(r) /\ pending[k] # <<>>
         batch == Append(IF early THEN <<>> ELSE pending[k], r)
         bytes == IF early THEN 0 ELSE data_batched
     IN  /\ pending' = [pending EXCEPT ![k] = IF Full(batch) THEN <<>> ELSE batch]
         /\ requests' = requests
              \cup (IF early THEN Request(k, pending[k]) ELSE {})
              \cup (IF Full(batch) THEN Request(k, batch) ELSE {})
         /\ data_batched' = IF k = "create" THEN BytesLeft(bytes + Cost(r), Full(batch))
                                            ELSE data_batched
  /\ todo' = Tail(todo)
  /\ UNCHANGED <<size, stage, waiting, exception, control, registered>>

(* Mutant: the batch of submissions that is not full is forgotten.         *)
FlushedKindsOfData == {"metadata", "create"}
FlushedKinds == BatcherKinds

(* Mutant: the batcher passes a copy of its batch on.                      *)
Copied == pending
Emptied == [k \in BatcherKinds |-> <<>>]

(* After the loop, the batchers are flushed.                               *)
Flush ==
  /\ ~waiting /\ todo = <<>> /\ stage \in {"inputs", "payloads", "submit"}
  /\ requests' = requests \cup UNION {Request(k, pending[k]) : k \in FlushedKinds}
  /\ pending' = Emptied
  /\ data_batched' = 0
  /\ waiting' = TRUE
  /\ UNCHANGED <<size, stage, todo, exception, control, registered>>

(* JoinSet::Wait returns: the next stage, or the handlers are registered   *)
(* under the lock and the call returns.                                    *)
(* Mutant: uploads are not part of the join set.                           *)
JoinedButUploads == \A q \in requests : q.kind = "upload"
Joined == requests = {}

Enter(s) ==
  /\ stage' = s /\ todo' = Loop(s) /\ waiting' = FALSE
  /\ UNCHANGED <<size, pending, data_batched, requests, exception, control, registered>>

NextStage ==
  /\ waiting /\ Joined /\ ~exception
  /\ \/ stage = "inputs" /\ Enter("payloads")
     \/ stage = "payloads" /\ Enter("submit")

Register ==
  /\ waiting /\ Joined /\ ~exception /\ stage = "submit"
  /\ registered' = Tasks
  /\ stage' = "returned" /\ waiting' = FALSE
  /\ UNCHANGED <<size, todo, pending, data_batched, requests, exception, control>>

(* JoinSet::Wait rethrows; the call ends when the destructor of the join   *)
(* set has waited for the other requests.                                  *)
(* Mutant: it does not wait for them.                                      *)
UnwindAtOnce ==
  /\ waiting /\ exception
  /\ stage' = "thrown" /\ waiting' = FALSE
  /\ UNCHANGED <<size, todo, pending, data_batched, requests, exception, control, registered>>
Unwind ==
  /\ waiting /\ exception /\ requests = {}
  /\ stage' = "thrown" /\ waiting' = FALSE
  /\ UNCHANGED <<size, todo, pending, data_batched, requests, exception, control, registered>>

-----------------------------------------------------------------------------
(* The tasks of the join set.  A request that fails may have had its       *)
(* effect on the control plane all the same.                               *)
Results(q) == ToSet(q.batch)

(* Metadata: the ids are stored, and every result with data gets a task    *)
(* that uploads it.                                                        *)
CreateMetadata(q) ==
  /\ q.kind = "metadata"
  /\ ids' = ids \cup Results(q)
  /\ requests' = (requests \ {q}) \cup
       {[kind |-> "upload", batch |-> <<r>>] : r \in Results(q) \cap Data}
  /\ UNCHANGED <<stored, submitted, exception>>

CreateData(q) ==
  /\ q.kind = "create"
  /\ ids' = ids \cup Results(q) /\ stored' = stored \cup Results(q)
  /\ requests' = requests \ {q}
  /\ UNCHANGED <<submitted, exception>>

UploadData(q) ==
  /\ q.kind = "upload"
  /\ stored' = stored \cup Results(q)
  /\ requests' = requests \ {q}
  /\ UNCHANGED <<ids, submitted, exception>>

SubmittedBy(q) == {r[2] : r \in Results(q)}
CountSubmitted(q) ==
  submitted' = [i \in Tasks |-> IF i \in SubmittedBy(q) THEN submitted[i] + 1 ELSE submitted[i]]

SubmitTasks(q) ==
  /\ q.kind = "submit"
  /\ CountSubmitted(q)
  /\ requests' = requests \ {q}
  /\ UNCHANGED <<ids, stored, exception>>

Fail(q) ==
  /\ q.kind \in Failures
  /\ exception' = TRUE /\ requests' = requests \ {q}
  /\ UNCHANGED ids
  /\ \/ UNCHANGED <<stored, submitted>>
     \/ q.kind \in {"create", "upload"} /\ stored' = stored \cup Results(q) /\ UNCHANGED submitted
     \/ q.kind = "submit" /\ CountSubmitted(q) /\ UNCHANGED stored

Run(q) ==
  /\ CreateMetadata(q) \/ CreateData(q) \/ UploadData(q) \/ SubmitTasks(q) \/ Fail(q)
  /\ UNCHANGED <<size, stage, todo, waiting, pending, data_batched, registered>>

Caller == Add \/ Flush \/ NextStage \/ Register \/ Unwind
Pool == \E q \in requests : Run(q)
Done == stage \in {"returned", "thrown"} /\ requests = {} /\ UNCHANGED vars

Next == Caller \/ Pool \/ Done

Spec == Init /\ [][Next]_vars

-----------------------------------------------------------------------------
(* The variables are of their types; nothing is pending while the caller   *)
(* waits, the running count of bytes is that of the pending small data,    *)
(* and only known results are stored, unless their request failed.         *)
Bytes(b) ==
  LET sum[n \in 0..Len(b)] == IF n = 0 THEN 0 ELSE sum[n - 1] + Cost(b[n])
  IN  sum[Len(b)]
TypeOK ==
  /\ size \in [Data -> Sizes]
  /\ stage \in {"inputs", "payloads", "submit", "returned", "thrown"}
  /\ waiting \in BOOLEAN /\ exception \in BOOLEAN
  /\ data_batched \in Nat /\ data_batched = Bytes(pending["create"])
  /\ \A q \in requests : q.kind \in RequestKinds /\ q.batch # <<>>
  /\ waiting => \A k \in BatcherKinds : pending[k] = <<>>
  /\ submitted \in [Tasks -> Nat] /\ registered \subseteq Tasks
  /\ exception \/ stored \subseteq ids

(* A task is submitted only when everything it needs is there: its output  *)
(* has been created, its payload and its raw inputs have been uploaded, by *)
(* requests that a request may itself have started.                        *)
TasksAreReady ==
  \A i \in Tasks : submitted[i] > 0 =>
    /\ <<"output", i>> \in ids /\ <<"payload", i>> \in stored
    /\ \A j \in Inputs : InputOf[j] = i => <<"input", j>> \in stored

(* A request with data stays below the largest message, and no batch is    *)
(* larger than the batch size (0 counts as 1).                             *)
RequestsFit ==
  \A q \in requests :
    /\ q.kind = "create" => Bytes(q.batch) < data_chunk_max_size
    /\ Len(q.batch) <= submit_batch_size \/ Len(q.batch) = 1

(* No task is submitted twice; a call that returns has submitted and       *)
(* registered all of its tasks, one that throws has registered none.       *)
AllOrNone ==
  /\ \A i \in Tasks : submitted[i] <= 1
  /\ stage = "returned" => registered = Tasks /\ \A i \in Tasks : submitted[i] = 1
  /\ stage # "returned" => registered = {}

(* Requests refer to the local variables of the call: none runs when it    *)
(* has ended.                                                              *)
LocalsOutliveRequests == stage \in {"returned", "thrown"} => requests = {}
=============================================================================
