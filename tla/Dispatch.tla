------------------------------ MODULE Dispatch ------------------------------
(***************************************************************************)
(* The way of a request from a client to the user code of a worker.  The   *)
(* client describes a library in its task options, uploads the library and *)
(* the inputs as blobs, and submits payloads of either format with the     *)
(* lists of the blobs they depend on.  DynamicWorker::Execute finds out    *)
(* from the options how the payload is to be read, which library to load   *)
(* and what the inputs are.  How requests get to the control plane is in   *)
(* Submission and Upload, how a library is loaded in DynamicWorker; here a *)
(* submission succeeds and a library that is found is loaded.              *)
(*                                                                         *)
(* asked, meant, stale, causes and calls are history: what was asked for,  *)
(* and what user code was called with.                                     *)
(***************************************************************************)
EXTENDS Payloads, Configuration, FiniteSets

CONSTANTS
  Libraries,    \* contents of library files of the client
  Descriptions, \* what a client may fill in of a DynamicLibrary: [path, symbol]
  MethodNames,  \* what a definition may have as method_name; None: ""
  InputSets,    \* the inputs a definition may have, by name, before blob
                \* ids are known: <<"data", d>> or <<"existing">>
  LegacyPayloads, \* [method, arguments]: sequences of characters
  max_retries,
  MaxBlobs, MaxTasks \* bounds: blobs, and tasks of the one request

VARIABLES
  taskOptions, \* those of the session; None: it is not open
  lib,         \* the client's DynamicLibrary, while it prepares one
  options,     \* the client's TaskOptions
  store,       \* the blobs in the control plane: id -> data
  tasks,       \* the tasks that were submitted
  errno,       \* ERANGE is in errno, of the thread of the worker
  calls        \* the calls of user code

vars == <<configVars, taskOptions, lib, options, store, tasks, errno, calls>>

NoLibrary == [path |-> None, symbol |-> None, blob |-> None]
NoOptions == [version |-> None, path |-> None, symbol |-> None, blob |-> None,
              meant |-> NoLibrary, stale |-> FALSE]
ConventionVersion == "v1"

ASSUME InputAssumption ==
  /\ None # ConventionVersion /\ MaxTasks \in Nat
  /\ \A ins \in InputSets :
       /\ IsFiniteSet(DOMAIN ins)
       /\ \A name \in DOMAIN ins :
            ins[name] = <<"existing">> \/ ins[name] = <<"data", ins[name][2]>>
  /\ \A p \in LegacyPayloads : p.method \in Seq(Nat) /\ p.arguments \in Seq(Nat)

Init ==
  /\ ConfigInit /\ taskOptions = None
  /\ lib = None /\ options = NoOptions
  /\ store = <<>> /\ tasks = <<>> /\ errno = FALSE /\ calls = {}

(* An id of an earlier library is left in the options when the new one has *)
(* none.                                                                   *)
WithLibrary(o, l) ==
  [version |-> ConventionVersion, path |-> l.path, symbol |-> l.symbol,
   blob |-> IF l.blob = None THEN o.blob ELSE l.blob,
   meant |-> l, stale |-> l.blob = None /\ o.blob # None]

-----------------------------------------------------------------------------
(* The program configures, then opens a session with a copy of one of its  *)
(* configurations and with its task options; bound: it keeps none of the   *)
(* objects it configured with, and uses one session.                       *)
Configure ==
  /\ taskOptions = None /\ ConfigNext
  /\ UNCHANGED <<taskOptions, lib, options, store, tasks, errno, calls>>

OpenSession ==
  /\ taskOptions = None /\ LeaveScope
  /\ \E c \in Configs : impl[c] # Null
  /\ \E d \in Descriptions \cup {None} :
       taskOptions' =
         IF d = None THEN NoOptions
         ELSE WithLibrary(NoOptions, [path |-> d.path, symbol |-> d.symbol, blob |-> None])
  /\ options' = taskOptions'
  /\ UNCHANGED <<lib, store, tasks, errno, calls>>

-----------------------------------------------------------------------------
(* The client.  Bound: it prepares and sends one request, of at most       *)
(* MaxTasks tasks.                                                         *)
OneRequest == taskOptions # None /\ tasks = <<>>

DescribeLibrary ==
  /\ OneRequest /\ lib = None
  /\ \E d \in Descriptions : lib' = [path |-> d.path, symbol |-> d.symbol, blob |-> None]
  /\ UNCHANGED <<configVars, taskOptions, options, store, tasks, errno, calls>>

(* UploadLibrary: a result is created and its data streamed; the id is     *)
(* stored in lib only when all has succeeded.                              *)
CreateBlob(content) ==
  /\ Len(store) < MaxBlobs
  /\ store' = Append(store, content)

UploadLibrary ==
  /\ OneRequest /\ lib # None
  /\ \/ \E content \in Libraries :
          CreateBlob(<<"data", content>>) /\ lib' = [lib EXCEPT !.blob = Len(store) + 1]
     \/ CreateBlob(None) /\ UNCHANGED lib
  /\ UNCHANGED <<configVars, taskOptions, options, tasks, errno, calls>>

SetDynamicLibrary ==
  /\ OneRequest /\ lib # None
  /\ options' = WithLibrary(options, lib) /\ lib' = None
  /\ UNCHANGED <<configVars, taskOptions, store, tasks, errno, calls>>

-----------------------------------------------------------------------------
(* Submit for task definitions, which are [method_name, inputs].  An input *)
(* is <<"data", d>>, to be uploaded as a blob, or <<"id", n>>.  The raw    *)
(* inputs of all definitions are in one sequence, whose j-th member gets   *)
(* the id raw_result_ids[j].                                               *)
RawNames(inputs) == {name \in DOMAIN inputs : inputs[name][1] = "data"}
RawInputs(inputs) ==
  FlattenSeq([i \in DOMAIN inputs |->
    SetToSeq({<<i, name>> : name \in RawNames(inputs[i])})])
NewId(j) == Len(store) + j

(* Mutant: the ids of a task are found by the place among its own inputs.  *)
IdInTask(raw, i, name) ==
  LET own == SelectSeq(raw, LAMBDA r : r[1] = i)
  IN  NewId(CHOOSE j \in DOMAIN own : own[j] = <<i, name>>)
IdOf(raw, i, name) == NewId(CHOOSE j \in DOMAIN raw : raw[j] = <<i, name>>)

PayloadInputs(raw, i, inputs) ==
  [name \in DOMAIN inputs |->
     IF name \in RawNames(inputs) THEN <<"id", IdOf(raw, i, name)>> ELSE inputs[name]]

(* Mutant: the library is not among the dependencies.                      *)
InputDependencies(o, payload) == {payload[name][2] : name \in DOMAIN payload}
Dependencies(o, payload) ==
  ({o.blob} \ {None}) \cup {payload[name][2] : name \in DOMAIN payload}

(* What the task is to be called with, as the headers of the client say:   *)
(* the data of its inputs, of the library that its options were last       *)
(* given, and the method that the definition names or else the symbol.     *)
Data(blobs, inputs) ==
  [name \in DOMAIN inputs |->
     IF inputs[name][1] = "id" THEN blobs[inputs[name][2]] ELSE inputs[name]]
Meant(o) == IF o.meant.blob = None THEN o.meant.path ELSE store[o.meant.blob]
Asked(o, definition) ==
  [kind |-> "convention", library |-> Meant(o),
   method |-> IF definition.method_name = None THEN o.meant.symbol ELSE definition.method_name,
   inputs |-> Data(store, definition.inputs)]

NewTask(o, asked, dependencies, payload) ==
  [options |-> o, asked |-> asked, dependencies |-> dependencies, payload |-> payload,
   attempts |-> 0, status |-> "submitted", causes |-> {}]

SubmitDefinitions(o, definitions) ==
  LET inputs == [i \in DOMAIN definitions |-> definitions[i].inputs]
      raw == RawInputs(inputs)
      TaskOf(i) ==
        LET payload == PayloadInputs(raw, i, inputs[i])
        IN  NewTask(o, Asked(o, definitions[i]), Dependencies(o, payload),
                    ToJson(definitions[i].method_name, payload))
  IN  /\ Len(store) + Len(raw) <= MaxBlobs
      /\ store' = store \o [j \in DOMAIN raw |-> inputs[raw[j][1]][raw[j][2]]]
      /\ tasks' = tasks \o [i \in DOMAIN definitions |-> TaskOf(i)]

(* Submit for legacy payloads: they carry their dependencies themselves.   *)
LegacyPayload(p, dependencies) ==
  [method |-> p.method, arguments |-> p.arguments,
   dependencies |-> [k \in DOMAIN dependencies |-> <<Base + dependencies[k]>>]]

SubmitPayload(o, p) ==
  /\ \E dependencies \in {<<>>} \cup {<<n>> : n \in DOMAIN store} :
       tasks' = Append(tasks,
         NewTask(o, [kind |-> "legacy", method |-> p.method, arguments |-> p.arguments],
                 ToSet(dependencies), ToBinary(LegacyPayload(p, dependencies))))
  /\ UNCHANGED store

(* Another client, of an SDK that sends its inputs inline, names no method *)
(* in its payload and may speak another version of the convention.         *)
SubmitForeign ==
  /\ \E d \in Descriptions, version \in {ConventionVersion, "v2"} :
       \E inputs \in {ins \in InputSets : RawNames(ins) = DOMAIN ins /\ IsText(ins)} :
         LET l == [path |-> d.path, symbol |-> d.symbol, blob |-> None]
             o == [WithLibrary(NoOptions, l) EXCEPT !.version = version]
             definition == [method_name |-> None, inputs |-> inputs]
         IN  tasks' = Append(tasks, NewTask(o, Asked(o, definition), {}, ToJson(None, inputs)))
  /\ UNCHANGED store

(* A reference to a blob that exists is to any blob that has data.         *)
Uploaded == {n \in DOMAIN store : store[n] # None}
GivenInputs ==
  (UNION {{[name \in DOMAIN ins |-> IF ins[name] = <<"existing">> THEN <<"id", n>> ELSE ins[name]] :
             n \in Uploaded} : ins \in InputSets})
  \cup {ins \in InputSets : RawNames(ins) = DOMAIN ins}
Definitions == [method_name : MethodNames, inputs : GivenInputs]

Submit ==
  /\ OneRequest
  /\ \E o \in {options, taskOptions} : \* given, or those of the session
       \/ \E n \in 1..MaxTasks : \E ds \in [1..n -> Definitions] : SubmitDefinitions(o, ds)
       \/ \E p \in LegacyPayloads : SubmitPayload(o, p)
  /\ UNCHANGED <<configVars, taskOptions, lib, options, errno, calls>>

OtherClient ==
  /\ OneRequest /\ SubmitForeign
  /\ UNCHANGED <<configVars, taskOptions, lib, options, errno, calls>>

-----------------------------------------------------------------------------
(* DynamicWorker::Execute.  The blobs a task depends on are downloaded     *)
(* before.                                                                 *)
Available(t) == [n \in t.dependencies |-> store[n]]
Library(t) == IF t.options.blob = None THEN t.options.path ELSE Available(t)[t.options.blob]

Resolved(t) ==
  LET inputs == t.payload.inputs
  IN  [name \in DOMAIN inputs |->
         IF inputs[name][1] = "id" /\ inputs[name][2] \in t.dependencies
         THEN Available(t)[inputs[name][2]] ELSE inputs[name]]

IsConvention(t) == t.options.version # None
IsJson(t) == t.payload.format = "json"

(* Why the task is refused before user code is called: an                  *)
(* ArmoniKSdkException is a permanent error ...                            *)
Permanent(t) ==
  LET wrong == [version |-> t.options.version # ConventionVersion,
                library |-> t.options.path = None /\ t.options.blob = None,
                blob    |-> t.options.blob \notin t.dependencies \cup {None},
                payload |-> ~IsJson(t),
                symbol  |-> t.options.symbol = None]
  IN  {c \in DOMAIN wrong : IsConvention(t) /\ wrong[c]}

(* ... and any other exception is left to the server, and the task tried   *)
(* again: a legacy payload that cannot be read, which it never can when    *)
(* errno is ERANGE, and inputs that cannot be passed on as JSON.           *)
Transient(t) ==
  LET wrong == [payload |-> ~IsConvention(t)
                              /\ (IsJson(t) \/ ~Deserialize(t.payload.characters).ok),
                errno   |-> ~IsConvention(t) /\ errno,
                text    |-> IsConvention(t) /\ IsJson(t) /\ ~IsText(Resolved(t))]
  IN  {c \in DOMAIN wrong : wrong[c]}

(* The method is the symbol, whatever the payload names.  ServiceBase::call *)
(* takes the inputs out of the JSON it is called with.                     *)
Received(json) == json.inputs
Called(t) ==
  IF IsConvention(t)
  THEN [kind |-> "convention", library |-> Library(t), method |-> t.options.symbol,
        inputs |-> Received(ToJson(t.options.symbol, Resolved(t)))]
  ELSE LET p == Deserialize(t.payload.characters)
       IN  [kind |-> "legacy", method |-> p.method, arguments |-> p.arguments]

(* A task that is to be retried is tried again until it has been tried     *)
(* max_retries + 1 times.                                                  *)
Ended(t, outcome) ==
  [t EXCEPT !.attempts = @ + 1,
            !.status = CASE outcome = "ok" -> "completed"
                         [] outcome = "retry" /\ t.attempts < max_retries -> "submitted"
                         [] OTHER -> "error"]

Refuse(i) ==
  LET t == tasks[i]
  IN  /\ t.status = "submitted" /\ Permanent(t) \cup Transient(t) # {}
      /\ tasks' = [tasks EXCEPT ![i] =
           [Ended(t, IF Permanent(t) # {} THEN "error" ELSE "retry") EXCEPT
              !.causes = @ \cup Permanent(t) \cup Transient(t)]]
      /\ UNCHANGED <<errno, calls>>

(* User code may leave any value in errno.                                 *)
Call(i) ==
  LET t == tasks[i]
  IN  /\ t.status = "submitted" /\ Permanent(t) \cup Transient(t) = {}
      /\ calls' = calls \cup {[task |-> i, what |-> Called(t)]}
      /\ \E outcome \in {"ok", "error", "retry"} :
           tasks' = [tasks EXCEPT ![i] = Ended(t, outcome)]
      /\ errno' \in BOOLEAN

Execute ==
  /\ \E i \in DOMAIN tasks : Refuse(i) \/ Call(i)
  /\ UNCHANGED <<configVars, taskOptions, lib, options, store>>

Next ==
  \/ Configure \/ OpenSession
  \/ DescribeLibrary \/ UploadLibrary \/ SetDynamicLibrary
  \/ Submit \/ OtherClient \/ Execute

Spec == Init /\ [][Next]_vars

-----------------------------------------------------------------------------
(* The client has prepared a task as the guide says: its payload is of the *)
(* kind its options announce, its library is complete and was given to     *)
(* options that had no other one, and its fields fit their sizes.  The     *)
(* worker wants a symbol also of a task whose definition names a method.   *)
Prepared(t) ==
  IF t.asked.kind = "legacy"
  THEN /\ t.options.version = None
       /\ Len(t.asked.method) <= MaxSize /\ Len(t.asked.arguments) <= MaxSize
  ELSE /\ t.options.version = ConventionVersion /\ ~t.options.stale
       /\ None \notin {t.asked.library, t.options.meant.symbol}

(* The method that was asked for is not the symbol of the library: the     *)
(* worker does not read it, and MethodIsDispatched fails.                  *)
NamesAnother(t) == t.asked.kind = "convention" /\ t.asked.method # t.options.meant.symbol
Answers(t, what) ==
  what = IF NamesAnother(t) THEN [t.asked EXCEPT !.method = what.method] ELSE t.asked

(* User code is called with what the client asked for: the method and the  *)
(* arguments of the payload, or the library that was uploaded or named,    *)
(* its symbol, and the data of every input under its name, wherever that   *)
(* data has been.  Of the method it says nothing when the definition names *)
(* another one.  A payload is never taken for one of the other format.     *)
CalledAsAsked ==
  \A c \in calls : LET t == tasks[c.task] IN
    /\ c.what.kind = t.asked.kind
    /\ Prepared(t) => Answers(t, c.what)

(* "Method name to dispatch to on the worker" (TaskDefinition.h:37-39): a  *)
(* task is called with the method that its definition names, and with the  *)
(* symbol only when it names none.                                         *)
MethodIsDispatched ==
  \A c \in calls : LET t == tasks[c.task] IN
    Prepared(t) => c.what.method = t.asked.method

(* A task that was prepared is never refused for good, and is sent back    *)
(* only for what the client cannot see: a stale errno on the thread of the *)
(* worker, or data that JSON cannot hold.                                  *)
RefusedForCause ==
  \A i \in DOMAIN tasks : Prepared(tasks[i]) => tasks[i].causes \subseteq {"errno", "text"}
=============================================================================
