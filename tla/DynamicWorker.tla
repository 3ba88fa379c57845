--------------------------- MODULE DynamicWorker ---------------------------
(***************************************************************************)
(* The dynamic worker (ArmoniK.SDK.DynamicWorker): one process executes    *)
(* task after task; for each it makes sure that the right shared library   *)
(* is loaded, that a service of it exists and has entered the task's       *)
(* session, and calls the method.  The library, the service and the        *)
(* session are kept for the next task, and a failure in the middle leaves  *)
(* them as they are at that point.  User code is behind the five functions *)
(* of the ArmoniK SDK interface.                                           *)
(*                                                                         *)
(* A library is named by its path; dlopen of a loaded path only counts a   *)
(* reference, so a function pointer is good while its library is loaded.   *)
(* What the code names by pointers are records here: services and sessions *)
(* are the service and session contexts that user code has not destroyed.  *)
(***************************************************************************)
EXTENDS Naturals, FiniteSets, Sequences

CONSTANTS Tasks,     \* the tasks ArmoniK may send: records
                     \*   [mode, lib, blob, ns, name, session]
          Failures,  \* the calls that may fail (members of FailureSites)
          RawCalls,  \* armonik_call is user code, not armonik_call_default
          MayStop,   \* the worker may be stopped between two tasks
          MaxTasks,  \* bound: number of tasks executed
          None       \* an empty string, id or pointer

FailureSites == {"app_dlopen", "app_dlsym", "service_create",
                 "lib_dlopen", "lib_dlsym", "lib_create", "enter", "leave"}

ASSUME FailureAssumption ==
  /\ Failures \subseteq FailureSites /\ MaxTasks \in Nat
  /\ RawCalls \in BOOLEAN /\ MayStop \in BOOLEAN
ASSUME TaskAssumption ==
  \A t \in Tasks : t.mode \in {"legacy", "convention"} /\ t.lib # None
                   /\ <<t.lib, t.ns, t.name>> # None
                   /\ t.session # None /\ t.blob \in BOOLEAN
                   /\ \A u \in Tasks : t.mode # u.mode => t.lib # u.lib

VARIABLES
  phase,            \* what DynamicWorker::Execute does next
  task,             \* the task it executes
  count,            \* number of tasks received
  currentId,        \* ApplicationManager::currentId
  currentLibrary,   \* ApplicationManager::currentLibrary
  functionPointers, \* the library ApplicationManager::functionPointers are of
  currentLibraryPath, currentLibraryServiceName,
  sm,               \* service_manager: [serviceId, session, service, context, lib]
  fresh,            \* the ServiceManager that UseService has just built
  services,         \* service contexts created and not destroyed
  sessions,         \* session contexts entered and not left
  writes,           \* writes[l]: how often the library file l was written
  call,             \* the call being executed: [sent, retry, error, status]
  result            \* how the last task ended: none, ok, error, retry

manager ==
  <<currentId, currentLibrary, functionPointers,
    currentLibraryPath, currentLibraryServiceName>>
userVars == <<services, sessions>>
vars == <<phase, task, count, currentId, currentLibrary, functionPointers,
          currentLibraryPath, currentLibraryServiceName, sm, fresh, services,
          sessions, writes, call, result>>

Libs == {t.lib : t \in Tasks}
NoManager == [serviceId |-> None, session |-> None, service |-> None,
              context |-> None, lib |-> None]
NoCall == [sent |-> 0, retry |-> FALSE, error |-> FALSE, status |-> "none"]

Init ==
  /\ phase = "idle" /\ task = None /\ count = 0
  /\ currentId = None /\ currentLibrary = None /\ functionPointers = None
  /\ currentLibraryPath = None /\ currentLibraryServiceName = None
  /\ sm = NoManager /\ fresh = NoManager
  /\ services = {} /\ sessions = {}
  /\ writes = [l \in Libs |-> 0]
  /\ call = NoCall /\ result = "none"

-----------------------------------------------------------------------------
(* An exception ends the task where it is thrown: an ArmoniKSdkException   *)
(* becomes an error status, any other one is left to the server.           *)
Throw(outcome) == phase' = "idle" /\ result' = outcome
ThrowAny == \E outcome \in {"error", "retry"} : Throw(outcome)
Fails(site) == site \in Failures

(* The ids of services; the id of a manager without a service is empty.    *)
ServiceId(t) == <<t.lib, t.ns, t.name>>
HasService(m) == m.serviceId # None

(* ServiceManager::clear: leave the session, destroy the service.          *)
(* A leave_session that throws leaves everything as it is.  (The           *)
(* destructor of a ServiceBase does not throw.)                            *)
LeaveFails(m) == Fails("leave") /\ HasService(m) /\ m.session # None
(* Mutant: the session is not left.                                        *)
NotLeft(m) == {}
Left(m) == IF HasService(m) /\ m.session # None THEN {m.context} ELSE {}
(* Mutant: the service is not destroyed.                                   *)
NotDestroyed(m) == {}
Destroyed(m) == IF HasService(m) THEN {m.service} ELSE {}
(* Mutant: the id of the destroyed service is kept.                        *)
ClearedExceptId(m) == [m EXCEPT !.session = None]
Cleared(m) == IF HasService(m) THEN [m EXCEPT !.serviceId = None, !.session = None] ELSE m
(* Mutant: the service manager is cleared without calling user code.       *)
DropManager ==
  /\ sm' = Cleared(sm)
  /\ UNCHANGED <<services, sessions>>
Clear ==
  /\ sm' = Cleared(sm)
  /\ sessions' = sessions \ Left(sm)
  /\ services' = services \ Destroyed(sm)

(* An exception in the destructor of a ServiceManager ends the process.    *)
Crash ==
  /\ phase' = "crashed" /\ sm' = NoManager /\ fresh' = NoManager
  /\ sessions' = {} /\ services' = {}

(* ServiceManager(functionPointers, serviceId): create_service.            *)
NewService(l) == [n |-> count, lib |-> l, ns |-> task.ns, name |-> task.name]
(* Mutant: the new service takes over the session of the old one.          *)
NewManagerInSession(l) == [serviceId |-> ServiceId(task),
                  session |-> sm.session, service |-> NewService(l),
                  context |-> sm.context, lib |-> l]
NewManager(l) == [serviceId |-> ServiceId(task), session |-> None,
                  service |-> NewService(l), context |-> None, lib |-> l]

-----------------------------------------------------------------------------
(* DynamicWorker::Execute receives a task; the library of a blob task is   *)
(* written to its file first.                                              *)
Receive(t) ==
  /\ phase = "idle" /\ count < MaxTasks
  /\ task' = t /\ count' = count + 1 /\ phase' = "library"
  /\ writes' = IF t.blob THEN [writes EXCEPT ![t.lib] = @ + 1] ELSE writes
  /\ call' = NoCall /\ result' = "none"
  /\ UNCHANGED <<manager, sm, fresh, userVars>>

(* The options or the payload of the task make no sense, or its blob is    *)
(* missing: an error before the application manager is asked.              *)
ReceiveMalformed(t) ==
  /\ phase = "idle" /\ count < MaxTasks
  /\ task' = t /\ count' = count + 1
  /\ \E written \in {0, IF t.blob THEN 1 ELSE 0} :
       writes' = [writes EXCEPT ![t.lib] = @ + written]
  /\ call' = NoCall
  /\ ThrowAny
  /\ UNCHANGED <<manager, sm, fresh, userVars>>

(* ApplicationManager::UseApplication.                                     *)
KeepApplication ==
  /\ phase = "library" /\ task.mode = "legacy" /\ task.lib = currentId
  /\ phase' = "service"
  /\ UNCHANGED <<task, count, manager, sm, fresh, userVars, writes, call, result>>

(* Mutant: UseApplication leaves the path of the last library.             *)
KeepLibraryPath == UNCHANGED currentLibraryPath
ForgetLibraryPath == currentLibraryPath' = None

LoadApplication ==
  /\ phase = "library" /\ task.mode = "legacy" /\ task.lib # currentId
  /\ Clear
  /\ ForgetLibraryPath
  /\ \/ /\ Fails("app_dlopen")
        /\ Throw("error")
        /\ UNCHANGED <<currentLibrary, functionPointers, currentId>>
     \/ /\ Fails("app_dlsym")
        /\ currentLibrary' = task.lib
        /\ Throw("error")
        /\ UNCHANGED <<functionPointers, currentId>>
     \/ /\ currentLibrary' = task.lib /\ functionPointers' = task.lib
        /\ currentId' = task.lib
        /\ phase' = "service" /\ UNCHANGED result
  /\ UNCHANGED <<task, count, currentLibraryServiceName, fresh, writes, call>>

Matches == sm.serviceId = ServiceId(task)

(* ApplicationManager::UseService: the new service is created while the    *)
(* current one still exists ...                                            *)
KeepService ==
  /\ phase = "service" /\ Matches
  /\ phase' = "session"
  /\ UNCHANGED <<task, count, manager, sm, fresh, userVars, writes, call, result>>

CreateService ==
  /\ phase = "service" /\ ~Matches
  /\ \/ /\ Fails("service_create")
        /\ ThrowAny
        /\ UNCHANGED <<fresh, services>>
     \/ /\ fresh' = NewManager(functionPointers)
        /\ services' = services \cup {NewService(functionPointers)}
        /\ phase' = "swap" /\ UNCHANGED result
  /\ UNCHANGED <<task, count, manager, sm, sessions, writes, call>>

(* ... which is left and destroyed with the temporary it is swapped into.  *)
(* Mutant: the temporary that took the old service is not destroyed.       *)
SwapOnly ==
  /\ phase = "swap"
  /\ sm' = fresh /\ fresh' = sm
  /\ phase' = "session"
  /\ UNCHANGED <<task, count, manager, userVars, writes, call, result>>
SwapService ==
  /\ phase = "swap"
  /\ \/ LeaveFails(sm) /\ Crash
     \/ /\ sm' = fresh /\ fresh' = NoManager
        /\ sessions' = sessions \ Left(sm)
        /\ services' = services \ Destroyed(sm)
        /\ phase' = "session"
  /\ UNCHANGED <<task, count, manager, writes, call, result>>

-----------------------------------------------------------------------------
(* ApplicationManager::UseLibrary.                                         *)
Loaded == task.lib = currentLibraryPath /\ task.name = currentLibraryServiceName

KeepLibrary ==
  /\ phase = "library" /\ task.mode = "convention" /\ Loaded
  /\ phase' = "session"
  /\ UNCHANGED <<task, count, manager, sm, fresh, userVars, writes, call, result>>

(* Mutant: UseLibrary leaves the id of the last application.               *)
KeepApplicationId == UNCHANGED currentId
ForgetApplication == currentId' = None

LoadLibrary ==
  /\ phase = "library" /\ task.mode = "convention" /\ ~Loaded
  /\ Clear
  /\ ForgetApplication
  /\ \/ /\ Fails("lib_dlopen")
        /\ Throw("error")
        /\ UNCHANGED <<currentLibrary, functionPointers, currentLibraryPath,
                       currentLibraryServiceName>>
     \/ /\ Fails("lib_dlsym")
        /\ currentLibrary' = task.lib
        /\ Throw("error")
        /\ UNCHANGED <<functionPointers, currentLibraryPath, currentLibraryServiceName>>
     \/ /\ currentLibrary' = task.lib /\ functionPointers' = task.lib
        /\ currentLibraryPath' = task.lib /\ currentLibraryServiceName' = task.name
        /\ phase' = "create" /\ UNCHANGED result
  /\ UNCHANGED <<task, count, fresh, writes, call>>

CreateInLibrary ==
  /\ phase = "create"
  /\ \/ /\ Fails("lib_create")
        /\ ThrowAny
        /\ UNCHANGED <<sm, services>>
     \/ /\ sm' = NewManager(functionPointers)
        /\ services' = services \cup {NewService(functionPointers)}
        /\ phase' = "session" /\ UNCHANGED result
  /\ UNCHANGED <<task, count, manager, fresh, sessions, writes, call>>

-----------------------------------------------------------------------------
(* ServiceManager::UseSession.                                             *)
KeepSession ==
  /\ phase = "session" /\ task.session = sm.session
  /\ phase' = "call"
  /\ UNCHANGED <<task, count, manager, sm, fresh, userVars, writes, call, result>>

ChangeSession ==
  /\ phase = "session" /\ task.session # sm.session
  /\ LET left  == IF sm.session = None THEN {} ELSE {sm.context}
         enter == [n |-> count, service |-> sm.service, session |-> task.session]
     IN  \/ /\ Fails("leave") /\ sm.session # None
            /\ ThrowAny
            /\ UNCHANGED <<sm, sessions>>
         \/ /\ Fails("enter")
            /\ sm' = [sm EXCEPT !.session = task.session]
            /\ sessions' = sessions \ left
            /\ ThrowAny
         \/ /\ sm' = [sm EXCEPT !.session = task.session, !.context = enter]
            /\ sessions' = (sessions \ left) \cup {enter}
            /\ phase' = "call" /\ UNCHANGED result
  /\ UNCHANGED <<task, count, manager, fresh, services, writes, call>>

-----------------------------------------------------------------------------
Statuses == {"OK", "ERROR", "RETRY"}

(* The callback, ServiceManager::UploadResult, for a status; c is the      *)
(* ArmonikContext (whose output is ok until an error is set).              *)
UploadResult(c, status) ==
  CASE status = "RETRY" -> [c EXCEPT !.retry = TRUE]
    [] status = "ERROR" -> [c EXCEPT !.error = TRUE]
    [] OTHER            -> [c EXCEPT !.error = FALSE, !.sent = @ + 1]

(* ServiceManager::Execute once armonik_call has returned a status.        *)
(* Mutant: the status is looked at before the retry flag.                  *)
StatusFirst(c, status) ==
  IF status # "OK" THEN "error" ELSE IF c.retry THEN "retry" ELSE "ok"
Outcome(c, status) ==
  IF c.retry THEN "retry" ELSE IF status # "OK" THEN "error" ELSE "ok"

Return(c, status) ==
  /\ call' = [c EXCEPT !.status = status]
  /\ Throw(Outcome(c, status))
  /\ UNCHANGED <<task, count, manager, sm, fresh, userVars, writes>>

(* armonik_call_default around ServiceBase::call, which gives a result or  *)
(* throws an ArmoniKSdkException or another exception; sending the result  *)
(* may throw as well, inside the same try block.                           *)
CallDefault ==
  /\ phase = "call" /\ ~RawCalls
  /\ \/ Return(UploadResult(call, "OK"), "OK")
     \/ Return(UploadResult(call, "ERROR"), "ERROR")
     \/ Return(UploadResult(call, "RETRY"), "RETRY")

(* A library may also implement armonik_call itself: no callback or one,   *)
(* and any status.                                                         *)
CallRaw ==
  /\ phase = "call" /\ RawCalls
  /\ \E status \in Statuses :
       \/ Return(call, status)
       \/ \E reported \in Statuses : Return(UploadResult(call, reported), status)

-----------------------------------------------------------------------------
(* clear, at the beginning of UseApplication and of UseLibrary, throws.    *)
CannotLeave ==
  /\ phase = "library" /\ LeaveFails(sm)
  /\ IF task.mode = "legacy" THEN task.lib # currentId ELSE ~Loaded
  /\ ThrowAny
  /\ UNCHANGED <<task, count, manager, sm, fresh, userVars, writes, call>>

(* The worker is stopped: the members of ApplicationManager are destroyed  *)
(* in the reverse order of their declaration, the library before the       *)
(* service manager.                                                        *)
Unload ==
  /\ MayStop /\ phase = "idle"
  /\ phase' = "unloaded" /\ currentLibrary' = None
  /\ UNCHANGED <<task, count, currentId, functionPointers, currentLibraryPath,
                 currentLibraryServiceName, sm, fresh, userVars, writes, call, result>>

DestroyManager ==
  /\ phase = "unloaded"
  /\ \/ LeaveFails(sm) /\ Crash
     \/ Clear /\ phase' = "stopped" /\ UNCHANGED fresh
  /\ UNCHANGED <<task, count, manager, writes, call, result>>

Next ==
  \/ \E t \in Tasks : Receive(t) \/ ReceiveMalformed(t)
  \/ KeepApplication \/ LoadApplication
  \/ KeepService \/ CreateService \/ SwapService
  \/ KeepLibrary \/ LoadLibrary \/ CreateInLibrary
  \/ KeepSession \/ ChangeSession
  \/ CallDefault \/ CallRaw
  \/ CannotLeave \/ Unload \/ DestroyManager

Spec == Init /\ [][Next]_vars

-----------------------------------------------------------------------------
(* The variables are of their types; the temporary of UseService exists    *)
(* only until the end of the statement that swaps it in, and no file has   *)
(* been written by more tasks than were received.                          *)
TypeOK ==
  /\ phase \in {"idle", "library", "service", "create", "swap", "session", "call",
               "unloaded", "stopped", "crashed"}
  /\ task \in Tasks \cup {None} /\ count \in 0..MaxTasks
  /\ {currentId, currentLibrary, functionPointers, currentLibraryPath}
       \subseteq Libs \cup {None}
  /\ DOMAIN sm = DOMAIN NoManager
  /\ fresh # NoManager <=> phase = "swap"
  /\ writes \in [Libs -> 0..count]
  /\ result \in {"none", "ok", "error", "retry"}

(* A session is entered, and a method called, only in a service that user  *)
(* code has created and not destroyed, through functions of the library    *)
(* that is loaded: what one task leaves behind must be good for the next.  *)
ServiceIsLive ==
  phase \in {"session", "call"} =>
    sm.service \in services /\ sm.lib = currentLibrary

(* A method is called with the context that this very service returned on  *)
(* entering the session of the task, and has not been told to leave.       *)
ContextIsEntered ==
  phase = "call" =>
    /\ sm.context \in sessions
    /\ sm.context.service = sm.service /\ sm.context.session = task.session

(* The caches never confuse two tasks: the service that is called is of    *)
(* the library and the name the task asks for, whatever kind of task ran   *)
(* before.  (UseLibrary caches by path and name only; UseService also by   *)
(* namespace.)                                                             *)
RightService ==
  phase = "call" =>
    /\ sm.service.lib = task.lib /\ sm.service.name = task.name
    /\ task.mode = "legacy" => sm.service.ns = task.ns

(* A session is left before its service is destroyed, and a service is     *)
(* destroyed before its library is unloaded: its destructor would be gone. *)
LifetimesNest ==
  /\ \A c \in sessions : c.service \in services
  /\ \A s \in services : s.lib = currentLibrary

(* Every service that was created is either the one in use or has been     *)
(* destroyed, whatever failed on the way; only while UseService swaps them *)
(* there are two, and a worker that has stopped has left none.             *)
NoServiceLeak ==
  /\ services \subseteq {sm.service} \cup (IF phase = "swap" THEN {fresh.service} ELSE {})
  /\ phase = "stopped" => services = {}

(* The cache of applications and the cache of libraries are never both     *)
(* valid: only one library is loaded, so one of them would be wrong.       *)
OneKindLoaded == currentId = None \/ currentLibraryPath = None

(* The status of a call decides the fate of its task: OK gives an ok task, *)
(* ERROR a permanent error and RETRY a retry.                              *)
StatusHonoured ==
  /\ call.status = "OK" => result = "ok"
  /\ call.status = "ERROR" => result = "error"
  /\ call.status = "RETRY" => result = "retry"
=============================================================================
