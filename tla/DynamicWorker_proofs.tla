------------------------ MODULE DynamicWorker_proofs ------------------------
(***************************************************************************)
(* Theorems about the dynamic worker, for any tasks, any number of them    *)
(* and any None.  The first part holds whatever fails, the second one as   *)
(* long as libraries load.                                                 *)
(***************************************************************************)
EXTENDS DynamicWorker, TLAPS

Active == {"library", "service", "create", "swap", "session", "call"}

IsManager(m) ==
  m = [serviceId |-> m.serviceId, session |-> m.session, service |-> m.service,
       context |-> m.context, lib |-> m.lib]

Managed ==
  /\ TypeOK
  /\ IsManager(sm) /\ IsManager(fresh)
  /\ phase \in Active => task \in Tasks

USE DEF vars, manager, userVars

LEMMA IdsAreNotEmpty == ASSUME NEW t \in Tasks PROVE ServiceId(t) # None
  BY TaskAssumption DEF ServiceId

LEMMA NewManagerIsManager ==
  ASSUME task \in Tasks, NEW l
  PROVE  /\ IsManager(NewManager(l)) /\ HasService(NewManager(l))
         /\ NewManager(l) # NoManager
<1>1. NewManager(l).serviceId # None BY IdsAreNotEmpty DEF NewManager
<1>2. NoManager.serviceId = None BY DEF NoManager
<1>3. IsManager(NewManager(l)) BY DEF IsManager, NewManager
<1> QED BY <1>1, <1>2, <1>3 DEF HasService

LEMMA ClearedIsManager ==
  ASSUME NEW m, IsManager(m)
  PROVE  /\ IsManager(Cleared(m)) /\ ~HasService(Cleared(m))
         /\ Cleared(m).service = m.service
         /\ DOMAIN Cleared(m) = DOMAIN NoManager
<1>1. DOMAIN m = DOMAIN NoManager BY DEF IsManager, NoManager
<1>2. CASE ~HasService(m) BY <1>1, <1>2 DEF Cleared
<1>3. CASE HasService(m)
  <2>1. Cleared(m) = [serviceId |-> None, session |-> None, service |-> m.service,
                      context |-> m.context, lib |-> m.lib]
    BY <1>3 DEF Cleared, IsManager
  <2> QED BY <2>1 DEF IsManager, HasService, NoManager
<1> QED BY <1>2, <1>3

LEMMA ManagedInit == Init => Managed
<1> SUFFICES ASSUME Init PROVE Managed
  OBVIOUS
<1>1. IsManager(NoManager) BY DEF IsManager, NoManager
<1>2. TypeOK BY FailureAssumption DEF Init, TypeOK
<1> QED BY <1>1, <1>2 DEF Init, Managed, Active

LEMMA EnteredIsManager ==
  ASSUME NEW m, IsManager(m), NEW s, NEW c
  PROVE  /\ [m EXCEPT !.session = s]
              = [serviceId |-> m.serviceId, session |-> s, service |-> m.service,
                 context |-> m.context, lib |-> m.lib]
         /\ [m EXCEPT !.session = s, !.context = c]
              = [serviceId |-> m.serviceId, session |-> s, service |-> m.service,
                 context |-> c, lib |-> m.lib]
         /\ IsManager([m EXCEPT !.session = s])
         /\ IsManager([m EXCEPT !.session = s, !.context = c])
<1>1. [m EXCEPT !.session = s]
        = [serviceId |-> m.serviceId, session |-> s, service |-> m.service,
           context |-> m.context, lib |-> m.lib]
  BY DEF IsManager
<1>2. [m EXCEPT !.session = s, !.context = c]
        = [serviceId |-> m.serviceId, session |-> s, service |-> m.service,
           context |-> c, lib |-> m.lib]
  <2> DEFINE r == [m EXCEPT !.session = s]
  <2>1. [m EXCEPT !.session = s, !.context = c] = [r EXCEPT !.context = c]
    OBVIOUS
  <2>2. r = [serviceId |-> m.serviceId, session |-> s, service |-> m.service,
             context |-> m.context, lib |-> m.lib]
    BY <1>1
  <2>3. [r EXCEPT !.context = c]
          = [serviceId |-> m.serviceId, session |-> s, service |-> m.service,
             context |-> c, lib |-> m.lib]
    <3> HIDE DEF r
    <3> QED BY <2>2
  <2> QED BY <2>1, <2>3
<1> QED BY <1>1, <1>2 DEF IsManager

(* All variables of TypeOK but those of the service managers; and these.   *)
CountersOK ==
  /\ phase \in Active \cup {"idle", "unloaded", "stopped", "crashed"}
  /\ task \in Tasks \cup {None} /\ count \in 0..MaxTasks
  /\ {currentId, currentLibrary, functionPointers, currentLibraryPath}
       \subseteq Libs \cup {None}
  /\ writes \in [Libs -> 0..count]
  /\ result \in {"none", "ok", "error", "retry"}
  /\ phase \in Active => task \in Tasks

ManagersOK ==
  /\ IsManager(sm) /\ IsManager(fresh)
  /\ fresh # NoManager <=> phase = "swap"

LEMMA ManagedParts == Managed <=> CountersOK /\ ManagersOK
<1>1. IsManager(sm) => DOMAIN sm = DOMAIN NoManager BY DEF IsManager, NoManager
<1> QED BY <1>1 DEF Managed, TypeOK, CountersOK, ManagersOK, Active

LEMMA WritesBounded ==
  ASSUME CountersOK, NEW l \in Libs, NEW written \in {0, 1}
  PROVE  /\ [writes EXCEPT ![l] = @ + written] \in [Libs -> 0..(count + 1)]
         /\ writes \in [Libs -> 0..(count + 1)]
<1>1. count \in Nat /\ writes \in [Libs -> 0..count]
  BY FailureAssumption DEF CountersOK
<1>2. 0..count \subseteq 0..(count + 1) BY <1>1
<1>3. writes[l] + written \in 0..(count + 1) BY <1>1
<1> QED BY <1>1, <1>2, <1>3

LEMMA CountersNext == CountersOK /\ [Next]_vars => CountersOK'
<1> SUFFICES ASSUME CountersOK, [Next]_vars PROVE CountersOK'
  OBVIOUS
<1>1. ASSUME NEW t \in Tasks, Receive(t) \/ ReceiveMalformed(t) PROVE CountersOK'
  <2>1. t.lib \in Libs BY DEF Libs
  <2>2. count \in Nat /\ count + 1 \in 0..MaxTasks
    BY <1>1, FailureAssumption DEF CountersOK, Receive, ReceiveMalformed
  <2>3. CASE Receive(t)
    <3>1. writes' \in [Libs -> 0..(count + 1)]
      BY <2>1, <2>3, WritesBounded DEF Receive
    <3> QED BY <2>2, <2>3, <3>1 DEF Receive, CountersOK, Active
  <2>4. CASE ReceiveMalformed(t)
    <3>1. PICK written \in {0, IF t.blob THEN 1 ELSE 0} :
            writes' = [writes EXCEPT ![t.lib] = @ + written]
      BY <2>4 DEF ReceiveMalformed
    <3>2. written \in {0, 1} BY <3>1
    <3>3. writes' \in [Libs -> 0..(count + 1)]
      BY <2>1, <3>1, <3>2, WritesBounded
    <3> QED BY <2>2, <2>4, <3>3 DEF ReceiveMalformed, ThrowAny, Throw, CountersOK, Active
  <2> QED BY <1>1, <2>3, <2>4
<1>2. CASE KeepApplication \/ KeepService \/ KeepLibrary \/ KeepSession
  BY <1>2 DEF KeepApplication, KeepService, KeepLibrary, KeepSession, CountersOK, Active
<1>3. CASE LoadApplication
  <2>1. task \in Tasks /\ task.lib \in Libs
    BY <1>3 DEF LoadApplication, CountersOK, Active, Libs
  <2> QED BY <1>3, <2>1 DEF LoadApplication, ForgetLibraryPath, Throw, CountersOK, Active
<1>4. CASE LoadLibrary
  <2>1. task \in Tasks /\ task.lib \in Libs
    BY <1>4 DEF LoadLibrary, CountersOK, Active, Libs
  <2> QED BY <1>4, <2>1 DEF LoadLibrary, ForgetApplication, Throw, CountersOK, Active
<1>5. CASE CreateService \/ CreateInLibrary \/ ChangeSession \/ CannotLeave
  BY <1>5 DEF CreateService, CreateInLibrary, ChangeSession, CannotLeave, ThrowAny, Throw,
              CountersOK, Active
<1>6. CASE SwapService
  BY <1>6 DEF SwapService, Crash, CountersOK, Active
<1>7. CASE CallDefault \/ CallRaw
  <2>1. PICK c, status : Return(c, status) BY <1>7 DEF CallDefault, CallRaw
  <2>2. Outcome(c, status) \in {"ok", "error", "retry"} BY DEF Outcome
  <2> QED BY <2>1, <2>2 DEF Return, Throw, CountersOK, Active
<1>8. CASE Unload \/ DestroyManager
  BY <1>8 DEF Unload, DestroyManager, Crash, CountersOK, Active
<1>9. CASE UNCHANGED vars BY <1>9 DEF CountersOK, Active
<1> QED BY <1>1, <1>2, <1>3, <1>4, <1>5, <1>6, <1>7, <1>8, <1>9 DEF Next

LEMMA ManagersNext == CountersOK /\ ManagersOK /\ [Next]_vars => ManagersOK'
<1> SUFFICES ASSUME CountersOK, ManagersOK, [Next]_vars PROVE ManagersOK'
  OBVIOUS
<1> IsManager(NoManager) BY DEF IsManager, NoManager
<1> IsManager(Cleared(sm)) BY ClearedIsManager DEF ManagersOK
<1>1. ASSUME NEW t \in Tasks, Receive(t) \/ ReceiveMalformed(t) PROVE ManagersOK'
  BY <1>1 DEF Receive, ReceiveMalformed, ThrowAny, Throw, ManagersOK, IsManager
<1>2. CASE KeepApplication \/ KeepService \/ KeepLibrary \/ KeepSession
  BY <1>2 DEF KeepApplication, KeepService, KeepLibrary, KeepSession, ManagersOK, IsManager
<1>3. CASE LoadApplication \/ LoadLibrary
  <2>1. sm' = Cleared(sm) /\ fresh' = fresh /\ phase # "swap" /\ phase' # "swap"
    BY <1>3 DEF LoadApplication, LoadLibrary, Clear, Throw
  <2> QED BY <2>1 DEF ManagersOK, IsManager
<1>4. CASE CreateService
  <2>1. CASE fresh' = fresh /\ sm' = sm /\ phase' = "idle"
    BY <1>4, <2>1 DEF CreateService, ManagersOK, IsManager
  <2>2. CASE fresh' = NewManager(functionPointers) /\ sm' = sm /\ phase' = "swap"
    <3>1. task \in Tasks BY <1>4 DEF CreateService, CountersOK, Active
    <3>2. IsManager(fresh)' /\ fresh' # NoManager
      BY <2>2, <3>1, NewManagerIsManager DEF IsManager
    <3> QED BY <2>2, <3>2 DEF ManagersOK, IsManager
  <2> QED BY <1>4, <2>1, <2>2 DEF CreateService, ThrowAny, Throw
<1>5. CASE CreateInLibrary
  <2>1. CASE sm' = sm /\ fresh' = fresh /\ phase' = "idle"
    BY <1>5, <2>1 DEF CreateInLibrary, ManagersOK, IsManager
  <2>2. CASE sm' = NewManager(functionPointers) /\ fresh' = fresh /\ phase' = "session"
    <3>1. task \in Tasks BY <1>5 DEF CreateInLibrary, CountersOK, Active
    <3>2. IsManager(sm)' BY <2>2, <3>1, NewManagerIsManager DEF IsManager
    <3> QED BY <1>5, <2>2, <3>2 DEF CreateInLibrary, ManagersOK, IsManager
  <2> QED BY <1>5, <2>1, <2>2 DEF CreateInLibrary, ThrowAny, Throw
<1>6. CASE SwapService
  BY <1>6 DEF SwapService, Crash, ManagersOK, IsManager
<1>7. CASE ChangeSession
  <2>1. phase = "session" /\ phase' # "swap" /\ fresh' = fresh
    BY <1>7 DEF ChangeSession, ThrowAny, Throw
  <2>2. PICK c : \/ sm' = sm
                 \/ sm' = [sm EXCEPT !.session = task.session]
                 \/ sm' = [sm EXCEPT !.session = task.session, !.context = c]
    BY <1>7, Zenon DEF ChangeSession
  <2>3. IsManager(sm) /\ IsManager(fresh) BY DEF ManagersOK
  <2>4. IsManager([sm EXCEPT !.session = task.session])
        /\ IsManager([sm EXCEPT !.session = task.session, !.context = c])
    BY <2>3, EnteredIsManager
  <2>5. IsManager(sm)' BY <2>2, <2>3, <2>4 DEF IsManager
  <2>6. IsManager(fresh)' BY <2>1, <2>3 DEF IsManager
  <2> QED BY <2>1, <2>5, <2>6 DEF ManagersOK
<1>8. CASE CallDefault \/ CallRaw
  <2>1. PICK c, status : Return(c, status) BY <1>8 DEF CallDefault, CallRaw
  <2>2. phase = "call" BY <1>8 DEF CallDefault, CallRaw
  <2> QED BY <2>1, <2>2 DEF Return, Throw, ManagersOK, IsManager
<1>9. CASE CannotLeave \/ Unload
  BY <1>9 DEF CannotLeave, ThrowAny, Throw, Unload, ManagersOK, IsManager
<1>10. CASE DestroyManager
  BY <1>10 DEF DestroyManager, Crash, Clear, ManagersOK, IsManager
<1>11. CASE UNCHANGED vars BY <1>11 DEF ManagersOK, IsManager
<1> QED BY <1>1, <1>2, <1>3, <1>4, <1>5, <1>6, <1>7, <1>8, <1>9, <1>10, <1>11 DEF Next

LEMMA ManagedNext == Managed /\ [Next]_vars => Managed'
<1>1. (CountersOK /\ ManagersOK)' <=> Managed'
  BY ManagedParts, PTL
<1> QED BY <1>1, ManagedParts, CountersNext, ManagersNext

(* The variables are of their types whatever fails, and the temporary of   *)
(* UseService is there only while it is swapped in                         *)
(* (ApplicationManager.cpp:31-37).                                         *)
THEOREM WorkerTypeOK == Spec => []TypeOK
<1>1. Managed => TypeOK BY DEF Managed
<1> QED BY <1>1, ManagedInit, ManagedNext, PTL DEF Spec

-----------------------------------------------------------------------------
(* The service of the service manager, and that of the temporary while     *)
(* there is one, are all that user code has created and not destroyed.     *)
Temporary == IF phase = "swap" THEN {fresh.service} ELSE {}

Accounted ==
  /\ Managed
  /\ services \subseteq Destroyed(sm) \cup Temporary
  /\ phase = "swap" => HasService(fresh)
  /\ phase = "create" => ~HasService(sm)
  /\ phase = "stopped" => services = {}

LEMMA AccountedInit == Init => Accounted
<1> SUFFICES ASSUME Init PROVE Accounted
  OBVIOUS
<1>1. Managed BY ManagedInit
<1> QED BY <1>1 DEF Init, Accounted

LEMMA AccountedNext == Accounted /\ [Next]_vars => Accounted'
<1> SUFFICES ASSUME Accounted, [Next]_vars PROVE Accounted'
  OBVIOUS
<1>1. Managed /\ Managed' BY ManagedNext DEF Accounted
<1>2. IsManager(sm) /\ ~HasService(Cleared(sm))
  BY <1>1, ClearedIsManager DEF Managed
<1>3. Destroyed(Cleared(sm)) = {} BY <1>2 DEF Destroyed
<1>4. CASE \E t \in Tasks : Receive(t) \/ ReceiveMalformed(t)
  BY <1>1, <1>4 DEF Receive, ReceiveMalformed, ThrowAny, Throw, Accounted, Temporary,
                    Destroyed, HasService
<1>5. CASE KeepApplication \/ KeepService \/ KeepLibrary \/ KeepSession
  BY <1>1, <1>5 DEF KeepApplication, KeepService, KeepLibrary, KeepSession, Accounted,
                    Temporary, Destroyed, HasService
<1>6. CASE LoadApplication \/ LoadLibrary
  <2>1. /\ sm' = Cleared(sm) /\ services' = services \ Destroyed(sm)
        /\ phase = "library" /\ phase' \notin {"swap", "stopped"}
    BY <1>6 DEF LoadApplication, LoadLibrary, Clear, Throw
  <2>2. services' = {} BY <2>1 DEF Accounted, Temporary
  <2>3. ~HasService(sm)' BY <1>2, <2>1 DEF HasService
  <2> QED BY <1>1, <2>1, <2>2, <2>3 DEF Accounted, Temporary
<1>7. CASE CreateService
  <2>1. CASE UNCHANGED <<sm, fresh, services>> /\ phase' = "idle"
    BY <1>1, <1>7, <2>1 DEF CreateService, Accounted, Temporary, Destroyed, HasService
  <2>2. CASE /\ fresh' = NewManager(functionPointers) /\ sm' = sm /\ phase' = "swap"
             /\ services' = services \cup {NewService(functionPointers)}
    <3>1. fresh'.service = NewService(functionPointers) BY <2>2 DEF NewManager
    <3>2. task \in Tasks BY <1>1, <1>7 DEF CreateService, Managed, Active
    <3>3. HasService(fresh)' BY <2>2, <3>2, NewManagerIsManager DEF HasService
    <3> QED BY <1>1, <1>7, <2>2, <3>1, <3>3
            DEF CreateService, Accounted, Temporary, Destroyed, HasService
  <2> QED BY <1>7, <2>1, <2>2 DEF CreateService, ThrowAny, Throw
<1>8. CASE CreateInLibrary
  <2>1. CASE UNCHANGED <<sm, services>> /\ phase' = "idle"
    BY <1>1, <1>8, <2>1 DEF CreateInLibrary, Accounted, Temporary, Destroyed, HasService
  <2>2. CASE /\ sm' = NewManager(functionPointers) /\ phase' = "session"
             /\ services' = services \cup {NewService(functionPointers)}
    <3>1. task \in Tasks /\ services = {}
      BY <1>1, <1>8 DEF CreateInLibrary, Accounted, Temporary, Destroyed, Managed, Active
    <3>2. sm'.service = NewService(functionPointers) BY <2>2 DEF NewManager
    <3>3. HasService(sm)' BY <2>2, <3>1, NewManagerIsManager DEF HasService
    <3> QED BY <1>1, <2>2, <3>1, <3>2, <3>3 DEF Accounted, Destroyed
  <2> QED BY <1>8, <2>1, <2>2 DEF CreateInLibrary, ThrowAny, Throw
<1>9. CASE SwapService
  <2>1. CASE Crash
    BY <1>1, <2>1 DEF Crash, Accounted
  <2>2. CASE /\ sm' = fresh /\ phase' = "session"
             /\ services' = services \ Destroyed(sm)
    <3>1. services' \subseteq {fresh.service}
      BY <1>9, <2>2 DEF SwapService, Accounted, Temporary
    <3>2. HasService(sm)' BY <1>9, <2>2 DEF SwapService, Accounted, HasService
    <3> QED BY <1>1, <2>2, <3>1, <3>2 DEF Accounted, Destroyed
  <2> QED BY <1>9, <2>1, <2>2 DEF SwapService
<1>10. CASE ChangeSession
  <2>1. services' = services /\ phase = "session" /\ phase' \notin {"swap", "create", "stopped"}
    BY <1>10 DEF ChangeSession, ThrowAny, Throw
  <2>2. sm'.serviceId = sm.serviceId /\ sm'.service = sm.service
    <3>1. PICK c : \/ sm' = sm
                   \/ sm' = [sm EXCEPT !.session = task.session]
                   \/ sm' = [sm EXCEPT !.session = task.session, !.context = c]
      BY <1>10, Zenon DEF ChangeSession
    <3>2. [sm EXCEPT !.session = task.session]
            = [serviceId |-> sm.serviceId, session |-> task.session,
               service |-> sm.service, context |-> sm.context, lib |-> sm.lib]
      BY <1>2, EnteredIsManager
    <3>3. [sm EXCEPT !.session = task.session, !.context = c]
            = [serviceId |-> sm.serviceId, session |-> task.session,
               service |-> sm.service, context |-> c, lib |-> sm.lib]
      BY <1>2, EnteredIsManager
    <3> QED BY <3>1, <3>2, <3>3
  <2> QED BY <1>1, <2>1, <2>2 DEF Accounted, Temporary, Destroyed, HasService
<1>11. CASE CallDefault \/ CallRaw
  <2>1. PICK c, status : Return(c, status) BY <1>11 DEF CallDefault, CallRaw
  <2>2. phase = "call" BY <1>11 DEF CallDefault, CallRaw
  <2> QED BY <1>1, <2>1, <2>2
          DEF Return, Throw, Accounted, Temporary, Destroyed, HasService
<1>12. CASE CannotLeave \/ Unload
  BY <1>1, <1>12 DEF CannotLeave, Unload, ThrowAny, Throw, Accounted, Temporary, Destroyed,
                     HasService
<1>13. CASE DestroyManager
  <2>1. CASE Crash BY <1>1, <2>1 DEF Crash, Accounted
  <2>2. CASE Clear /\ phase' = "stopped"
    <3>1. services' = {} BY <1>13, <2>2 DEF DestroyManager, Clear, Accounted, Temporary
    <3> QED BY <1>1, <2>2, <3>1 DEF Accounted
  <2> QED BY <1>13, <2>1, <2>2 DEF DestroyManager
<1>14. CASE UNCHANGED vars
  BY <1>1, <1>14 DEF Accounted, Temporary, Destroyed, HasService
<1> QED BY <1>4, <1>5, <1>6, <1>7, <1>8, <1>9, <1>10, <1>11, <1>12, <1>13, <1>14 DEF Next

(* Whatever calls fail, user code is told to destroy every service that it *)
(* created and that is not in use, and a worker that has stopped has left  *)
(* none (ServiceManager.cpp:75-85, ServiceManager.h:48-56).                *)
THEOREM ServicesNeverLeak == Spec => []NoServiceLeak
<1>1. Accounted => NoServiceLeak
  BY DEF Accounted, Destroyed, Temporary, NoServiceLeak
<1> QED BY <1>1, AccountedInit, AccountedNext, PTL DEF Spec

-----------------------------------------------------------------------------
LEMMA KindsNext == OneKindLoaded /\ [Next]_vars => OneKindLoaded'
<1> SUFFICES ASSUME OneKindLoaded, [Next]_vars PROVE OneKindLoaded'
  OBVIOUS
<1>1. CASE LoadApplication BY <1>1 DEF LoadApplication, ForgetLibraryPath, OneKindLoaded
<1>2. CASE LoadLibrary BY <1>2 DEF LoadLibrary, ForgetApplication, OneKindLoaded
<1>3. ASSUME ~LoadApplication, ~LoadLibrary
      PROVE  UNCHANGED <<currentId, currentLibraryPath>>
  BY <1>3 DEF Next, Receive, ReceiveMalformed, KeepApplication, KeepService, CreateService,
              SwapService, KeepLibrary, CreateInLibrary, KeepSession, ChangeSession,
              CallDefault, CallRaw, Return, CannotLeave, Unload, DestroyManager
<1> QED BY <1>1, <1>2, <1>3 DEF OneKindLoaded

(* No failure leaves both caches valid (ApplicationManager.cpp:17, 66).    *)
THEOREM KindsExclude == Spec => []OneKindLoaded
<1>1. Init => OneKindLoaded BY DEF Init, OneKindLoaded
<1> QED BY <1>1, KindsNext, PTL DEF Spec

-----------------------------------------------------------------------------
(* Libraries load, sessions are entered and the worker runs for ever.      *)
Reliable ==
  /\ Failures \subseteq {"app_dlopen", "service_create", "leave"}
  /\ ~MayStop

(* m holds a live service, of the library that is loaded.                  *)
IsLive(m) ==
  /\ HasService(m) /\ m.service \in services
  /\ m.lib = currentLibrary /\ m.service.lib = currentLibrary
  /\ m.serviceId = <<m.service.lib, m.service.ns, m.service.name>>

(* What the caches promise about the library that is loaded, and about the *)
(* service manager wherever a task may rely on it.                         *)
CachesHold ==
  /\ functionPointers = currentLibrary
  /\ OneKindLoaded
  /\ currentId # None => currentLibrary = currentId
  /\ currentLibraryPath # None =>
       /\ currentLibrary = currentLibraryPath
       /\ phase # "create" =>
            HasService(sm) /\ sm.service.name = currentLibraryServiceName

PhaseHolds ==
  /\ phase # "unloaded"
  /\ phase \in {"service", "swap"} =>
       /\ task.mode = "legacy" /\ currentLibrary = task.lib
       /\ currentLibraryPath = None
  /\ phase = "swap" =>
       /\ IsLive(fresh) /\ fresh.serviceId = ServiceId(task) /\ ~Matches
       /\ fresh.session = None
  /\ phase = "create" =>
       /\ task.mode = "convention" /\ currentLibraryPath = task.lib
       /\ currentLibraryServiceName = task.name
  /\ phase \in {"session", "call"} =>
       /\ HasService(sm)
       /\ sm.service.lib = task.lib /\ sm.service.name = task.name
       /\ task.mode = "legacy" => sm.service.ns = task.ns
  /\ phase = "call" => sm.session = task.session

SessionsHold ==
  /\ sessions \subseteq Left(sm)
  /\ HasService(sm) /\ sm.session # None =>
       /\ sm.context \in sessions
       /\ sm.context.service = sm.service /\ sm.context.session = sm.session

Usable ==
  /\ Accounted
  /\ HasService(sm) => IsLive(sm)
  /\ CachesHold /\ PhaseHolds /\ SessionsHold

LEMMA OnlyTheseFail ==
  ASSUME Reliable
  PROVE  /\ ~Fails("app_dlsym") /\ ~Fails("lib_dlopen") /\ ~Fails("lib_dlsym")
         /\ ~Fails("lib_create") /\ ~Fails("enter")
  BY DEF Reliable, Fails

LEMMA UsableInit == Init => Usable
<1> SUFFICES ASSUME Init PROVE Usable
  OBVIOUS
<1>1. ~HasService(NoManager) /\ NoManager.session = None BY DEF HasService, NoManager
<1> QED BY <1>1, AccountedInit
        DEF Init, Usable, CachesHold, PhaseHolds, SessionsHold, OneKindLoaded, Left

(* A step that changes nothing but the phase, the task and the result.     *)
LEMMA UsableKept ==
  ASSUME Usable, Accounted', PhaseHolds', phase # "create",
         UNCHANGED <<manager, sm, fresh, userVars>>
  PROVE  Usable'
  BY DEF Usable, CachesHold, SessionsHold, OneKindLoaded, IsLive, HasService, Left

LEMMA UsableKeeping ==
  ASSUME Usable, Accounted',
         KeepApplication \/ KeepService \/ KeepLibrary \/ KeepSession
  PROVE  Usable'
<1>1. task \in Tasks
  BY DEF Usable, Accounted, Managed, Active, KeepApplication, KeepService, KeepLibrary,
         KeepSession
<1>2. UNCHANGED <<task, manager, sm, fresh, userVars>> /\ phase # "create"
  BY DEF KeepApplication, KeepService, KeepLibrary, KeepSession
<1>3. CASE KeepApplication
  <2>1. task.lib = currentId /\ task.lib # None
    BY <1>1, <1>3, TaskAssumption DEF KeepApplication
  <2>2. currentLibrary = task.lib /\ currentLibraryPath = None
    BY <2>1 DEF Usable, CachesHold, OneKindLoaded
  <2>3. PhaseHolds' BY <1>2, <1>3, <2>2 DEF KeepApplication, PhaseHolds
  <2> QED BY <1>2, <2>3, UsableKept
<1>4. CASE KeepService
  <2>1. sm.serviceId = ServiceId(task) /\ HasService(sm)
    BY <1>1, <1>4, IdsAreNotEmpty DEF KeepService, Matches, HasService
  <2>2. <<sm.service.lib, sm.service.ns, sm.service.name>>
          = <<task.lib, task.ns, task.name>>
    BY <2>1 DEF Usable, IsLive, ServiceId
  <2>3. PhaseHolds'
    BY <1>2, <1>4, <2>1, <2>2 DEF KeepService, PhaseHolds, HasService
  <2> QED BY <1>2, <2>3, UsableKept
<1>5. CASE KeepLibrary
  <2>1. /\ task.lib = currentLibraryPath /\ task.lib # None
        /\ task.name = currentLibraryServiceName
    BY <1>1, <1>5, TaskAssumption DEF KeepLibrary, Loaded
  <2>2. /\ HasService(sm) /\ sm.service.name = task.name
        /\ currentLibrary = task.lib
    BY <1>5, <2>1 DEF KeepLibrary, Usable, CachesHold
  <2>3. sm.service.lib = task.lib BY <2>2 DEF Usable, IsLive
  <2>4. PhaseHolds'
    BY <1>2, <1>5, <2>2, <2>3 DEF KeepLibrary, PhaseHolds, HasService
  <2> QED BY <1>2, <2>4, UsableKept
<1>6. CASE KeepSession
  <2>1. PhaseHolds'
    BY <1>2, <1>6 DEF KeepSession, PhaseHolds, HasService, Usable
  <2> QED BY <1>2, <2>1, UsableKept
<1> QED BY <1>3, <1>4, <1>5, <1>6

LEMMA UsableLoading ==
  ASSUME Reliable, Usable, Accounted', LoadApplication \/ LoadLibrary
  PROVE  Usable'
<1>1. IsManager(sm) BY DEF Usable, Accounted, Managed
<1>2. sm' = Cleared(sm) /\ sessions' = sessions \ Left(sm) /\ phase = "library"
  BY DEF LoadApplication, LoadLibrary, Clear
<1>3. ~HasService(sm') BY <1>1, <1>2, ClearedIsManager
<1>4. sessions' = {} BY <1>2 DEF Usable, SessionsHold
<1>5. SessionsHold' BY <1>3, <1>4 DEF SessionsHold, HasService
<1>6. CASE LoadApplication
  <2>1. /\ currentLibraryPath' = None
        /\ \/ /\ UNCHANGED <<currentLibrary, functionPointers, currentId>>
              /\ phase' = "idle"
           \/ /\ currentLibrary' = task.lib /\ functionPointers' = task.lib
              /\ currentId' = task.lib /\ phase' = "service"
        /\ task' = task /\ task.mode = "legacy"
    BY <1>6, OnlyTheseFail DEF LoadApplication, ForgetLibraryPath, Throw
  <2>2. CachesHold' BY <2>1 DEF CachesHold, OneKindLoaded, Usable
  <2>3. PhaseHolds' BY <2>1 DEF PhaseHolds
  <2> QED BY <1>3, <1>5, <2>2, <2>3 DEF Usable, HasService
<1>7. CASE LoadLibrary
  <2>1. /\ currentId' = None /\ currentLibrary' = task.lib /\ functionPointers' = task.lib
        /\ currentLibraryPath' = task.lib /\ currentLibraryServiceName' = task.name
        /\ phase' = "create" /\ task' = task /\ task.mode = "convention"
    BY <1>7, OnlyTheseFail DEF LoadLibrary, ForgetApplication
  <2>2. CachesHold' BY <2>1 DEF CachesHold, OneKindLoaded
  <2>3. PhaseHolds' BY <2>1 DEF PhaseHolds
  <2> QED BY <1>3, <1>5, <2>2, <2>3 DEF Usable, HasService
<1> QED BY <1>6, <1>7

LEMMA NewManagerIsLive ==
  ASSUME task \in Tasks, NEW l, l = task.lib
  PROVE  LET new == NewManager(l) IN
         /\ HasService(new) /\ new.session = None /\ new.lib = l
         /\ new.serviceId = ServiceId(task) /\ new.service = NewService(l)
         /\ new.service.lib = l /\ new.service.name = task.name
         /\ new.service.ns = task.ns
         /\ new.serviceId = <<new.service.lib, new.service.ns, new.service.name>>
<1>1. HasService(NewManager(l)) BY NewManagerIsManager
<1>2. /\ NewManager(l).session = None /\ NewManager(l).lib = l
      /\ NewManager(l).serviceId = ServiceId(task)
      /\ NewManager(l).service = NewService(l)
  BY DEF NewManager
<1>3. /\ NewService(l).lib = l /\ NewService(l).name = task.name
      /\ NewService(l).ns = task.ns
  BY DEF NewService
<1> QED BY <1>1, <1>2, <1>3 DEF ServiceId

LEMMA UsableCreating ==
  ASSUME Reliable, Usable, Accounted', CreateService \/ CreateInLibrary
  PROVE  Usable'
<1>1. task \in Tasks
  BY DEF Usable, Accounted, Managed, Active, CreateService, CreateInLibrary
<1>2. task.lib = functionPointers
  BY <1>1, TaskAssumption
     DEF Usable, PhaseHolds, CachesHold, CreateService, CreateInLibrary
<1> DEFINE new == NewManager(functionPointers)
<1>3. /\ HasService(new) /\ new.session = None /\ new.lib = task.lib
      /\ new.serviceId = ServiceId(task)
      /\ new.service = NewService(functionPointers)
      /\ new.service.lib = task.lib /\ new.service.name = task.name
      /\ new.service.ns = task.ns
      /\ new.serviceId = <<new.service.lib, new.service.ns, new.service.name>>
  BY <1>1, <1>2, NewManagerIsLive
<1> HIDE DEF new
<1>4. CASE CreateService
  <2>1. UNCHANGED <<task, manager, sm, sessions>> /\ phase = "service" /\ ~Matches
    BY <1>4 DEF CreateService
  <2>2. SessionsHold' BY <2>1 DEF SessionsHold, Usable, HasService, Left
  <2>3. phase' # "create" /\ CachesHold'
    BY <1>4, <2>1 DEF CreateService, ThrowAny, Throw, CachesHold, OneKindLoaded, Usable, HasService
  <2>4. services \subseteq services' BY <1>4 DEF CreateService
  <2>5. HasService(sm)' => IsLive(sm)'
    BY <2>1, <2>4 DEF Usable, IsLive, HasService
  <2>6. PhaseHolds'
    <3>1. CASE phase' = "idle" BY <3>1 DEF PhaseHolds
    <3>2. CASE /\ fresh' = new /\ phase' = "swap"
               /\ services' = services \cup {NewService(functionPointers)}
      <4>1. task.mode = "legacy" /\ currentLibrary = task.lib /\ currentLibraryPath = None
        BY <2>1 DEF Usable, PhaseHolds
      <4>2. IsLive(fresh)' BY <1>3, <2>1, <3>2, <4>1 DEF IsLive, HasService
      <4>3. fresh'.serviceId = ServiceId(task)' BY <1>3, <2>1, <3>2 DEF ServiceId
      <4>4. ~Matches' BY <2>1 DEF Matches, ServiceId
      <4> QED BY <1>3, <2>1, <3>2, <4>1, <4>2, <4>3, <4>4 DEF PhaseHolds
    <3> QED BY <1>4, <3>1, <3>2 DEF CreateService, ThrowAny, Throw, new
  <2> QED BY <2>2, <2>3, <2>5, <2>6 DEF Usable
<1>5. CASE CreateInLibrary
  <2>1. /\ UNCHANGED <<task, manager, sessions>> /\ phase = "create"
        /\ sm' = new /\ phase' = "session"
        /\ services' = services \cup {NewService(functionPointers)}
    BY <1>5, OnlyTheseFail DEF CreateInLibrary, new
  <2>2. sessions = {} BY <2>1 DEF Usable, Accounted, SessionsHold, Left
  <2>3. SessionsHold' BY <1>3, <2>1, <2>2 DEF SessionsHold
  <2>4. IsLive(sm)'
    BY <1>2, <1>3, <2>1 DEF IsLive, HasService, Usable, CachesHold
  <2>5. currentLibraryPath = task.lib /\ currentLibraryServiceName = task.name
        /\ task.mode = "convention"
    BY <2>1 DEF Usable, PhaseHolds
  <2>6. CachesHold'
    BY <1>3, <2>1, <2>5 DEF Usable, CachesHold, OneKindLoaded, HasService
  <2>7. PhaseHolds'
    BY <1>3, <2>1, <2>5 DEF PhaseHolds, HasService
  <2> QED BY <2>3, <2>4, <2>6, <2>7 DEF Usable
<1> QED BY <1>4, <1>5

LEMMA UsableSwapping ==
  ASSUME Usable, Accounted', SwapService
  PROVE  Usable'
<1>1. /\ task.mode = "legacy" /\ currentLibrary = task.lib /\ currentLibraryPath = None
      /\ IsLive(fresh) /\ fresh.serviceId = ServiceId(task) /\ ~Matches
      /\ fresh.session = None /\ UNCHANGED <<task, manager>>
  BY DEF SwapService, Usable, PhaseHolds
<1>2. CASE Crash
  <2>1. ~HasService(sm)' /\ sessions' = {} /\ phase' = "crashed"
    BY <1>2 DEF Crash, HasService, NoManager
  <2> QED BY <1>1, <2>1
          DEF Usable, CachesHold, OneKindLoaded, PhaseHolds, SessionsHold, HasService
<1>3. CASE /\ sm' = fresh /\ phase' = "session"
           /\ sessions' = sessions \ Left(sm)
           /\ services' = services \ Destroyed(sm)
  <2>1. sessions' = {} BY <1>3 DEF Usable, SessionsHold
  <2>2. HasService(sm) => sm.service # fresh.service
    <3>1. HasService(sm) => sm.serviceId = <<sm.service.lib, sm.service.ns, sm.service.name>>
      BY DEF Usable, IsLive
    <3>2. /\ fresh.serviceId = <<fresh.service.lib, fresh.service.ns, fresh.service.name>>
          /\ sm.serviceId # fresh.serviceId
      BY <1>1 DEF IsLive, Matches
    <3> QED BY <3>1, <3>2
  <2>3. IsLive(sm)' BY <1>1, <1>3, <2>2 DEF IsLive, HasService, Destroyed
  <2>4. SessionsHold' BY <1>1, <1>3, <2>1 DEF SessionsHold
  <2>5. CachesHold' BY <1>1, <1>3 DEF Usable, CachesHold, OneKindLoaded
  <2>6. /\ fresh.service.lib = task.lib /\ fresh.service.name = task.name
        /\ fresh.service.ns = task.ns
    <3>1. <<fresh.service.lib, fresh.service.ns, fresh.service.name>>
            = <<task.lib, task.ns, task.name>>
      BY <1>1 DEF IsLive, ServiceId
    <3> QED BY <3>1
  <2>7. PhaseHolds' BY <1>1, <1>3, <2>6 DEF PhaseHolds, IsLive, HasService
  <2> QED BY <2>3, <2>4, <2>5, <2>7 DEF Usable
<1> QED BY <1>2, <1>3 DEF SwapService

LEMMA UsableChanging ==
  ASSUME Reliable, Usable, Accounted', ChangeSession
  PROVE  Usable'
<1>1. UNCHANGED <<task, manager, services>> /\ phase = "session"
  BY DEF ChangeSession
<1>2. IsManager(sm) /\ HasService(sm) /\ task \in Tasks
  BY <1>1 DEF Usable, Accounted, Managed, PhaseHolds, Active
<1>3. /\ sm.service.lib = task.lib /\ sm.service.name = task.name
      /\ task.mode = "legacy" => sm.service.ns = task.ns
  BY <1>1 DEF Usable, PhaseHolds
<1>4. CASE UNCHANGED <<sm, sessions>> /\ phase' = "idle"
  <2>1. SessionsHold' BY <1>4 DEF Usable, SessionsHold, HasService, Left
  <2>2. CachesHold' BY <1>1, <1>4 DEF Usable, CachesHold, OneKindLoaded, HasService
  <2>3. PhaseHolds' BY <1>4 DEF PhaseHolds
  <2>4. HasService(sm)' => IsLive(sm)' BY <1>1, <1>4 DEF Usable, IsLive, HasService
  <2> QED BY <2>1, <2>2, <2>3, <2>4 DEF Usable
<1> DEFINE left  == IF sm.session = None THEN {} ELSE {sm.context}
           enter == [n |-> count, service |-> sm.service, session |-> task.session]
<1>5. CASE /\ sm' = [sm EXCEPT !.session = task.session, !.context = enter]
           /\ sessions' = (sessions \ left) \cup {enter} /\ phase' = "call"
  <2>1. sessions' = {enter}
    <3>1. Left(sm) = left BY <1>2 DEF Left
    <3> QED BY <1>5, <3>1 DEF Usable, SessionsHold
  <2>2. enter.service = sm.service /\ enter.session = task.session OBVIOUS
  <2> HIDE DEF enter, left
  <2>3. sm' = [serviceId |-> sm.serviceId, session |-> task.session,
               service |-> sm.service, context |-> enter, lib |-> sm.lib]
    BY <1>2, <1>5, EnteredIsManager
  <2>4. /\ sm'.serviceId = sm.serviceId /\ sm'.session = task.session
        /\ sm'.service = sm.service /\ sm'.context = enter /\ sm'.lib = sm.lib
    BY <2>3
  <2>5. task.session # None BY <1>2, TaskAssumption
  <2>6. SessionsHold'
    BY <1>2, <2>1, <2>2, <2>4, <2>5 DEF SessionsHold, HasService, Left
  <2>7. CachesHold'
    BY <1>1, <1>5, <2>4 DEF Usable, CachesHold, OneKindLoaded, HasService
  <2>8. PhaseHolds'
    BY <1>1, <1>2, <1>3, <1>5, <2>4 DEF PhaseHolds, HasService
  <2>9. IsLive(sm)' BY <1>1, <1>2, <2>4 DEF Usable, IsLive, HasService
  <2> QED BY <2>6, <2>7, <2>8, <2>9 DEF Usable
<1> QED BY <1>4, <1>5, OnlyTheseFail DEF ChangeSession, ThrowAny, Throw

LEMMA UsableNext == Reliable /\ Usable /\ [Next]_vars => Usable'
<1> SUFFICES ASSUME Reliable, Usable, [Next]_vars PROVE Usable'
  OBVIOUS
<1>1. Accounted' BY AccountedNext DEF Usable
<1>2. CASE KeepApplication \/ KeepService \/ KeepLibrary \/ KeepSession
  BY <1>1, <1>2, UsableKeeping
<1>3. CASE LoadApplication \/ LoadLibrary BY <1>1, <1>3, UsableLoading
<1>4. CASE CreateService \/ CreateInLibrary BY <1>1, <1>4, UsableCreating
<1>5. CASE SwapService BY <1>1, <1>5, UsableSwapping
<1>6. CASE ChangeSession BY <1>1, <1>6, UsableChanging
<1>7. CASE (\E t \in Tasks : Receive(t) \/ ReceiveMalformed(t)) \/ CannotLeave
  <2>1. /\ UNCHANGED <<manager, sm, fresh, userVars>> /\ phase # "create"
        /\ phase' \in {"idle", "library"}
    BY <1>7 DEF Receive, ReceiveMalformed, CannotLeave, ThrowAny, Throw
  <2>2. PhaseHolds' BY <2>1 DEF PhaseHolds
  <2> QED BY <1>1, <2>1, <2>2, UsableKept
<1>8. CASE CallDefault \/ CallRaw
  <2>1. PICK c, status : Return(c, status) BY <1>8 DEF CallDefault, CallRaw
  <2>2. UNCHANGED <<manager, sm, fresh, userVars>> /\ phase # "create" /\ phase' = "idle"
    BY <1>8, <2>1 DEF CallDefault, CallRaw, Return, Throw
  <2>3. PhaseHolds' BY <2>2 DEF PhaseHolds
  <2> QED BY <1>1, <2>2, <2>3, UsableKept
<1>9. CASE Unload \/ DestroyManager
  BY <1>9 DEF Unload, DestroyManager, Reliable, Usable, PhaseHolds
<1>10. CASE UNCHANGED vars
  BY <1>1, <1>10 DEF Usable, CachesHold, PhaseHolds, SessionsHold, OneKindLoaded, IsLive,
                     HasService, Left, Matches, ServiceId
<1> QED BY <1>2, <1>3, <1>4, <1>5, <1>6, <1>7, <1>8, <1>9, <1>10 DEF Next

(* Where libraries load, a task never meets a service that was destroyed,  *)
(* or functions of a library that is gone (ApplicationManager.cpp:12-83).  *)
THEOREM ServicesAreLive ==
  ASSUME Reliable
  PROVE  Spec => []ServiceIsLive
<1>1. Usable => ServiceIsLive BY DEF Usable, PhaseHolds, IsLive, ServiceIsLive
<1>2. Usable /\ [Next]_vars => Usable' BY UsableNext
<1> QED BY <1>1, <1>2, UsableInit, PTL DEF Spec

(* A method is called in a session that its service has entered for it and *)
(* not left (ServiceManager.cpp:28-37).                                    *)
THEOREM ContextsAreEntered ==
  ASSUME Reliable
  PROVE  Spec => []ContextIsEntered
<1>1. Usable => ContextIsEntered
  <2> SUFFICES ASSUME Usable, phase = "call" PROVE ContextIsEntered
    BY DEF ContextIsEntered
  <2>1. task \in Tasks BY DEF Usable, Accounted, Managed, Active
  <2>2. task.session # None BY <2>1, TaskAssumption
  <2> QED BY <2>2 DEF Usable, PhaseHolds, SessionsHold, ContextIsEntered
<1>2. Usable /\ [Next]_vars => Usable' BY UsableNext
<1> QED BY <1>1, <1>2, UsableInit, PTL DEF Spec

(* The service that is called is the one the task asks for, whatever tasks *)
(* came before it (ApplicationManager.cpp:12, 62, ServiceManager.cpp:74).  *)
THEOREM ServicesAreRight ==
  ASSUME Reliable
  PROVE  Spec => []RightService
<1>1. Usable => RightService BY DEF Usable, PhaseHolds, RightService
<1>2. Usable /\ [Next]_vars => Usable' BY UsableNext
<1> QED BY <1>1, <1>2, UsableInit, PTL DEF Spec

(* Sessions end before their services, and services before their library   *)
(* (ServiceManager.cpp:75-85).                                             *)
THEOREM LifetimesAreNested ==
  ASSUME Reliable
  PROVE  Spec => []LifetimesNest
<1>1. Usable => LifetimesNest
  <2> SUFFICES ASSUME Usable PROVE LifetimesNest
    OBVIOUS
  <2>1. ASSUME NEW c \in sessions PROVE c.service \in services
    <3>1. HasService(sm) /\ sm.session # None /\ c = sm.context
      BY <2>1 DEF Usable, SessionsHold, Left
    <3> QED BY <3>1 DEF Usable, SessionsHold, IsLive
  <2>2. ASSUME NEW s \in services PROVE s.lib = currentLibrary
    <3>1. CASE HasService(sm) /\ s = sm.service BY <3>1 DEF Usable, IsLive
    <3>2. CASE phase = "swap" /\ s = fresh.service
      BY <3>2 DEF Usable, PhaseHolds, IsLive
    <3> QED BY <2>2, <3>1, <3>2 DEF Usable, Accounted, Destroyed, Temporary
  <2> QED BY <2>1, <2>2 DEF LifetimesNest
<1>2. Usable /\ [Next]_vars => Usable' BY UsableNext
<1> QED BY <1>1, <1>2, UsableInit, PTL DEF Spec

-----------------------------------------------------------------------------
(* Nothing is reported before the method of the task is called.            *)
Reported ==
  /\ StatusHonoured
  /\ phase \in Active => call = NoCall

LEMMA ReportedNext == ~RawCalls /\ Reported /\ [Next]_vars => Reported'
<1> SUFFICES ASSUME ~RawCalls, Reported, [Next]_vars PROVE Reported'
  OBVIOUS
<1>1. NoCall.status = "none" BY DEF NoCall
<1>2. CASE CallDefault
  <2>1. phase' \notin Active BY <1>2 DEF CallDefault, Return, Throw, Active
  <2>2. call = NoCall BY <1>2 DEF CallDefault, Reported, Active
  <2>3. PICK status \in {"OK", "ERROR", "RETRY"} :
          Return(UploadResult(call, status), status)
    BY <1>2 DEF CallDefault
  <2> DEFINE c == UploadResult(NoCall, status)
  <2>4. (c.retry <=> status = "RETRY") /\ "status" \in DOMAIN c
    <3>1. CASE status = "RETRY"
      <4>1. c = [NoCall EXCEPT !.retry = TRUE] BY <3>1 DEF UploadResult
      <4> QED BY <3>1, <4>1 DEF NoCall
    <3>2. CASE status = "ERROR"
      <4>1. c = [NoCall EXCEPT !.error = TRUE] BY <3>2 DEF UploadResult
      <4> QED BY <3>2, <4>1 DEF NoCall
    <3>3. CASE status = "OK"
      <4>1. c = [NoCall EXCEPT !.error = FALSE, !.sent = @ + 1]
        BY <3>3 DEF UploadResult
      <4>2. ~c.retry /\ "status" \in DOMAIN c BY <4>1 DEF NoCall
      <4> QED BY <3>3, <4>2
    <3> QED BY <2>3, <3>1, <3>2, <3>3
  <2>6. call'.status = status
    <3>1. call' = [c EXCEPT !.status = status] BY <2>2, <2>3 DEF Return
    <3> HIDE DEF c
    <3> QED BY <2>4, <3>1
  <2>5. result' = Outcome(c, status) BY <2>2, <2>3 DEF Return, Throw
  <2>7. StatusHonoured'
    <3> HIDE DEF c
    <3> QED BY <2>4, <2>5, <2>6 DEF Outcome, StatusHonoured
  <2> QED BY <2>1, <2>7 DEF Reported
<1>3. CASE (\E t \in Tasks : Receive(t) \/ ReceiveMalformed(t))
  BY <1>1, <1>3 DEF Receive, ReceiveMalformed, Reported, StatusHonoured, NoCall
<1>4. CASE phase \in Active /\ call' = call
  BY <1>1, <1>4 DEF Reported, StatusHonoured
<1>5. CASE phase' \notin Active /\ UNCHANGED <<call, result>>
  BY <1>5 DEF Reported, StatusHonoured
<1>6. ASSUME ~CallDefault, \A t \in Tasks : ~Receive(t) /\ ~ReceiveMalformed(t), Next
      PROVE  \/ phase \in Active /\ call' = call
             \/ phase' \notin Active /\ UNCHANGED <<call, result>>
  BY <1>6 DEF Next, KeepApplication, KeepService, CreateService, LoadApplication,
              LoadLibrary, SwapService, KeepLibrary, CreateInLibrary, KeepSession,
              ChangeSession, CallRaw, CannotLeave, Unload, DestroyManager, Crash, Active
<1>7. CASE UNCHANGED vars BY <1>7 DEF Reported, StatusHonoured
<1> QED BY <1>2, <1>3, <1>4, <1>5, <1>6, <1>7

(* With armonik_call_default, the status that a method returns decides the *)
(* fate of its task (ServiceManager.cpp:38-73).                            *)
THEOREM StatusesAreHonoured ==
  ASSUME ~RawCalls
  PROVE  Spec => []StatusHonoured
<1>1. Reported => StatusHonoured BY DEF Reported
<1>2. Init => Reported
  BY DEF Init, Reported, StatusHonoured, NoCall
<1>3. Reported /\ [Next]_vars => Reported' BY ReportedNext
<1> QED BY <1>1, <1>2, <1>3, PTL DEF Spec
=============================================================================
