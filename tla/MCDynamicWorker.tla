-------------------------- MODULE MCDynamicWorker --------------------------
(* The tasks of the dynamic worker's runs: two applications, two libraries *)
(* (one sent as a blob), two services, one of them in two namespaces, and  *)
(* two sessions.                                                           *)
EXTENDS DynamicWorker

TaskSet(mode, libs, names, sessionIds) ==
  [mode : {mode}, lib : libs, blob : {FALSE}, ns : {"n"}, name : names, session : sessionIds]

LegacyTasks == TaskSet("legacy", {"appA", "appB"}, {"s1", "s2"}, {"x", "y"})
ConventionTasks ==
  TaskSet("convention", {"lib1"}, {"s1", "s2"}, {"x", "y"})
  \cup {[t EXCEPT !.blob = TRUE] : t \in TaskSet("convention", {"lib2"}, {"s1"}, {"x"})}
OtherNamespace ==
  {[t EXCEPT !.ns = "m"] : t \in TaskSet("legacy", {"appA"}, {"s1"}, {"x"})
                                \cup TaskSet("convention", {"lib1"}, {"s1"}, {"x"})}
AllTasks == LegacyTasks \cup ConventionTasks \cup OtherNamespace

(* Fewer names and sessions: enough for a cached service or session to be  *)
(* met again after a failure, and for a service to replace another one.    *)
FewTasks ==
  TaskSet("legacy", {"appA"}, {"s1", "s2"}, {"x"})
  \cup TaskSet("legacy", {"appB"}, {"s1"}, {"x", "y"})
  \cup {[t EXCEPT !.blob = TRUE] :
          t \in TaskSet("convention", {"lib1", "lib2"}, {"s1"}, {"x", "y"})}
=============================================================================
