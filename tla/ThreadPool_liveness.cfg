\* Fair scheduling; one task may block in a join set of its own, so with two
\* threads one is always left and the program never deadlocks.
SPECIFICATION FairSpec
CONSTANTS
  Clients = {c1}
  Tasks = {t1, t2, b1}
  Blockers = {b1}
  Workers = {w1, w2}
  MaxFaults = 0
  Spurious = TRUE
  NoSet = NoSet
  NoTask = NoTask
PROPERTIES ForkJoinSpec QueuedTasksRun OwnersReturn StopCompletes
