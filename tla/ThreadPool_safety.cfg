\* Three join sets, of a client and of two tasks, and three threads, one of
\* which may fail to start: it may be the one that the others wait for, so the
\* program may stop.
SPECIFICATION Spec
CONSTANTS
  Clients = {c1}
  Tasks = {t1, t2, b1, b2}
  Blockers = {b1, b2}
  Workers = {w1, w2, w3}
  MaxFaults = 1
  Spurious = TRUE
  NoSet = NoSet
  NoTask = NoTask
SYMMETRY Symmetry
INVARIANTS TypeOK CountIsLive NoDanglingSet SleepersCounted NoIdleWhileWork StarvedOnlyWhenFull NothingLeftBehind
PROPERTIES ThreadsFrozenByStop
CHECK_DEADLOCK FALSE
