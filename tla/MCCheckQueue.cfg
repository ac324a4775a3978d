CONSTANTS
  Worker = {w1, w2}
  Master = master
  BatchSize = 2
  MaxChecks = 4
SPECIFICATION Spec
INVARIANTS
  VerdictIsRight
  NoCheckOutlivesBlock
  TodoCountsUnfinished
PROPERTIES
  WaitReturns
\* After an interruption the threads are gone and nothing is left to do.
CHECK_DEADLOCK FALSE
