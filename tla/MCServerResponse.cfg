CONSTANTS
  h1 = h1
  h2 = h2
  a = a
  b = b
  c = c
  Readers <- MCReaders
  Tasks <- MCTasks
  Owner <- MCOwner
  MaxPartial <- MCMaxPartial
SPECIFICATION FairSpec
INVARIANTS TypeOK NoLeakedResult NoWaitForNothing BlockedHasNothing FinalIsLast
PROPERTY AnsweredReaderEnds
CHECK_DEADLOCK FALSE
