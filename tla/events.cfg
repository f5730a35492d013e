\* Two jobs, one waiter, a channel of one entry, a stream of three, one failed read.
SPECIFICATION LiveSpec
CONSTANTS
  Job = {j1, j2}
  Awaited = {j1}
  Waiter = {w1}
  NoJob = NoJob
  Latest = Latest
  StartIds <- BothStarts
  Capacity = 1
  MaxStream = 3
  MaxErrors = 1
INVARIANTS
  TypeOK
  Gapless
  AnswerTrue
PROPERTIES
  WaitReturns
CHECK_DEADLOCK FALSE  \* jobs that are done, a task that is shut down: the system stops
