\* One job, one waiter, the default last_event_id.
SPECIFICATION LiveSpec
CONSTANTS
  Job = {j1}
  Awaited = {j1}
  Waiter = {w1}
  NoJob = NoJob
  Latest = Latest
  StartIds <- OnlyLatest
  Capacity = 2
  MaxStream = 2
  MaxErrors = 0
PROPERTIES
  NoMissedEvent
CHECK_DEADLOCK FALSE  \* jobs that are done, a task that is shut down: the system stops
