\* change_priority of a job that is not waiting.
CONSTANTS
  Job = {j1}
  Worker = {w1, w2}
  NoToken = NoToken
  Priority <- Priorities
  MaxAttempts = 1
  MaxStalledCount = 1
  MaxJobs = 0
  MaxStarts = 3
  Crashable = {}
  Env = {"reprioritise_any"}
SPECIFICATION Spec
PROPERTY MovesToPrioritized
