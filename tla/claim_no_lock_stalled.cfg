\* No lock ever expires here, yet the checker takes locked jobs.
CONSTANTS
  Job = {j1}
  Worker = {w1, w2}
  NoToken = NoToken
  Priority <- Priorities
  MaxAttempts = 1
  MaxStalledCount = 1
  MaxJobs = 0
  MaxStarts = 3
  Crashable = {}
  Env = {"stalled_check"}
SPECIFICATION Spec
PROPERTY NoLockMeansStalled
