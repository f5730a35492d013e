\* What becomes of a job that stalls too often?
CONSTANTS
  Job = {j1}
  Worker = {w1, w2}
  NoToken = NoToken
  Priority <- Priorities
  MaxAttempts = 1
  MaxStalledCount = 1
  MaxJobs = 0
  MaxStarts = 3
  Crashable = {}
  Env = {"stalled_check", "expiry"}
SPECIFICATION Spec
PROPERTY TooManyStallsMovesToFailed
