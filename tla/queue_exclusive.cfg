\* No stalled checker (skip_stalled_check) and no call on an active job.
CONSTANTS
  Job = {j1, j2}
  Worker = {w1, w2}
  NoToken = NoToken
  Priority <- Priorities
  MaxAttempts = 2
  MaxStalledCount = 1
  MaxJobs = 1
  MaxStarts = 2
  Crashable = {w1, w2}
  Env = {"expiry", "cancel", "pause", "promote", "retry_jobs", "reprioritise", "rate_limit"}
SPECIFICATION Spec
SYMMETRY Symmetry
INVARIANTS OnePlace SoleRun LockedIsActive Signalled
PROPERTY ImplementsLifecycle
