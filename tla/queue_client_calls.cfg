\* No stalled checker, but handlers that move their own job and removals.
CONSTANTS
  Job = {j1, j2}
  Worker = {w1, w2}
  NoToken = NoToken
  Priority = {0}
  MaxAttempts = 1
  MaxStalledCount = 1
  MaxJobs = 0
  MaxStarts = 2
  Crashable = {}
  Env = {"expiry", "promote", "retry_jobs", "remove", "handler_moves"}
SPECIFICATION Spec
SYMMETRY Symmetry
INVARIANTS OnePlace LockHeldByRun
PROPERTY ImplementsLifecycle
