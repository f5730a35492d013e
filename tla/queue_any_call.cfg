\* Every call, also on active jobs, and the stalled checker: one job id, used again.
CONSTANTS
  Job = {j1}
  Worker = {w1, w2}
  NoToken = NoToken
  Priority <- Priorities
  MaxAttempts = 2
  MaxStalledCount = 1
  MaxJobs = 0
  MaxStarts = 2
  Crashable = {w1, w2}
  Env = {"stalled_check", "expiry", "cancel", "pause", "promote", "retry_jobs", "remove", "rate_limit", "handler_moves", "reprioritise", "reprioritise_any"}
CONSTRAINT ShortLists
SPECIFICATION Spec
SYMMETRY Symmetry
INVARIANTS TypeOK NeverLost PausedListOnlyWhilePaused
