\* Does every job get processed?  One worker may crash, the other may not.
CONSTANTS
  Job = {j1}
  Worker = {w1, w2}
  NoToken = NoToken
  Priority <- Priorities
  MaxAttempts = 2
  MaxStalledCount = 1
  MaxJobs = 0
  MaxStarts = 6
  Crashable = {w1}
  Env = {"stalled_check", "expiry", "cancel"}
SPECIFICATION FairSpec
INVARIANTS StartsBounded
PROPERTY EventuallyProcessed
