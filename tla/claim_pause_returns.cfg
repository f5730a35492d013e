\* Does pause(false) return once the jobs in flight are done?
CONSTANTS
  j1 = j1
  j2 = j2
  none = none
  Job <- TheJobs
  NoJob <- none
  Setups <- OnePause
SPECIFICATION FairSpec
PROPERTY PauseReturns
