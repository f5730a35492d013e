\* Is a prefetched job renewed while it waits for a slot?
CONSTANTS
  j1 = j1
  j2 = j2
  none = none
  Job <- TheJobs
  NoJob <- none
  Setups <- TwoSlots
SPECIFICATION Spec
INVARIANT PrefetchedIsRenewed
