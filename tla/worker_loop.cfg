\* Slots, prefetching, lock renewal, pause and shutdown of one worker.
SPECIFICATION FairSpec
CONSTANTS
  j1 = j1
  j2 = j2
  j3 = j3
  none = none
  Job <- TheJobs
  NoJob <- none
  Setups <- TheSetups
INVARIANTS
  TypeOK
  SlotsCounted
  SaturatedTakesNoMarker
  PrefetchCounted
  StoppedIsQuiet
  RunsUnderItsLock
PROPERTIES
  PauseWaitsForHandlers
  NotIdle
  ShutdownStops
  ClaimEnds
