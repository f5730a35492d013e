\* One client, two workers; the clock stops at 4, iterations may be promoted.
SPECIFICATION Spec
CONSTANTS
  Client = {c1}
  Worker = {w1, w2}
  NoOne = NoOne
  Times = {1, 4}
  Slot = {1, 2, 5}
  MaxMishaps = 1
  Occurrences <- CronTimes
  RepeatChoices <- SomeChoices
INVARIANTS
  TypeOK
  ChainAlive
  LimitKept
  LatestOptions
PROPERTIES
  NoOrphan
SYMMETRY Symmetry
CONSTRAINT FreshSlots
