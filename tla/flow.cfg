\* Two producers whose trees share ids, a client that adds and removes single jobs.
SPECIFICATION SomeSpec
CONSTANTS
  Producer = {p1, p2}
  NoOne = NoOne
  MaxId = 3
  Trees <- SomeTrees
  PlainIds = {2}
  Observed = {1}
  Stalling = {2}
INVARIANTS
  TypeOK
  FlowWhole
  ParentWaits
  BlockedByChildren
PROPERTIES
  ChildrenValuesComplete
  FlowAddsOnlyNewJobs ParentReleased
