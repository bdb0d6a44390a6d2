SPECIFICATION FairSpec
CONSTANTS
  i1 = i1
  i2 = i2
  Instances = {i1, i2}
  NoInstance = NoInstance
INVARIANTS
  OneInstanceRuns
  ProducersHaveADisplay
  EverythingIsStopped
PROPERTIES
  OnlyUpRemains
CHECK_DEADLOCK FALSE
