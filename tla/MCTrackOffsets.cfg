SPECIFICATION FairSpec
CONSTANTS
  k1 = k1
  k2 = k2
  Keys = {k1, k2}
  NoJob = NoJob
  MaxEdits = 4
INVARIANTS
  TypeOK
  NothingForgotten
PROPERTIES
  EditsAreDurable
  EveryWaitEnds
