SPECIFICATION Spec
CONSTANTS
  None = None
  c1 = c1
  c2 = c2
  songA = songA
  songB = songB
  id1 = id1
  player = player
  Adapters <- MCAdapters
  Players = {player}
  StableIds = {id1}
  Songs <- MCSongs
  Connections <- MCConnections
  Snapshots <- MCSnapshots
  DisplaySourceLists <- MCDisplaySourceLists
  MaxSequence = 4
  MaxTick = 2
INVARIANTS
  OwnerIsBest
  LiveConnectionRetained
  TimingIsOfTheCandidate
PROPERTIES
  RevisionMarksChange
