SPECIFICATION Spec
CONSTANTS
  None = None
  ws = ws
  post = post
  receiver = receiver
  songA = songA
  songB = songB
  id1 = id1
  id2 = id2
  player = player
  Adapters <- MCAdapters
  Players <- MCPlayers
  StableIds = {id1, id2}
  Songs <- MCSongs
  Connections <- MCConnections
  Snapshots <- MCSnapshots
  DisplaySourceLists <- MCDisplaySourceLists
  Post = post
  Receiver = receiver
  LocalReports <- MCLocalReports
  ManualDocuments <- MCManualDocuments
  MaxSequence = 3
  MaxTick = 1
  MaxMessage = 2
INVARIANTS
  SessionMatchesCandidate
  ManualStaysWithItsTrack
  FrameShowsTheFacts
PROPERTIES
  ReservedDisplayUntouched
  SequenceOnlyGrows
