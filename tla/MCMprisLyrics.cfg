SPECIFICATION FairSpec
CONSTANTS
  None = None
  c1 = c1
  songA = songA
  songB = songB
  songC = songC
  player = player
  LocalPlayer = player
  Adapters <- MCAdapters
  Players = {player}
  StableIds = {}
  Songs <- MCSongs
  Connections = {c1}
  Snapshots <- MCSnapshots
  DisplaySourceLists <- MCOneList
  Title <- MCTitle
  Settling = {songA, songC}
  Passing = {songB, songC}
  NotSongs = {songA}
  Plans = {"liveFirst", "noLive"}
  MaxCommits = 2
  MaxSequence = 2
  MaxTick = 1
INVARIANTS
  LoadIsOfTheCommit
  LyricsAreOfTheTrackShown
PROPERTIES
  ResolvingEnds
  LiveIsFollowed
