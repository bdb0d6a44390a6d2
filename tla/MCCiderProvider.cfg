SPECIFICATION FairSpec
CONSTANTS
  None = None
  songA = songA
  songB = songB
  id1 = id1
  id2 = id2
  en = en
  player = player
  Adapters <- MCAdapters
  Players <- MCPlayers
  StableIds <- MCStableIds
  Songs <- MCSongs
  Playbacks <- MCPlaybacks
  LocalReports <- MCLocalReports
  DisplaySourceLists <- MCDisplaySourceLists
  Languages = {en, None}
  MaxRequests = 2
  MaxSequence = 5
  MaxTick = 9
  MaxGeneration = 3
INVARIANTS
  LyricsAreOfTheTrack
PROPERTIES
  EveryTrackIsAnswered
