SPECIFICATION FairSpec
CONSTANTS
  None = None
  p1 = p1
  p2 = p2
  song = song
  video = video
  artist = artist
  Names <- MCNames
  Reports <- MCReports
  Locks = {p1, None}
  Worlds <- MCWorlds
  ShortSettle = 1
  LongSettle = 2
  Margin = 1
PROPERTIES
  TracksAreStable
  PlaybackSettles
