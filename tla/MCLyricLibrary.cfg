CONSTANTS
    None = None
    Tracks <- MCTracks
    Artifacts <- MCArtifacts
    Songs <- MCSongs
    Metadata <- MCMetadata
    Likeness <- MCLikeness
    Brief = {}
    Inside = {}
    Noisy <- MCNoisy
    Credits <- MCNoisy
    MaxEntries = 1
    Providers <- MCProviders
    Books <- MCBooks
    Timed <- MCTimed
    Lyricless <- MCLyricless
    Submissions <- MCSubmissions
    MaxFetches = 2
    MaxOffers = 2
    MaxResults = 1
    Keywords <- MCKeywords
    InitCaches <- MCInitCaches
    InitTracks <- MCInitTracks
    Queries <- MCQueries
    MaxOpens = 2
    MaxCommands = 2
    MaxFaults = 1
    MaxOthers = 1
SPECIFICATION Spec
INVARIANTS
  ShownIsRemembered
  CacheIsConsistent
  ManagerShowsTheCache
PROPERTIES
  BusyEnds
CHECK_DEADLOCK FALSE
