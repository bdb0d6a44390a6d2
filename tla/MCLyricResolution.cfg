CONSTANTS
    None = None
    Tracks <- MCTracks
    Artifacts <- MCArtifacts
    Selectable <- MCSelectable
    Songs <- MCSongs
    Metadata <- MCMetadata
    Likeness <- MCLikeness
    Brief = {"uno"}
    Inside <- MCInside
    Noisy <- MCNoisy
    Credits <- MCCredits
    MaxEntries = 1
    Live = "live"
    Network <- MCNetwork
    Local = "local"
    LiveSong = "live"
    Timed <- MCTimed
    Lyricless <- MCLyricless
    Submissions <- MCSubmissions
    MaxFetches = 2
    MaxOffers = 2
    Worlds <- MCWorlds
    Plans <- MCPlans
    Policies <- MCPolicies
    HintsOf <- MCHintsOf
    InitCaches <- MCInitCaches
    InitPolicies <- MCInitPolicies
    InitPlans <- MCInitPlans
    MaxRequests = 2
    MaxChanges = 1
    MaxFaults = 1
SPECIFICATION ResolverSpec
INVARIANTS
  BestAnswerWins
  NothingMeansNothing
PROPERTIES
  SelectionsSurvive
  RequestsEnd
CHECK_DEADLOCK FALSE
