SPECIFICATION Spec
CONSTANTS
    NoOutput = NoOutput
    NoPlacement = NoPlacement
    NoMargin = NoMargin
    Gone = Gone
    screen1 = screen1
    screen2 = screen2
    Displays <- MCDisplays
    Sessions <- MCSessions
    ScreenHeight = 3
    Strip = 1
    Heights = {1, 2}
    Margins = {1}
    MaxFaults = 1
    MaxEvents = 3
    Configs <- MCConfigs
INVARIANTS
  ActiveIsShown
  RegionIsKnown
  ClosedStaysClosed
  PlaceIsKnown
  PendingIsRetried
PROPERTIES
  OnlyShownPlacesAreSaved
CHECK_DEADLOCK FALSE
