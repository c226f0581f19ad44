SPECIFICATION MCSpec
CONSTANTS
  None = None
  Projects = {p1, p2}
  Policies = {"daily", "disabled"}
  DefaultPolicy = "daily"
  MaxRev = 2
  MaxGeneration = 6
  MaxTokens = 2
  MaxInFlight = 2
  Collections = {j1, j2}
  Captures = {k1, k2}
  Snapshots = {a, b}
  MaxDetails = 2
INVARIANTS
  TypeOK
  OneVerificationCall
  RefreshedOncePerJob
  DetailIsWanted
PROPERTIES
  GateFollowsSession
  RejectedIsNotResent
  ShownNeverRegresses
  SelectionStays
  SelectionLoads
  SourceFormIsFreed
  CollectedIsShown
  CaptureEndIsSeen
CHECK_DEADLOCK FALSE
