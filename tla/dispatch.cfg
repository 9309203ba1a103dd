SPECIFICATION FairSpec
CONSTANTS
  Segments <- MCSegments
  Globs <- MCGlobs
  GlobSegment <- MCGlobSegment
  Unnormalized = {"", ".", ".."}
  Profiles = {"planner"}
  Servers = {"dev", "human"}
  MaxStray = 1
  Configurations <- MCConfigurations
  Action = "route"
  Files <- MCFiles
  Ttl = 1
  DeviceTimeout = 1
INVARIANTS WritesAreGuarded ClassIsACeiling ApprovalsAreFresh NarrowedGrantsPermitNoMore
PROPERTIES SuccessIsAnswered DispatchEnds
CHECK_DEADLOCK FALSE
