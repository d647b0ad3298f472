SPECIFICATION FairSpec
CONSTANTS
  p1 = p1 p2 = p2 g1 = g1
  own = own alias = alias platform = platform
  Procs = {p1, p2}
  Gaps = {g1}
  NoRemote = NoRemote
  Remotes <- MCRemotes
  Platform <- MCPlatform
  PlatformClass <- MCPlatformClass
  Plays <- MCPlays
  MaxPolls = 1
  MaxMoves = 1
INVARIANTS BindingFileIsGranted SuccessIsBacked ClosureRecordIsEvidence
PROPERTIES CommandsEnd
CHECK_DEADLOCK FALSE
