SPECIFICATION MCSpec
CONSTANTS
  p1 = p1 p2 = p2 known = known added = added alias = alias
  plain = plain grown = grown moved = moved twofold = twofold
  ann = ann bob = bob
  Procs = {p1, p2}
  Types <- MCTypes
  Names <- MCNames
  Static = {known}
  Contracts <- MCContracts
  Advertised <- MCAdvertised
  Surfaces <- MCSurfaces
  NoContract = NoContract
  Identities = {ann, bob}
  Nobody = Nobody
  AutoContext = AutoContext
  Malformed = Malformed
  Scenes <- MCScenes
  TTL = 1
  MaxTime = 1
  MaxChanges = 1
  MaxSessions = 1
  Kinds = {"smoke", "demo", "governance", "local"}
  Collectors = 2
  MaxRuns = 2
  MaxMoves = 2
  Shells = {1, 2, 3}
  ShellScenes <- MCShellScenes
  MaxHealthPolls = 2
  MaxFaults = 2
INVARIANTS TypeWasServed RefusalIsLive RunIsBound PassIsOfThisRun ProvenanceIsTrue ReportsAreTrue
CHECK_DEADLOCK FALSE
SYMMETRY MCSymmetry
