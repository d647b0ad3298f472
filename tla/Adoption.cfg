SPECIFICATION MCSpec
CHECK_DEADLOCK FALSE
CONSTANTS
  Runs = {r1, r2}
  Procs = {p1, p2}
  None = None
  MaxCommands = 4
  d1 = d1
  d2 = d2
  a1 = a1
  a2 = a2
  DeclProcs = {d1, d2}
  ScaffoldNames = {"alpha", "beta"}
  DeclScenes <- MCDeclScenes
  InitialTrees <- MCInitial
  UserEdits <- MCEdits
  MaxEdits = 1
  AdoptProcs = {a1, a2}
  AdoptScenes <- MCAdoptScenes
  NoId = NoId
SYMMETRY Symmetry
INVARIANTS
  RecordIsNotAhead
  PassedIsRegistrable
  EvidenceIsOfIngestion
PROPERTIES
  ScaffoldIsWhole
