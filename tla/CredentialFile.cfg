SPECIFICATION MCSpec
CONSTANTS
  Processes = {p1, p2}
  None = None
  Cut = Cut
  Commands = {"refresh", "login", "logout"}
  MaxSessions = 2
  MaxGrants = 2
  MaxCuts = 1
  NoReport = NoReport
  Doctors = {"environment", "library", "launch", "auth"}
  DoctorModes = {"auto", "local_only", "governed"}
  MaxRuns = 2
  MaxChanges = 1
  h1 = h1
  h2 = h2
  h3 = h3
  HostProcs = {h1, h2, h3}
  HostScenes <- MCHostScenes
  Machines <- MCMachines
  Users = {"ann", "bob"}
  Nobody = Nobody
  NoFile = NoFile
  Unreadable = Unreadable
  NoConnection = NoConnection
  MaxEvents = 2
  o1 = o1
  o2 = o2
  AccountProcs = {o1, o2}
  AccountScenes <- MCAccountScenes
  Realms = {"kh-dev", "kh-prod"}
  MaxAccounts = 2
  MaxCodes = 2
  NoDocument = NoDocument
CHECK_DEADLOCK FALSE
SYMMETRY Symmetry
INVARIANTS
  NewestIsKept
  FailuresAreAttributed
  PlanIsNotRepeated
  VerdictIsOfTheWorld
  EditsAreRecoverable
  SplitIsTold
  VerifiedWasActive
  DeletionIsTrue
