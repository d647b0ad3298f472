SPECIFICATION Spec
CONSTANTS
  Processes = {p1, p2}
  None = None
  Cut = Cut
  Commands = {"refresh"}
  MaxSessions = 1
  MaxGrants = 3
  MaxCuts = 0
CHECK_DEADLOCK FALSE
INVARIANTS NeverCut
