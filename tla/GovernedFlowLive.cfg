SPECIFICATION FairSpec
CONSTANTS
  Gaps = {g1}
  OperatorGaps = {g1}
  CapabilityGaps = {}
  None = None
  Commands = {"run"}
  Outcomes = {"flat"}
  RunsExpire = FALSE
  WritesTear = FALSE
  HasStoryId = TRUE
  MaxRuns = 15
  MaxEnds = 2
CHECK_DEADLOCK FALSE
PROPERTIES
  FlowEndsWithReceipt
