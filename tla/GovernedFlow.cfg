SPECIFICATION Spec
CONSTANTS
  Gaps = {g1, g2}
  OperatorGaps = {}
  CapabilityGaps = {g1}
  None = None
  Commands = {"run","status"}
  Outcomes = {"nested","bare","failed"}
  RunsExpire = TRUE
  WritesTear = TRUE
  HasStoryId = FALSE
  MaxRuns = 4
  MaxEnds = 2
CHECK_DEADLOCK FALSE
INVARIANTS
  CheckpointIsBacked
  OneSubmissionPerProcess
CONSTRAINT FewTroubles
