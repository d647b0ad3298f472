SPECIFICATION MCSpec
CONSTANTS
  p1 = p1 p2 = p2 p3 = p3
  Requests = {r1, r2}
  Digests = {d1, d2}
  None = None
  Modes <- AllModes
  UpstreamReplies <- FewReplies
  AppProcs = {p1, p2, p3}
  AppGaps = {g1, g2}
  NoGap = None
  AppScenes <- MCAppScenes
  MaxServed = 5
  MaxDigests = 2
CHECK_DEADLOCK FALSE
INVARIANTS
  RequestsAreChained
  FilesAreAnswers
PROPERTIES
  EveryRequestAnswered
  ImplementsLedger
