SPECIFICATION FairSpec
CONSTANTS
  MaxAttempts = 2
  WithCancelToken = {1}
  None = None
  Intervals = {0}
  Expiries = {0, 1}
  IntervalFloor = 1
  ExpiryFloor = 1
  Increment = 1
  IntervalCap = 2
  RequestTimeout = 1
  MaxFailures = 2
CHECK_DEADLOCK FALSE
PROPERTIES
  EndsAreTrue
  OnlyActiveGetsToken
  LoginsEnd
