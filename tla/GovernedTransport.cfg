SPECIFICATION MCSpec
CONSTANTS
  Calls = {c1, c2}
  Payloads = {p1, p2}
  CallerKeys = {k1}
  None = None
  MaxRetries = 1
  RetryEnabled = TRUE
  Nobody = Nobody
  Clients = {"editor", "agent"}
  MaxSessions = 3
  MaxPosts = 3
CHECK_DEADLOCK FALSE
INVARIANTS RoutedToOwnSession
PROPERTIES
  CallsEnd
  ImplementsIdempotentWrite
  ClientsAreServed
