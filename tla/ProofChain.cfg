SPECIFICATION MCSpec
CONSTANTS
  alice = alice bob = bob carol = carol p1 = p1 p2 = p2 p3 = p3 i1 = i1 i2 = i2 c1 = c1 c10 = c10 v1 = v1 v2 = v2
  Procs = {p1, p2, p3}
  Nobody = Nobody
  Invs = {i1, i2}
  Unnamed = Unnamed
  Caps <- MCCaps
  Inside <- MCInside
  Providers = {v1, v2}
  NoProvider = NoProvider
  Scenes <- MCScenes
  MaxResults = 2
  None = None
  Terminals = {1, 2, 3}
  Principals = {alice, bob, carol}
  Complete = {alice, bob}
  Flows = {"device", "passwordless", "pkce"}
  Logins <- MCLogins
  FindsPids = TRUE
INVARIANTS SuccessIsCoherent ReceiptIsOfSubmission VerifiedIsSubmitted AddedIsKept
CHECK_DEADLOCK FALSE
SYMMETRY MCSymmetry
