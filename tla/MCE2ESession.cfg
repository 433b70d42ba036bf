\* Handshakes and messages that arrive late, twice or never.
SPECIFICATION Spec
CONSTANTS
  p1 = p1  p2 = p2  r1 = r1  r2 = r2
  None = None
  Providers = {p1, p2}
  Receivers = {r1, r2}
  Authorized <- MCAuthorized
  MaxKeys = 5
  MaxSealed = 2
INVARIANTS E2ETypeOK TypedInOrder NextIsOpened TypedIsAuthorized
CHECK_DEADLOCK FALSE
