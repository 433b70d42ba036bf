\* A gateway that trusts one of two receiver devices; its connection and the
\* receiver's may break.
SPECIFICATION WebSpec
CONSTANTS
  p1 = p1  r1 = r1  r2 = r2  r3 = r3
  kp = kp  k1 = k1  k3 = k3  n1 = n1  n3 = n3
  c = c  b1 = b1  b2 = b2  e1 = e1  e2 = e2  e3 = e3
  None = None
  Providers = {p1}
  Receivers = {r1, r3}
  Keys = {kp, k1, k3}
  Names = {n1, n3}
  KeyOf <- MCKeyOf
  FileName <- MCFileName
  Custom <- MCNoCustom
  Payloads <- MCPayloads
  Oversize = {}
  Browsers = {b1}
  Of <- MCOf
  TrustedKeys = {k1}
  Ephemerals = {e1, e2, e3}
  KeyCodes = {c}
  Allows <- MCAllows
  MaxQueue = 3
  MaxBacklog = 3
  Unreliable = {p1, r1}
  MaxUp = 1
CONSTRAINT Bounded
ACTION_CONSTRAINTS PagesReopen R3Online
VIEW WithoutHistory
SYMMETRY Interchangeable
INVARIANTS WebTypeOK TypedWhereShown NoKeyLeftByPages SecureAsPicked PagesShowTruth GatewayReattached
CHECK_DEADLOCK FALSE
