SPECIFICATION SysSpec
CONSTANTS
  p1 = p1  p2 = p2  r1 = r1  r2 = r2  r3 = r3
  kp = kp  k1 = k1  k3 = k3  n1 = n1  n3 = n3
  c = c  e1 = e1  e2 = e2  e3 = e3
  None = None
  Providers = {p1, p2}
  Receivers = {r1}
  Keys = {kp, k1}
  Names = {n1}
  KeyOf <- MCKeyOf
  FileName <- MCFileName
  Custom <- MCNoCustom
  Payloads <- MCPayloads
  Oversize = {}
  Ephemerals = {e1, e2, e3}
  KeyCodes = {c}
  Allows <- MCAllows
  FirstPins <- MCPinnedButP2
  MaxQueue = 3
  MaxBacklog = 3
  Unreliable = {}
  MaxEvents = 1
  MaxUp = 1
ACTION_CONSTRAINT SlowProvider
CONSTRAINT BoundedButFull
SYMMETRY Interchangeable
INVARIANTS NoStuckKeys SessionsAgree ToldPartner BlobsInContext ToldList
CHECK_DEADLOCK FALSE
