SPECIFICATION SysSpec
CONSTANTS
  p1 = p1  p2 = p2  r1 = r1  r2 = r2  r3 = r3
  kp = kp  k1 = k1  k3 = k3  n1 = n1  n3 = n3
  c = c  e1 = e1  e2 = e2  e3 = e3
  None = None
  Providers = {p1}
  Receivers = {r1, r3}
  Keys = {kp, k1, k3}
  Names = {n1, n3}
  KeyOf <- MCKeyOf
  FileName <- MCFileName
  Custom <- MCNoCustom
  Payloads <- MCPayloads
  Oversize = {}
  Ephemerals = {e1, e2, e3}
  KeyCodes = {c}
  Allows <- MCAllowsButR3
  FirstPins <- MCPinned
  MaxQueue = 3
  MaxBacklog = 3
  Unreliable = {r3}
  MaxEvents = 1
  MaxUp = 1
CONSTRAINT Bounded
VIEW WithoutHistory
SYMMETRY Interchangeable
ACTION_CONSTRAINT PromptRefusal
INVARIANTS SysTypeOK TypingWhereShown NoStuckKeys SessionsAgree
CHECK_DEADLOCK FALSE
