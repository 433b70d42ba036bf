\* A device with a display name of its own, and SIGHUP.
SPECIFICATION Spec
CONSTANTS
  p1 = p1  p2 = p2  r1 = r1  r2 = r2  r3 = r3
  kp = kp  k1 = k1  k3 = k3  n1 = n1  n3 = n3
  small = small  huge = huge
  None = None
  Providers = {p1}
  Receivers = {r1, r2}
  Keys = {kp, k1, k3}
  Names = {n1, n3}
  KeyOf <- MCKeyOf
  FileName <- MCFileName
  Custom <- MCCustom
  Payloads = {small, huge}
  Oversize = {huge}
  MaxQueue = 2
  MaxBacklog = 2
CONSTRAINT Backlog
PROPERTY ReloadClosesOnlyRevoked
CHECK_DEADLOCK FALSE
