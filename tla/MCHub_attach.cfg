\* Two providers, two connections of one receiver device, and another device
\* whose name one of these asks for.
SPECIFICATION FairSpec
CONSTANTS
  p1 = p1  p2 = p2  r1 = r1  r2 = r2  r3 = r3
  kp = kp  k1 = k1  k3 = k3  n1 = n1  n3 = n3
  small = small  huge = huge
  None = None
  Providers = {p1, p2}
  Receivers = {r1, r2, r3}
  Keys = {kp, k1, k3}
  Names = {n1, n3}
  KeyOf <- MCKeyOf
  FileName <- MCFileName
  Custom <- MCCustom
  Payloads = {small, huge}
  Oversize = {huge}
  MaxQueue = 3
  MaxBacklog = 2
VIEW Core
INVARIANTS TypeOK AttachmentSymmetric AttachedIsRegistered OfferedIsConnected OpenIsRegistered NoRevokedSession
PROPERTIES Attachment DeadReceiverReleased
CHECK_DEADLOCK FALSE
