CONSTANTS
  Ports = {p1}
  Sends <- Three
  Answers <- One
  Refusing = {}
  Resetting = {p1}
  Aborting = {p1}
  ConBuf = 1
  ConIss = 14
  SeqSpace = 16
  OutLen = 2
  TcpMax = 1
  TcpBuf = 1
  Mss = 1
  InLen = 1
  Iss = {13}
SPECIFICATION Spec
INVARIANT TypeOK
INVARIANT AcknowledgedIsHeld
PROPERTY ImplementsRelay
CHECK_DEADLOCK FALSE
