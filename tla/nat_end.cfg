CONSTANTS
  Ports = {p1}
  Sends <- None
  Answers <- Two
  Refusing = {}
  Resetting = {}
  Aborting = {}
  ConBuf = 1
  ConIss = 14
  SeqSpace = 16
  OutLen = 1
  TcpMax = 1
  TcpBuf = 2
  Mss = 1
  InLen = 2
  Iss = {13}
SPECIFICATION Spec
INVARIANT EndNotLost
CHECK_DEADLOCK FALSE
