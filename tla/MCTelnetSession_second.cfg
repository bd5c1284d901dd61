\* A second connection while a session is open.
SPECIFICATION Spec
CONSTANTS
  Conns = {c1, c2}
  FIFOSIZE = 6
  FIFOACTIONTHRESHOLD = 1
  MSS = 2
  UIP_MAXRTX = 1
  PasswordLength = 0
  Text <- MCNoText
  Segments <- MCSegments
  MaxOut = 2
  MaxIn = 0
  MaxOpens = 2
CHECK_DEADLOCK FALSE
INVARIANT Mirrors
