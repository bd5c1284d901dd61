SPECIFICATION Spec
CONSTANTS
  Conns = {c1}
  FIFOSIZE = 6
  FIFOACTIONTHRESHOLD = 1
  MSS = 2
  UIP_MAXRTX = 1
  PasswordLength = 1
  Text <- MCText
  Segments <- MCSegments
  MaxOut = 5
  MaxIn = 3
  MaxOpens = 2
CHECK_DEADLOCK FALSE
INVARIANT MirrorsAlone
PROPERTY RoomForKeys
PROPERTY OutputReturns
