\* The last position of either stream is beyond W - 1.
SPECIFICATION FairSpec
CONSTANTS
  W = 8
  Iss = 6
  PeerIss = 5
  MSS = 2
  UIP_MAXRTX = 2
  UIP_MAXSYNRTX = 1
  MaxIn = 3
  MaxOut = 5
INVARIANTS StreamIn StreamOut
PROPERTIES Contract Settles
\* One connection: nothing follows its end.
CHECK_DEADLOCK FALSE
