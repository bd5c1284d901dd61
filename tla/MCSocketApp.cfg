SPECIFICATION Spec
CONSTANTS
  Conns = {0}
  UIP_BUFSIZE = 3
  MSS = 2
  TRANS_TIMEOUT = 2
  UIP_MAXRTX = 1
  BufLens <- MCBufLens
  WriteLens <- MCWriteLens
  ReadLens <- MCReadLens
  EndBytes <- MCEndBytes
  MaxIn = 4
  MaxOut = 3
  MaxOpens = 2
  MaxEnds = 1
CHECK_DEADLOCK FALSE
INVARIANT NothingLost Written
PROPERTY Flows WriteReturns
