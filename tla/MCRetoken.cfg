\* Texts of up to seven characters from a page, and of up to eight over the line.
SPECIFICATION ProgramSpec
CONSTANTS
  LINEBUFLEN = 9
  LINEBUFHALFLEN = 2
  LINEBUFTHRESHOLD = 5
  Keywords <- MCKeywords
  Plain <- MCPlain
  Alnum <- MCAlnum
  MaxChars = 8
  MaxUploaded = 7
  Typed <- MCTyped
  Keys <- MCKeys
  RX_BUFFER_SIZE = 3
  FIFO_SIZE = 1
  Lag = 1
CHECK_DEADLOCK FALSE
INVARIANT CutsDoNotShow
INVARIANT ListsAsSent
INVARIANT NeverStuck
