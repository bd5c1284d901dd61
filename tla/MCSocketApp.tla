----------------------------- MODULE MCSocketApp -----------------------------
(* SocketApp with a uip_buf of 3 bytes and segments of 2.  Byte 2 matches
   a reader's end character; a program writes the empty string, one segment and
   two segments.  *)
EXTENDS SocketApp

MCBufLens == {4}
MCWriteLens == {0, 1, 3}
MCReadLens == {2}
MCEndBytes == {2}
=============================================================================
