------------------------------- MODULE MCUipTcp -------------------------------
(* A connection whose sequence numbers wrap on both sides: three bytes in, *)
(* five out, one or two a segment; two retransmissions, one of a SYN.      *)
EXTENDS UipTcp
===============================================================================
