------------------------------ MODULE MCRetoken ------------------------------
(* SerialProgram with a keyword that must be a whole word and one that     *)
(* need not, as FOR and CHR$ in the table, and buffers a few characters    *)
(* long: two cuts fall inside a text, the ring wraps, and the line buffer  *)
(* fills while the sender has not yet heard that it should stop.           *)
EXTENDS SerialProgram

MCKeywords ==
  {[name |-> <<"a", "b">>, token |-> "AB", word |-> TRUE],
   [name |-> <<"b", "space">>, token |-> "B$", word |-> FALSE]}
MCPlain == {"a", "b", "space"}
MCAlnum == {"a", "b"}
MCTyped == {"a", "b", "quote"}
MCKeys == MCTyped \union {"ctrl-d"}
===============================================================================
