--------------------------- MODULE MCTelnetSession ---------------------------
(* TelnetSession with rings of six bytes and option texts of one.  A peer  *)
(* sends a login, a wrong one, an option request cut in two, or keys that  *)
(* fill a ring when it does so twice.                                      *)
EXTENDS TelnetSession

MCText == [t \in {"option", "prompt", "accepted"} |-> IF t = "option" THEN 1 ELSE 0]
MCNoText == [t \in {"option", "prompt", "accepted"} |-> 0]
MCSegments ==
  {<<"good", "return">>, <<"return">>, <<"iac">>, <<"verb", "bad">>,
   <<"bad", "bad", "bad", "iac", "iac">>}
===============================================================================
