--------------------------- MODULE MCProgramControl ---------------------------
(* ProgramControl with model values for the connections, which are         *)
(* interchangeable: no property of the safety runs tells them apart.       *)
EXTENDS ProgramControl, TLC

Symmetry == Permutations(Conns)
===============================================================================
