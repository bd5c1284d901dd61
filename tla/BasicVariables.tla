--------------------------- MODULE BasicVariables ---------------------------
(***************************************************************************)
(* What a BASIC program may rely on of its strings: they are values.  Each *)
(* variable and each element of an array has one of its own, and a step of *)
(* the interpreter changes at most the one the statement under way names;  *)
(* or the size of one array, which keeps the elements that fit; or memory  *)
(* runs out and one array is emptied.  Which strings may change is said    *)
(* here, and not what they are changed to.                                 *)
(***************************************************************************)
EXTENDS Naturals, Sequences

CONSTANTS StringNames, Arrays, Texts, Unset

VARIABLES string, array,
          target    \* the names the statement under way assigns to

vars == <<string, array, target>>

Values == Texts \union {Unset}
Targets == [name : StringNames] \union [array : Arrays, index : Nat]

Init ==
  /\ string = [n \in StringNames |-> Unset]
  /\ array = [a \in Arrays |-> <<>>]
  /\ target = {}

Assign == \E t \in target \union target', v \in Values :
  /\ t \in [name : StringNames]
  /\ string' = [string EXCEPT ![t.name] = v]
  /\ UNCHANGED array

AssignElement == \E t \in target \union target', v \in Values :
  /\ t \notin [name : StringNames] /\ t.index \in DOMAIN array[t.array]
  /\ array' = [array EXCEPT ![t.array][t.index] = v]
  /\ UNCHANGED string

Resized(s, size) ==
  [i \in 1 .. size |-> IF i \in DOMAIN s THEN s[i] ELSE Unset]

\* DIM, and a DIM for which there is no memory.
Dimension == \E a \in Arrays :
  /\ array' = [array EXCEPT ![a] = Resized(@, Len(array'[a]))]
  /\ UNCHANGED string
Lose == \E a \in Arrays :
  array' = [array EXCEPT ![a] = [i \in DOMAIN @ |-> Unset]] /\ UNCHANGED string

\* The end of the program.
Clear ==
  /\ target' = {}
  /\ string' = [n \in StringNames |-> Unset]
  /\ array' = [a \in Arrays |-> <<>>]

\* A statement begins or ends, or goes on to the next name.
Turn == UNCHANGED <<string, array>>

Next ==
  /\ target' \subseteq Targets
  /\ Turn \/ Assign \/ AssignElement \/ Dimension \/ Lose \/ Clear

Spec == Init /\ [][Next]_vars
=============================================================================
