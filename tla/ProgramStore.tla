----------------------------- MODULE ProgramStore -----------------------------
(***************************************************************************)
(* What the firmware promises about the stored BASIC program, with none of *)
(* the console, the web pages or the flags that deliver it: the store is   *)
(* idle, or being executed, or in the hands of exactly one user who reads  *)
(* or rewrites it, and the selected bank changes only while it is idle.    *)
(*                                                                         *)
(* Introduction.md:71 is the user's view of the same promise: "a program   *)
(* currently is running and the program can not be changed".               *)
(***************************************************************************)
EXTENDS Integers

CONSTANTS
  Users,      \* whoever may list, edit or upload a program
  Idle,       \* the store when nobody uses it
  Running,    \* the store while the interpreter executes it
  NumBanks    \* number of program banks in flash

VARIABLES
  store,      \* Idle, Running or the user that holds the store
  bank,       \* the bank a run executes and a user edits
  boots       \* resets so far: only a reset may end a use and change the bank

storeVars == <<store, bank, boots>>

Init ==
  /\ store = Idle
  /\ bank \in 0 .. NumBanks - 1
  /\ boots = 0

Acquire(u) == store = Idle /\ store' = u /\ UNCHANGED <<bank, boots>>

Release == store \in Users /\ store' = Idle /\ UNCHANGED <<bank, boots>>

Start == store = Idle /\ store' = Running /\ UNCHANGED <<bank, boots>>

Finish == store = Running /\ store' = Idle /\ UNCHANGED <<bank, boots>>

Select == store = Idle /\ bank' \in 0 .. NumBanks - 1 /\ UNCHANGED <<store, boots>>

(* A reset of the processor abandons whatever was going on. *)
Reset ==
  /\ store' = Idle
  /\ bank' \in 0 .. NumBanks - 1
  /\ boots' = boots + 1

Next ==
  \/ \E u \in Users : Acquire(u)
  \/ Release
  \/ Start
  \/ Finish
  \/ Select
  \/ Reset

Spec == Init /\ [][Next]_storeVars
===============================================================================
