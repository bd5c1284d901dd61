---------------------------- MODULE MCBasicControl ----------------------------
(* Every program of three lines over an alphabet of statements, every one  *)
(* of four over its core, and longer ones chosen for the nesting of their  *)
(* loops and for INPUT and DOLINE.                                         *)
EXTENDS BasicControl

Plain(op) == [op |-> op]
To(op, l) == [op |-> op, label |-> l]
Loop(v, from, to, step) ==
  [op |-> "for", var |-> v, from |-> from, to |-> to, step |-> step]
Step(v) == [op |-> "next", var |-> v]
LetBe(v, n) == [op |-> "let", var |-> v, to |-> n]
InplenOf(v, n) == [op |-> "inplen", var |-> v, len |-> n]
ErrOf(v, which) == [op |-> "err", var |-> v, which |-> which]
Run(inner, v) == [op |-> "doline", inner |-> inner, var |-> v]
Missing == 9
MCMinInt == -4

MCVars == {"i", "j"}
MCChars == {"a", "b"}

Core ==
  {Plain(op) : op \in {"other", "return", "repeat", "until"}}
  \union {To("goto", 1), To("gosub", 3), To("onerror", 3), To("abort", 1)}
  \union {[op |-> "if", then |-> 1, else |-> NEXTLINEOFFSET],
          Loop("i", 0, 1, 1), Loop("i", 1, 0, 1), Step("i")}
Alphabet ==
  Core \union {To("gosub", Missing), To("onerror", NoLabel), Run(Plain("gosub"), "j"),
               To("onerror", Missing), Run(Plain("other"), "j")}

Long ==
  {<<Loop("i", 0, 1, 1), Loop("j", 1, 0, -1), Plain("other"), Step("j"), Step("i")>>,
   <<Loop("i", 0, 1, 1), Loop("j", 1, 0, 1), Plain("other"), Step("j"), Step("i")>>,
   <<Loop("i", 1, 0, 1), Loop("j", 0, 1, 1), Step("j"), Step("i"), Plain("other")>>,
   <<Plain("repeat"), Loop("i", 0, 2, 2), Plain("repeat"), Plain("until"),
     Step("i"), Plain("until"), Plain("end")>>,
   <<Loop("i", 0, 1, 1), Loop("i", 0, 1, 1), Step("i"), Step("i")>>,
   <<To("onerror", 4), [op |-> "input", inplen |-> 0], To("goto", 1),
     ErrOf("i", 1), InplenOf("i", 1), To("goto", 1)>>,
   <<[op |-> "input", inplen |-> 1], Plain("other")>>,
   <<To("onerror", 3), Run(Plain("other"), "i"), Run(ErrOf("j", 1), "i"), ErrOf("j", 0),
     Run(ErrOf("i", 0), "i"), Plain("other"), To("goto", 1)>>,
   <<LetBe("i", 1), InplenOf("j", 0)>>,
   <<Run(InplenOf("j", 1), "i"), [op |-> "input", inplen |-> 10001],
     InplenOf("j", 10001), Run(InplenOf("j", 10001), "i")>>,
   <<Loop("i", 0, 2, 1), Run(Plain("other"), "j"), Run(LetBe("j", 3), "j"), Step("i")>>,
   <<Loop("i", 0, 1, 1), Run(Plain("other"), "i"), Step("i")>>,
   <<Loop("i", 0, 1, 1), Run(LetBe("i", 0), "j"), Step("i")>>,
   <<Loop("i", 0, 3, 1), Step("i"), Plain("other")>>}

MCPrograms == [1 .. 3 -> Alphabet] \union [1 .. 4 -> Core] \union Long
=============================================================================
