-------------------------- MODULE BasicControlProofs --------------------------
(***************************************************************************)
(* Proofs about BasicControl, for every set of programs and every depth of *)
(* the stacks: offsets and stacks keep their shape, frames lead to the     *)
(* lines after their statements, "line not found from" is unreachable, and *)
(* a line run by DOLINE cannot move the control of its program.            *)
(***************************************************************************)
EXTENDS BasicControl, SequenceTheorems, WellFoundedInduction, TLAPS

\* The parts of the invariant an action can disturb one at a time.
ControlOK ==
  /\ program \in Programs
  /\ outcome \in {"running", "ended", "error", "stopped"}
  /\ curoffset \in Offset
  /\ erroroffset \in Offset \union {ENDPROGRAMOFFSET}
  /\ onerroroffset \in Lines \union {ENDPROGRAMOFFSET}

GosubOK ==
  /\ gosubstack \in Seq(Offset) /\ Len(gosubstack) <= MaxGosub
  /\ \A i \in 1 .. Len(gosubstack) : \E n \in Lines :
       program[n].op = "gosub" /\ gosubstack[i] = n + 1

RepeatOK ==
  /\ repeatstack \in Seq(Offset) /\ Len(repeatstack) <= MaxRepeats
  /\ \A i \in 1 .. Len(repeatstack) : \E n \in Lines :
       program[n].op = "repeat" /\ repeatstack[i] = n + 1

ForOK ==
  /\ forstack \in Seq(Frame) /\ Len(forstack) <= MaxFors
  /\ \A i \in 1 .. Len(forstack) : \E n \in Lines :
       /\ program[n].op = "for" /\ forstack[i].id = program[n].var
       /\ forstack[i].nextoffset = n + 1

ValuesOK == value \in [Vars -> Number]

InputOK ==
  /\ svalue \in Seq(Chars)
  /\ curinputptr \in Seq(Chars) \union {NoBuffer}
  /\ curinputmax \in Nat

StacksOK == GosubOK /\ RepeatOK /\ ForOK
Inv == ControlOK /\ StacksOK /\ ValuesOK /\ InputOK

\* The invariant says no less than the three properties it is made for.
LEMMA InvImplies ==
  Inv => TypeOK /\ FramesFollowTheirStatements /\ NoStrayLine
BY DEF Inv, ControlOK, StacksOK, GosubOK, RepeatOK, ForOK, ValuesOK, InputOK,
       TypeOK, FramesFollowTheirStatements, NoStrayLine

\* A program has lines, the current statement is one of the forms.
LEMMA ProgramShape ==
  ASSUME ControlOK
  PROVE  /\ Len(program) \in Nat \ {0}
         /\ \A n \in Lines : IsStatement(program[n])
         /\ Lines \subseteq Offset /\ EndOfText \in Offset
         /\ \A o \in Offset : getnextline(o) \in Offset
BY ProgramsAssumption DEF ControlOK, Lines, Offset, EndOfText, getnextline

\* The marks are no places in the text, and differ.
LEMMA Marks ==
  /\ NEXTLINEOFFSET # LINENOTFOUNDOFFSET /\ NEXTLINEOFFSET # ENDPROGRAMOFFSET
  /\ LINENOTFOUNDOFFSET # ENDPROGRAMOFFSET
  /\ ~(NEXTLINEOFFSET >= 1) /\ ~(ENDPROGRAMOFFSET >= 1)
  /\ \A to \in Offset : to >= 1 /\ to # NEXTLINEOFFSET
       /\ to # ENDPROGRAMOFFSET /\ to # LINENOTFOUNDOFFSET
BY DEF Offset, NEXTLINEOFFSET, ENDPROGRAMOFFSET, LINENOTFOUNDOFFSET

-----------------------------------------------------------------------------
\* The tail of mainloop, given an answer that is a place in the text or one
\* of the marks, keeps the registers in the text; the mark of a missing
\* label comes with an error.
LEMMA TurnKeepsControl ==
  ASSUME ControlOK, NEW r, NEW answer, NEW e,
         r.at \in Offset,
         r.errat \in Offset \union {ENDPROGRAMOFFSET},
         r.handler \in Lines \union {ENDPROGRAMOFFSET},
         answer \in Offset \union {ENDPROGRAMOFFSET, NEXTLINEOFFSET}
           \/ e # NoError,
         Turn(r, answer, e)
  PROVE  ControlOK' /\ program' = program
<1>0. Len(program) \in Nat \ {0} /\ program' = program
  BY ProgramShape DEF Turn
<1>1. \A o \in Offset : getnextline(o) \in Offset
  BY ProgramShape
<1>2. ASSUME NEW to \in Offset \union {ENDPROGRAMOFFSET, NEXTLINEOFFSET},
             Proceeds(r.at, to)
      PROVE  curoffset' \in Offset /\ outcome' \in {"running", "ended"}
  <2>1. CASE to = NEXTLINEOFFSET
    <3>1. Goes(getnextline(r.at),
               IF getnextline(r.at) \in Lines THEN "running" ELSE "ended")
      BY <1>2, <2>1, Marks DEF Proceeds
    <3> QED BY <1>1, <3>1 DEF Goes
  <2>2. CASE to = ENDPROGRAMOFFSET
    BY <1>2, <2>2, Marks DEF Proceeds, Goes
  <2>3. CASE to \in Offset
    BY <1>2, <2>3, Marks DEF Proceeds, Goes
  <2> QED BY <1>2, <2>1, <2>2, <2>3
<1>3. CASE e = NoError
  <2>1. Proceeds(r.at, answer) /\ erroroffset' = r.errat
        /\ onerroroffset' = r.handler
    BY <1>3 DEF Turn
  <2> QED BY <1>0, <1>2, <1>3, <2>1 DEF ControlOK, Offset, Lines, EndOfText
<1>4. CASE e # NoError /\ Traps(r.handler, e)
  <2>1. Proceeds(r.at, r.handler) /\ erroroffset' = r.at
        /\ onerroroffset' = ENDPROGRAMOFFSET
    BY <1>4 DEF Turn
  <2>2. r.handler \in Offset
    BY <1>0, <1>4 DEF Traps, Lines, Offset, EndOfText
  <2> QED BY <1>0, <1>2, <2>1, <2>2 DEF ControlOK, Offset, Lines, EndOfText
<1>5. CASE e # NoError /\ ~Traps(r.handler, e)
  BY <1>0, <1>5 DEF Turn, Goes, ControlOK, Offset, Lines, EndOfText
<1> QED BY <1>3, <1>4, <1>5

LEMMA ThenKeepsControl ==
  ASSUME ControlOK, NEW answer, NEW e,
         answer \in Offset \union {ENDPROGRAMOFFSET, NEXTLINEOFFSET}
           \/ e # NoError,
         Then(answer, e)
  PROVE  ControlOK' /\ program' = program
<1>1. /\ Registers.at \in Offset
      /\ Registers.errat \in Offset \union {ENDPROGRAMOFFSET}
      /\ Registers.handler \in Lines \union {ENDPROGRAMOFFSET}
  BY DEF ControlOK, Registers
<1>2. Turn(Registers, answer, e)
  BY DEF Then
<1> QED BY <1>1, <1>2, TurnKeepsControl

\* A label leads to a line, or is an error of the statement that names it.
LEMMA Labels ==
  /\ \A l : getlabel(l) \in Lines \/ LabelError(l) # NoError
  /\ \A e1, e2 : e1 # NoError \/ e2 # NoError => First(e1, e2) # NoError
BY DEF getlabel, LabelError, First, NoError

-----------------------------------------------------------------------------
(* The stacks: left alone, pushed, popped, cleared *)

LEMMA GosubStays ==
  ASSUME GosubOK, program' = program, gosubstack' = gosubstack
  PROVE  GosubOK'
BY DEF GosubOK, Offset, EndOfText, Lines

LEMMA RepeatStays ==
  ASSUME RepeatOK, program' = program, repeatstack' = repeatstack
  PROVE  RepeatOK'
BY DEF RepeatOK, Offset, EndOfText, Lines

LEMMA ForStays ==
  ASSUME ForOK, program' = program, forstack' = forstack
  PROVE  ForOK'
BY DEF ForOK, Frame, Offset, EndOfText, Lines

LEMMA StacksStay ==
  ASSUME StacksOK, program' = program, UNCHANGED stacks
  PROVE  StacksOK'
BY GosubStays, RepeatStays, ForStays DEF StacksOK, stacks

LEMMA Cleared ==
  ASSUME gosubstack' = <<>>, repeatstack' = <<>>, forstack' = <<>>
  PROVE  StacksOK'
BY StacksAssumption DEF StacksOK, GosubOK, RepeatOK, ForOK

\* What a stack of offsets or frames is after one more, or one less.
LEMMA Pushed ==
  ASSUME NEW S, NEW stack \in Seq(S), NEW x \in S
  PROVE  /\ Append(stack, x) \in Seq(S)
         /\ Len(Append(stack, x)) = Len(stack) + 1
         /\ \A i \in 1 .. Len(stack) + 1 :
              Append(stack, x)[i] = IF i <= Len(stack) THEN stack[i] ELSE x
OBVIOUS

LEMMA Popped ==
  ASSUME NEW S, NEW stack \in Seq(S), stack # <<>>
  PROVE  /\ Pop(stack) \in Seq(S)
         /\ Len(Pop(stack)) = Len(stack) - 1
         /\ \A i \in 1 .. Len(stack) - 1 : Pop(stack)[i] = stack[i]
         /\ Top(stack) \in S
<1>1. Len(stack) \in Nat \ {0}
  BY EmptySeq
<1>2. ASSUME NEW n \in Nat, n < Len(stack)
      PROVE  /\ SubSeq(stack, 1, n) \in Seq(S)
             /\ Len(SubSeq(stack, 1, n)) = n
             /\ \A i \in 1 .. n : SubSeq(stack, 1, n)[i] = stack[i]
  BY <1>2
<1>3. Len(stack) - 1 \in Nat /\ Len(stack) - 1 < Len(stack)
  BY <1>1
<1>4. Top(stack) \in S
  BY <1>1 DEF Top
<1> QED BY <1>2, <1>3, <1>4 DEF Pop

LEMMA GosubPush ==
  ASSUME ControlOK, GosubOK, curoffset \in Lines, statement.op = "gosub",
         Len(gosubstack) < MaxGosub, program' = program,
         gosubstack' = Append(gosubstack, getnextline(curoffset))
  PROVE  GosubOK'
<1>1. getnextline(curoffset) \in Offset /\ getnextline(curoffset) = curoffset + 1
  BY ProgramShape DEF Lines, getnextline
<1>2. gosubstack' \in Seq(Offset) /\ Len(gosubstack') = Len(gosubstack) + 1
      /\ \A i \in 1 .. Len(gosubstack) + 1 : gosubstack'[i] =
           IF i <= Len(gosubstack) THEN gosubstack[i] ELSE curoffset + 1
  BY <1>1, Pushed DEF GosubOK
<1>3. Len(gosubstack) \in Nat
  BY DEF GosubOK
<1>4. gosubstack' \in Seq(Offset') /\ Len(gosubstack') <= MaxGosub
  BY <1>2, <1>3, StacksAssumption DEF Offset, EndOfText
<1>5. ASSUME NEW i \in 1 .. Len(gosubstack')
      PROVE  \E n \in Lines : program[n].op = "gosub" /\ gosubstack'[i] = n + 1
  <2>1. CASE i <= Len(gosubstack)
    BY <1>2, <1>3, <1>5, <2>1 DEF GosubOK
  <2>2. CASE ~(i <= Len(gosubstack))
    BY <1>2, <1>3, <1>5, <2>2 DEF statement
  <2> QED BY <2>1, <2>2
<1> QED BY <1>4, <1>5 DEF GosubOK, Lines

LEMMA RepeatPush ==
  ASSUME ControlOK, RepeatOK, curoffset \in Lines, statement.op = "repeat",
         Len(repeatstack) < MaxRepeats, program' = program,
         repeatstack' = Append(repeatstack, getnextline(curoffset))
  PROVE  RepeatOK'
<1>1. getnextline(curoffset) \in Offset /\ getnextline(curoffset) = curoffset + 1
  BY ProgramShape DEF Lines, getnextline
<1>2. repeatstack' \in Seq(Offset) /\ Len(repeatstack') = Len(repeatstack) + 1
      /\ \A i \in 1 .. Len(repeatstack) + 1 : repeatstack'[i] =
           IF i <= Len(repeatstack) THEN repeatstack[i] ELSE curoffset + 1
  BY <1>1, Pushed DEF RepeatOK
<1>3. Len(repeatstack) \in Nat
  BY DEF RepeatOK
<1>4. repeatstack' \in Seq(Offset') /\ Len(repeatstack') <= MaxRepeats
  BY <1>2, <1>3, StacksAssumption DEF Offset, EndOfText
<1>5. ASSUME NEW i \in 1 .. Len(repeatstack')
      PROVE  \E n \in Lines : program[n].op = "repeat" /\ repeatstack'[i] = n + 1
  <2>1. CASE i <= Len(repeatstack)
    BY <1>2, <1>3, <1>5, <2>1 DEF RepeatOK
  <2>2. CASE ~(i <= Len(repeatstack))
    BY <1>2, <1>3, <1>5, <2>2 DEF statement
  <2> QED BY <2>1, <2>2
<1> QED BY <1>4, <1>5 DEF RepeatOK, Lines

LEMMA GosubPop ==
  ASSUME GosubOK, gosubstack # <<>>, program' = program,
         gosubstack' = Pop(gosubstack)
  PROVE  GosubOK' /\ Top(gosubstack) \in Offset
<1>1. /\ gosubstack' \in Seq(Offset) /\ Len(gosubstack') = Len(gosubstack) - 1
      /\ \A i \in 1 .. Len(gosubstack) - 1 : gosubstack'[i] = gosubstack[i]
      /\ Top(gosubstack) \in Offset
  BY Popped DEF GosubOK
<1>2. Len(gosubstack) \in Nat
  BY DEF GosubOK
<1> QED BY <1>1, <1>2, StacksAssumption DEF GosubOK, Lines, Offset, EndOfText

LEMMA RepeatPop ==
  ASSUME RepeatOK, repeatstack # <<>>, program' = program,
         repeatstack' = Pop(repeatstack)
  PROVE  RepeatOK'
<1>1. /\ repeatstack' \in Seq(Offset) /\ Len(repeatstack') = Len(repeatstack) - 1
      /\ \A i \in 1 .. Len(repeatstack) - 1 : repeatstack'[i] = repeatstack[i]
  BY Popped DEF RepeatOK
<1>2. Len(repeatstack) \in Nat
  BY DEF RepeatOK
<1> QED BY <1>1, <1>2, StacksAssumption DEF RepeatOK, Lines, Offset, EndOfText

LEMMA ForPop ==
  ASSUME ForOK, forstack # <<>>, program' = program,
         forstack' = Pop(forstack)
  PROVE  ForOK'
<1>1. /\ forstack' \in Seq(Frame) /\ Len(forstack') = Len(forstack) - 1
      /\ \A i \in 1 .. Len(forstack) - 1 : forstack'[i] = forstack[i]
  BY Popped DEF ForOK
<1>2. Len(forstack) \in Nat
  BY DEF ForOK
<1>3. Frame' = Frame /\ Lines' = Lines
  BY DEF Frame, Lines, Offset, EndOfText
<1> QED BY <1>1, <1>2, <1>3, StacksAssumption DEF ForOK

-----------------------------------------------------------------------------
(* Every action keeps the invariant *)

\* The statement at which an action may be taken.
LEMMA AtStatement ==
  ASSUME ControlOK, NEW op, At(op)
  PROVE  curoffset \in Lines /\ statement.op = op /\ IsStatement(statement)
         /\ Len(program) \in Nat \ {0} /\ curoffset \in Offset
BY ProgramShape DEF At, statement

\* What IsStatement says of an assignment is no other statement's form.
LEMMA AssignmentOps ==
  \A s \in Assignments : s.op \in {"let", "inplen", "err"}
BY DEF Assignments

\* Statements that leave stacks, variables and the input buffer alone.
LEMMA PlainKeepsInv ==
  ASSUME Inv, UNCHANGED <<stacks, value, input>>, ControlOK', program' = program
  PROVE  Inv'
BY StacksStay DEF Inv, ValuesOK, InputOK, input

LEMMA PlainSteps ==
  ASSUME Inv,
         AtEndOfText \/ Other \/ OnError \/ If \/ Goto \/ End \/ InputNoMemory
  PROVE  Inv'
<1>0. ControlOK /\ Len(program) \in Nat \ {0} /\ Lines \subseteq Offset
  BY ProgramShape DEF Inv
<1>1. CASE AtEndOfText
  BY <1>0, <1>1, ThenKeepsControl, PlainKeepsInv DEF AtEndOfText
<1>2. CASE Other
  BY <1>0, <1>2, ThenKeepsControl, PlainKeepsInv DEF Other
<1>4. CASE OnError
  <2> DEFINE r(h) == [Registers EXCEPT !.handler = h]
  <2>1. ASSUME NEW h \in Lines \union {ENDPROGRAMOFFSET},
               Turn(r(h), NEXTLINEOFFSET, NoError)
        PROVE  ControlOK' /\ program' = program
    <3>1. /\ r(h).at \in Offset /\ r(h).errat \in Offset \union {ENDPROGRAMOFFSET}
          /\ r(h).handler \in Lines \union {ENDPROGRAMOFFSET}
      BY <1>0 DEF Registers, ControlOK
    <3> HIDE DEF r
    <3> QED BY <1>0, <2>1, <3>1, TurnKeepsControl
  <2>2. CASE statement.label = NoLabel
    BY <1>4, <2>1, <2>2, PlainKeepsInv DEF OnError
  <2>3. CASE statement.label # NoLabel /\ statement.label \in Lines
    BY <1>4, <2>1, <2>3, PlainKeepsInv DEF OnError
  <2>4. CASE statement.label # NoLabel /\ statement.label \notin Lines
    BY <1>0, <1>4, <2>4, ThenKeepsControl, PlainKeepsInv DEF OnError
  <2> QED BY <2>2, <2>3, <2>4
<1>5. CASE If
  <2>1. PICK answer, e :
          /\ Then(answer, e)
          /\ answer \in Offset \union {NEXTLINEOFFSET} \/ e # NoError
    BY <1>0, <1>5, Labels DEF If
  <2> QED BY <1>0, <1>5, <2>1, ThenKeepsControl, PlainKeepsInv DEF If
<1>6. CASE Goto
  BY <1>0, <1>6, Labels, ThenKeepsControl, PlainKeepsInv DEF Goto
<1>7. CASE End
  BY <1>0, <1>7, ThenKeepsControl, PlainKeepsInv DEF End
<1>9. CASE InputNoMemory
  BY <1>0, <1>9, ThenKeepsControl, PlainKeepsInv DEF InputNoMemory
<1> QED BY <1>1, <1>2, <1>4, <1>5, <1>6, <1>7, <1>9

\* An assignment, and the answer of a DOLINE, leave numbers in the variables.
LEMMA AssignedAreNumbers ==
  ASSUME ValuesOK, NEW s \in Assignments, NEW e
  PROVE  Assigned(s, e) \subseteq [Vars -> Number]
<1>1. s.var \in Vars /\ (s.op = "let" => s.to \in Number)
  BY DEF Assignments
<1>2. ASSUME NEW n \in Number PROVE [value EXCEPT ![s.var] = n] \in [Vars -> Number]
  BY <1>1, <1>2 DEF ValuesOK
<1> QED BY <1>1, <1>2 DEF Assigned

LEMMA CodesAreNumbers ==
  ASSUME NEW e
  PROVE  Codes(e) \subseteq Number
BY NumbersAssumption DEF Codes, Number

\* The inner line of a DOLINE, and where its registers and data are left.
LEMMA DolineSteps ==
  ASSUME Inv, Doline
  PROVE  Inv'
<1>0. /\ ControlOK /\ StacksOK /\ ValuesOK /\ InputOK
      /\ Len(program) \in Nat \ {0} /\ Lines \subseteq Offset
      /\ UNCHANGED <<stacks, curinputptr, svalue>>
  BY ProgramShape DEF Inv, Doline
<1>1. CASE DolineFails
  <2>1. PICK e : Then(NEXTLINEOFFSET, e) /\ UNCHANGED <<value, curinputmax>>
    BY <1>1 DEF DolineFails
  <2>2. ControlOK' /\ program' = program
    BY <1>0, <2>1, ThenKeepsControl
  <2> QED BY <1>0, <2>1, <2>2, StacksStay DEF Inv, ValuesOK, InputOK
<1>2. CASE \E e \in ExprErrors, f \in {NoError, "BADTYPE", OutOfMemory} :
             DolineRuns(statement.inner, e, f)
  <2> DEFINE inner == statement.inner
  <2>1. PICK e, f : DolineRuns(inner, e, f)
    BY <1>2
  <2>2. /\ statement.var \in Vars
        /\ inner \in Assignments \/ inner \in [op : {"other"} \union Control]
    BY <1>0, AtStatement DEF Doline, IsStatement, Assignments, Control
  <2> DEFINE r == [Registers EXCEPT
               !.last = IF inner.op = "err" /\ inner.which = 0 THEN NoError ELSE @]
  <2>3. /\ r.at \in Offset /\ r.errat \in Offset \union {ENDPROGRAMOFFSET}
        /\ r.handler \in Lines \union {ENDPROGRAMOFFSET}
    BY <1>0 DEF Registers, ControlOK
  <2>4. PICK after \in AfterInner(inner, e), answer \in Codes(DolineError(inner, e)) :
          value' = IF f = NoError
                   THEN [after EXCEPT ![statement.var] = answer] ELSE after
    BY <2>1 DEF DolineRuns
  <2>5. curinputmax' = curinputmax \/ (inner.op = "inplen" /\ curinputmax' = inner.len)
    BY <2>1 DEF DolineRuns
  <2>6. PICK g : Turn(r, NEXTLINEOFFSET, g)
    BY <2>1 DEF DolineRuns
  <2>7. inner.op = "inplen" => inner.len \in Nat
    BY <2>2 DEF Assignments, Control
  <2> HIDE DEF r, inner
  <2>8. ControlOK' /\ program' = program
    BY <1>0, <2>3, <2>6, TurnKeepsControl
  <2>9. after \in [Vars -> Number] /\ answer \in Number
    <3>1. AfterInner(inner, e) \subseteq Assigned(inner, e) \union {value}
      BY DEF AfterInner
    <3>2. inner \notin Assignments => AfterInner(inner, e) = {value}
      BY DEF AfterInner
    <3>3. value \in [Vars -> Number]
      BY <1>0 DEF ValuesOK
    <3>4. answer \in Number
      BY <2>4, CodesAreNumbers
    <3>5. CASE inner \in Assignments
      <4>1. Assigned(inner, e) \subseteq [Vars -> Number]
        BY <1>0, <3>5, AssignedAreNumbers
      <4> QED BY <2>4, <3>1, <3>3, <3>4, <4>1
    <3>6. CASE inner \notin Assignments
      BY <2>4, <3>2, <3>3, <3>4, <3>6
    <3> QED BY <3>5, <3>6
  <2>10. ValuesOK'
    BY <2>2, <2>4, <2>9 DEF ValuesOK
  <2>11. InputOK'
    BY <1>0, <2>7, <2>5 DEF InputOK
  <2> QED BY <1>0, <2>8, <2>10, <2>11, StacksStay DEF Inv
<1> QED BY <1>1, <1>2 DEF Doline

\* Statements that write variables or the input buffer.
LEMMA DataSteps ==
  ASSUME Inv, Let \/ Inplen \/ Err \/ InputKey \/ InputReturn
  PROVE  Inv'
<1>0. /\ ControlOK /\ StacksOK /\ ValuesOK /\ InputOK
      /\ Len(program) \in Nat \ {0} /\ Lines \subseteq Offset
  BY ProgramShape DEF Inv
<1>1. CASE Let
  <2>1. statement \in Assignments
    BY <1>0, <1>1, AtStatement DEF Let, IsStatement, Control
  <2>2. ControlOK' /\ program' = program
    BY <1>0, <1>1, ThenKeepsControl DEF Let
  <2>3. StacksOK'
    BY <1>0, <1>1, <2>2, StacksStay DEF Let
  <2>4. ValuesOK'
    BY <1>0, <1>1, <2>1, AssignedAreNumbers DEF Let, ValuesOK
  <2>5. InputOK'
    BY <1>0, <1>1 DEF Let, InputOK, input
  <2> QED BY <2>2, <2>3, <2>4, <2>5 DEF Inv
<1>2. CASE Inplen
  <2>1. statement \in Assignments /\ statement.len \in Nat
    BY <1>0, <1>2, AtStatement DEF Inplen, IsStatement, Control, Assignments
  <2>2. ControlOK' /\ program' = program
    BY <1>0, <1>2, ThenKeepsControl DEF Inplen, NoError
  <2>3. StacksOK' /\ ValuesOK'
    BY <1>0, <1>2, <2>1, <2>2, StacksStay, AssignedAreNumbers DEF Inplen, ValuesOK
  <2>4. InputOK'
    BY <1>0, <1>2, <2>1 DEF Inplen, InputOK
  <2> QED BY <2>2, <2>3, <2>4 DEF Inv
<1>3. CASE InputKey
  <2>1. curoffset \in Offset
    BY <1>0 DEF ControlOK
  <2>2. ControlOK' /\ program' = program
    BY <1>0, <1>3, <2>1, ThenKeepsControl DEF InputKey
  <2>3. StacksOK' /\ ValuesOK'
    BY <1>0, <1>3, <2>2, StacksStay DEF InputKey, ValuesOK
  <2>4. Buffer \in Seq(Chars)
    BY <1>0 DEF InputOK, Buffer
  <2>5. ASSUME NEW key PROVE Edited(Buffer, key, curinputmax) \in Seq(Chars)
    <3>1. CASE key = "BS"
      BY <2>4, <3>1, EmptySeq DEF Edited
    <3>2. CASE key # "BS"
      BY <2>4, <3>2 DEF Edited
    <3> QED BY <3>1, <3>2
  <2>6. InputOK'
    BY <1>0, <1>3, <2>5 DEF InputKey, InputOK
  <2> QED BY <2>2, <2>3, <2>6 DEF Inv
<1>4. CASE InputReturn
  <2>1. statement.inplen \in Nat
    BY <1>0, <1>4, AtStatement, AssignmentOps DEF InputReturn, IsStatement, Control
  <2>2. PICK e : Then(NEXTLINEOFFSET, e)
    BY <1>4 DEF InputReturn
  <2>3. ControlOK' /\ program' = program
    BY <1>0, <2>2, ThenKeepsControl
  <2>4. StacksOK' /\ ValuesOK'
    BY <1>0, <1>4, <2>3, StacksStay DEF InputReturn, ValuesOK
  <2>5. Buffer \in Seq(Chars) /\ <<>> \in Seq(Chars)
    BY <1>0 DEF InputOK, Buffer
  <2>6. InputOK'
    BY <1>0, <1>4, <2>1, <2>5 DEF InputReturn, InputOK
  <2> QED BY <2>3, <2>4, <2>6 DEF Inv
<1>5. CASE Err
  <2> DEFINE r == ErrCleared(statement.which)
  <2>1. /\ r.at \in Offset /\ r.errat \in Offset \union {ENDPROGRAMOFFSET}
        /\ r.handler \in Lines \union {ENDPROGRAMOFFSET}
    BY <1>0 DEF ErrCleared, Registers, ControlOK
  <2>2. Turn(r, NEXTLINEOFFSET, NoError)
    BY <1>5 DEF Err
  <2> HIDE DEF r
  <2>3. ControlOK' /\ program' = program
    BY <1>0, <2>1, <2>2, TurnKeepsControl
  <2>4. statement \in Assignments
    BY <1>0, <1>5, AtStatement DEF Err, IsStatement, Control
  <2>5. ValuesOK'
    BY <1>0, <1>5, <2>4, AssignedAreNumbers DEF Err, ValuesOK
  <2>6. StacksOK' /\ InputOK'
    BY <1>0, <1>5, <2>3, StacksStay DEF Err, InputOK, input
  <2> QED BY <2>3, <2>5, <2>6 DEF Inv
<1> QED BY <1>1, <1>2, <1>3, <1>4, <1>5

LEMMA JumpSteps ==
  ASSUME Inv, Gosub \/ Return \/ Abort \/ Repeat \/ Until \/ NoVariable
  PROVE  Inv'
<1>0. /\ ControlOK /\ StacksOK /\ ValuesOK /\ InputOK
      /\ GosubOK /\ RepeatOK /\ ForOK
      /\ Len(program) \in Nat \ {0} /\ Lines \subseteq Offset
  BY ProgramShape DEF Inv, StacksOK
<1>1. ASSUME UNCHANGED <<value, input>> PROVE ValuesOK' /\ InputOK'
  BY <1>0, <1>1 DEF ValuesOK, InputOK, input
<1>2. CASE Gosub
  <2>1. curoffset \in Lines /\ statement.op = "gosub"
    BY <1>0, <1>2, AtStatement DEF Gosub
  <2>2. CASE Len(gosubstack) >= MaxGosub
    <3>1. First(LabelError(statement.label), "TOOMANYGOSUB") # NoError
      BY Labels DEF NoError
    <3>2. ControlOK' /\ program' = program
      BY <1>0, <1>2, <2>2, <3>1, ThenKeepsControl DEF Gosub
    <3>3. StacksOK'
      BY <1>0, <1>2, <2>2, <3>2, GosubStays, RepeatStays, ForStays
         DEF Gosub, StacksOK
    <3> QED BY <1>1, <1>2, <3>2, <3>3 DEF Gosub, Inv
  <2>3. CASE ~(Len(gosubstack) >= MaxGosub)
    <3>1. ControlOK' /\ program' = program
      BY <1>0, <1>2, <2>3, Labels, ThenKeepsControl DEF Gosub
    <3>2. Len(gosubstack) < MaxGosub
      BY <1>0, <2>3, StacksAssumption DEF GosubOK
    <3>3. GosubOK'
      BY <1>0, <1>2, <2>1, <2>3, <3>1, <3>2, GosubPush DEF Gosub
    <3>4. StacksOK'
      BY <1>0, <1>2, <3>1, <3>3, RepeatStays, ForStays DEF Gosub, StacksOK
    <3> QED BY <1>1, <1>2, <3>1, <3>4 DEF Gosub, Inv
  <2> QED BY <2>2, <2>3
<1>3. CASE Return
  <2>1. CASE gosubstack = <<>>
    <3>1. ControlOK' /\ program' = program
      BY <1>0, <1>3, <2>1, ThenKeepsControl DEF Return
    <3>2. StacksOK'
      BY <1>0, <1>3, <2>1, <3>1, GosubStays, RepeatStays, ForStays
         DEF Return, StacksOK
    <3> QED BY <1>1, <1>3, <3>1, <3>2 DEF Return, Inv
  <2>2. CASE gosubstack # <<>>
    <3>1. Top(gosubstack) \in Offset
      BY <1>0, <2>2, Popped DEF GosubOK
    <3>2. ControlOK' /\ program' = program
      BY <1>0, <1>3, <2>2, <3>1, ThenKeepsControl DEF Return
    <3>3. GosubOK'
      BY <1>0, <1>3, <2>2, <3>2, GosubPop DEF Return
    <3>4. StacksOK'
      BY <1>0, <1>3, <3>2, <3>3, RepeatStays, ForStays DEF Return, StacksOK
    <3> QED BY <1>1, <1>3, <3>2, <3>4 DEF Return, Inv
  <2> QED BY <2>1, <2>2
<1>4. CASE Abort
  <2>1. ControlOK' /\ program' = program
    BY <1>0, <1>4, Labels, ThenKeepsControl DEF Abort
  <2>2. StacksOK'
    BY <1>4, Cleared DEF Abort
  <2> QED BY <1>1, <1>4, <2>1, <2>2 DEF Abort, Inv
<1>5. CASE Repeat
  <2>1. curoffset \in Lines /\ statement.op = "repeat"
    BY <1>0, <1>5, AtStatement DEF Repeat
  <2>2. ControlOK' /\ program' = program
    BY <1>0, <1>5, ThenKeepsControl DEF Repeat
  <2>3. CASE Len(repeatstack) >= MaxRepeats
    <3>1. StacksOK'
      BY <1>0, <1>5, <2>2, <2>3, GosubStays, RepeatStays, ForStays
         DEF Repeat, StacksOK
    <3> QED BY <1>1, <1>5, <2>2, <3>1 DEF Repeat, Inv
  <2>4. CASE ~(Len(repeatstack) >= MaxRepeats)
    <3>1. Len(repeatstack) < MaxRepeats
      BY <1>0, <2>4, StacksAssumption DEF RepeatOK
    <3>2. RepeatOK'
      BY <1>0, <1>5, <2>1, <2>2, <2>4, <3>1, RepeatPush DEF Repeat
    <3>3. StacksOK'
      BY <1>0, <1>5, <2>2, <3>2, GosubStays, ForStays DEF Repeat, StacksOK
    <3> QED BY <1>1, <1>5, <2>2, <3>3 DEF Repeat, Inv
  <2> QED BY <2>3, <2>4
<1>6. CASE Until
  <2>1. PICK condition \in BOOLEAN, e \in ExprErrors :
       IF repeatstack = <<>>
       THEN Then(ENDPROGRAMOFFSET, First(e, "NOREPEAT")) /\ UNCHANGED repeatstack
       ELSE IF condition
       THEN Then(NEXTLINEOFFSET, e) /\ repeatstack' = Pop(repeatstack)
       ELSE Then(Top(repeatstack), e) /\ UNCHANGED repeatstack
    BY <1>6 DEF Until
  <2>2. CASE repeatstack = <<>>
    <3>1. ControlOK' /\ program' = program /\ UNCHANGED repeatstack
      BY <1>0, <2>1, <2>2, ThenKeepsControl
    <3>2. StacksOK'
      BY <1>0, <1>6, <3>1, GosubStays, RepeatStays, ForStays
         DEF Until, StacksOK
    <3> QED BY <1>1, <1>6, <3>1, <3>2 DEF Until, Inv
  <2>3. CASE repeatstack # <<>> /\ condition
    <3>1. ControlOK' /\ program' = program /\ repeatstack' = Pop(repeatstack)
      BY <1>0, <2>1, <2>3, ThenKeepsControl
    <3>2. RepeatOK'
      BY <1>0, <2>3, <3>1, RepeatPop
    <3>3. StacksOK'
      BY <1>0, <1>6, <3>1, <3>2, GosubStays, ForStays DEF Until, StacksOK
    <3> QED BY <1>1, <1>6, <3>1, <3>3 DEF Until, Inv
  <2>4. CASE repeatstack # <<>> /\ ~condition
    <3>1. Top(repeatstack) \in Offset
      BY <1>0, <2>4, Popped DEF RepeatOK
    <3>2. ControlOK' /\ program' = program /\ UNCHANGED repeatstack
      BY <1>0, <2>1, <2>4, <3>1, ThenKeepsControl
    <3>3. StacksOK'
      BY <1>0, <1>6, <3>2, GosubStays, RepeatStays, ForStays
         DEF Until, StacksOK
    <3> QED BY <1>1, <1>6, <3>2, <3>3 DEF Until, Inv
  <2> QED BY <2>2, <2>3, <2>4
<1>7. CASE NoVariable
  BY <1>0, <1>7, ThenKeepsControl, PlainKeepsInv DEF NoVariable
<1> QED BY <1>2, <1>3, <1>4, <1>5, <1>6, <1>7

LEMMA WrapIsNumber == ASSUME NEW n \in Int PROVE Wrap(n) \in Number
<1> DEFINE w == MaxInt - MinInt + 1
           d == n - MinInt
<1>1. w \in Nat \ {0} /\ d \in Int /\ MinInt \in Int /\ MaxInt \in Int
  BY NumbersAssumption
<1>2. d % w \in 0 .. w - 1
  <2> HIDE DEF w, d
  <2> QED BY <1>1
<1>3. MinInt + (d % w) \in MinInt .. MaxInt
  <2>1. \A m \in 0 .. w - 1 : MinInt + m \in MinInt .. MaxInt
    BY <1>1
  <2> QED BY <1>2, <2>1
<1> QED BY <1>3 DEF Wrap, Number

LEMMA ForPush ==
  ASSUME ControlOK, ForOK, curoffset \in Lines, statement.op = "for",
         NEW to \in Number, NEW step \in Number, statement.var \in Vars,
         Len(forstack) < MaxFors, program' = program,
         forstack' = Append(forstack,
           [id |-> statement.var, nextoffset |-> getnextline(curoffset),
            step |-> step, toval |-> to])
  PROVE  ForOK'
<1> DEFINE f == [id |-> statement.var, nextoffset |-> getnextline(curoffset),
                 step |-> step, toval |-> to]
<1>1. getnextline(curoffset) \in Offset /\ getnextline(curoffset) = curoffset + 1
  BY ProgramShape DEF Lines, getnextline
<1>2. f \in Frame /\ f.nextoffset = curoffset + 1 /\ f.id = program[curoffset].var
  BY <1>1 DEF Frame, statement
<1> HIDE DEF f
<1>3. forstack' = Append(forstack, f)
  BY DEF f
<1>4. forstack' \in Seq(Frame) /\ Len(forstack') = Len(forstack) + 1
      /\ \A i \in 1 .. Len(forstack) + 1 : forstack'[i] =
           IF i <= Len(forstack) THEN forstack[i] ELSE f
  BY <1>2, <1>3, Pushed DEF ForOK
<1>5. Len(forstack) \in Nat
  BY DEF ForOK
<1>6. forstack' \in Seq(Frame') /\ Len(forstack') <= MaxFors
  BY <1>4, <1>5, StacksAssumption DEF Frame, Offset, EndOfText
<1>7. ASSUME NEW i \in 1 .. Len(forstack')
      PROVE  \E n \in Lines :
               /\ program[n].op = "for" /\ forstack'[i].id = program[n].var
               /\ forstack'[i].nextoffset = n + 1
  <2>1. CASE i <= Len(forstack)
    BY <1>4, <1>5, <1>7, <2>1 DEF ForOK
  <2>2. CASE ~(i <= Len(forstack))
    BY <1>2, <1>4, <1>5, <1>7, <2>2 DEF statement
  <2> QED BY <2>1, <2>2
<1> QED BY <1>6, <1>7 DEF ForOK, Lines

\* A FOR whose range is empty moves Scuroffset to where its search ended.
LEMMA SkipKeepsControl ==
  ASSUME ControlOK, NEW e, ForSkips(e)
  PROVE  ControlOK' /\ program' = program /\ UNCHANGED forstack
<1>0. Len(program) \in Nat \ {0} /\ Lines \subseteq Offset /\ EndOfText \in Offset
      /\ \A o \in Offset : getnextline(o) \in Offset
  BY ProgramShape
<1> DEFINE r(at) == [Registers EXCEPT !.at = at]
<1>1. ASSUME NEW at \in Offset
      PROVE  /\ r(at).at \in Offset
             /\ r(at).errat \in Offset \union {ENDPROGRAMOFFSET}
             /\ r(at).handler \in Lines \union {ENDPROGRAMOFFSET}
  BY DEF Registers, ControlOK
<1>2. ASSUME NEW n \in FirstNext(statement.var),
             Turn(r(n), getnextline(n), NoError)
      PROVE  ControlOK' /\ program' = program
  <2>1. n \in Offset /\ getnextline(n) \in Offset
    BY <1>0 DEF FirstNext
  <2> HIDE DEF r
  <2> QED BY <1>1, <1>2, <2>1, TurnKeepsControl
<1>3. ASSUME NEW found,
             Turn(r(EndOfText), ENDPROGRAMOFFSET, found)
      PROVE  ControlOK' /\ program' = program
  <2> HIDE DEF r
  <2> QED BY <1>0, <1>1, <1>3, TurnKeepsControl
<1> QED BY <1>2, <1>3 DEF ForSkips

LEMMA LoopSteps ==
  ASSUME Inv, For \/ Next1
  PROVE  Inv'
<1>0. /\ ControlOK /\ StacksOK /\ ValuesOK /\ InputOK
      /\ GosubOK /\ RepeatOK /\ ForOK
      /\ Len(program) \in Nat \ {0} /\ Lines \subseteq Offset
  BY ProgramShape DEF Inv, StacksOK
<1>1. CASE For
  <2>1. /\ curoffset \in Lines /\ statement.op = "for" /\ statement.var \in Vars
        /\ statement.from \in Number /\ statement.to \in Number
        /\ statement.step \in Number
    BY <1>0, <1>1, AtStatement, AssignmentOps DEF For, IsStatement, Control
  <2>2. PICK e \in ExprErrors, n \in {statement.from, MinInt, MaxInt},
             to \in {statement.to, 0}, step \in {statement.step, 0} :
       /\ value' = [value EXCEPT ![statement.var] = n]
       /\ \/ /\ Len(forstack) >= MaxFors
             /\ Then(ENDPROGRAMOFFSET, First(e, "TOOMANYFORS"))
             /\ UNCHANGED forstack
          \/ Len(forstack) < MaxFors /\ Past(n, to, step) /\ ForSkips(e)
          \/ Len(forstack) < MaxFors /\ ~Past(n, to, step) /\ ForPushes(to, step, e)
    BY <1>1, ZenonT(60) DEF For
  <2>3. n \in Number /\ to \in Number /\ step \in Number
    BY <2>1, NumbersAssumption DEF Number
  <2>4. ValuesOK'
    BY <1>0, <2>1, <2>2, <2>3 DEF ValuesOK
  <2>5. ControlOK' /\ program' = program /\ ForOK'
    <3>1. CASE Len(forstack) >= MaxFors /\ UNCHANGED forstack
               /\ Then(ENDPROGRAMOFFSET, First(e, "TOOMANYFORS"))
      BY <1>0, <3>1, ThenKeepsControl, ForStays
    <3>2. CASE ForSkips(e)
      BY <1>0, <3>2, SkipKeepsControl, ForStays
    <3>3. CASE Len(forstack) < MaxFors /\ ForPushes(to, step, e)
      <4>1. ControlOK' /\ program' = program
        BY <1>0, <3>3, ThenKeepsControl DEF ForPushes
      <4>2. ForOK'
        BY <1>0, <2>1, <2>3, <3>3, <4>1, ForPush DEF ForPushes
      <4> QED BY <4>1, <4>2
    <3> QED BY <2>2, <3>1, <3>2, <3>3
  <2>6. GosubOK' /\ RepeatOK' /\ InputOK'
    BY <1>0, <1>1, <2>5, GosubStays, RepeatStays DEF For, InputOK, input
  <2> QED BY <2>4, <2>5, <2>6 DEF Inv, StacksOK
<1>2. CASE Next1
  <2>1. statement.var \in Vars
    BY <1>0, <1>2, AtStatement, AssignmentOps DEF Next1, IsStatement, Control
  <2>2. /\ InputOK'
        /\ program' = program => GosubOK' /\ RepeatOK'
    <3>1. gosubstack' = gosubstack /\ repeatstack' = repeatstack /\ InputOK'
      BY <1>0, <1>2 DEF Next1, InputOK, input
    <3>2. program' = program => GosubOK'
      BY <1>0, <3>1, GosubStays
    <3>3. program' = program => RepeatOK'
      BY <1>0, <3>1, RepeatStays
    <3> QED BY <3>1, <3>2, <3>3
  <2>3. CASE forstack = <<>> \/ Top(forstack).id # statement.var
    <3>1. ControlOK' /\ program' = program /\ UNCHANGED <<forstack, value>>
      BY <1>0, <1>2, <2>3, ThenKeepsControl DEF Next1, NoError
    <3> QED BY <1>0, <2>2, <3>1, ForStays DEF Inv, StacksOK, ValuesOK
  <2>4. CASE ~(forstack = <<>> \/ Top(forstack).id # statement.var)
    <3>1. /\ Top(forstack) \in Frame
      BY <1>0, <2>4, Popped DEF ForOK
    <3>2. Top(forstack).step \in Int /\ value[statement.var] \in Int
      BY <1>0, <2>1, <3>1, NumbersAssumption DEF Frame, Number, ValuesOK
    <3>3. PICK n \in Number :
            /\ value' = [value EXCEPT ![statement.var] = n]
            /\ IF Past(n, Top(forstack).toval, Top(forstack).step)
               THEN Then(NEXTLINEOFFSET, NoError) /\ forstack' = Pop(forstack)
               ELSE Then(Top(forstack).nextoffset, NoError) /\ UNCHANGED forstack
      BY <1>2, <2>4, <3>2, WrapIsNumber DEF Next1
    <3>4. ValuesOK'
      BY <1>0, <2>1, <3>3 DEF ValuesOK
    <3>5. CASE Past(n, Top(forstack).toval, Top(forstack).step)
      <4>1. ControlOK' /\ program' = program /\ forstack' = Pop(forstack)
        BY <1>0, <3>3, <3>5, ThenKeepsControl
      <4>2. ForOK'
        BY <1>0, <2>4, <4>1, ForPop
      <4> QED BY <2>2, <3>4, <4>1, <4>2 DEF Inv, StacksOK
    <3>6. CASE ~Past(n, Top(forstack).toval, Top(forstack).step)
      <4>1. Top(forstack).nextoffset \in Offset
        BY <3>1 DEF Frame
      <4>2. ControlOK' /\ program' = program /\ UNCHANGED forstack
        BY <1>0, <3>3, <3>6, <4>1, ThenKeepsControl
      <4> QED BY <1>0, <2>2, <3>4, <4>2, ForStays DEF Inv, StacksOK
    <3> QED BY <3>5, <3>6
  <2> QED BY <2>3, <2>4
<1> QED BY <1>1, <1>2

\* At a DOLINE no other statement of mainloop is enabled.
LEMMA OnlyDoline ==
  ASSUME At("doline"), Next, outcome' = "running"
  PROVE  Doline
<1>1. outcome = "running" /\ curoffset \in Lines /\ statement.op = "doline"
  BY DEF At
<1>2. ~Setup /\ ~Stop
  BY <1>1 DEF Setup, Stop
<1>3. ASSUME AtEndOfText PROVE Doline
  BY <1>1, <1>3 DEF AtEndOfText, Lines, EndOfText
<1>4. \A op : At(op) => op = "doline"
  BY <1>1 DEF At
<1> QED
  BY <1>2, <1>3, <1>4 DEF Next, mainloop, Other, Let, Inplen, Err, OnError, If,
     Goto, End, InputNoMemory, InputKey, InputReturn, Gosub, Return, Abort,
     Repeat, Until, NoVariable, For, Next1

LEMMA DolineStep ==
  ASSUME Inv, Doline, outcome' = "running"
  PROVE  /\ UNCHANGED stacks
         /\ \/ UNCHANGED onerroroffset /\ curoffset' = curoffset + 1
            \/ curoffset' = onerroroffset /\ lasterrorflag' # NoError
         /\ erroroffset' \in {erroroffset, curoffset}
<1>0. /\ ControlOK /\ Len(program) \in Nat \ {0} /\ Lines \subseteq Offset
      /\ curoffset \in Lines /\ outcome = "running"
  BY ProgramShape DEF Inv, Doline, At
<1> DEFINE Quiet(r) == r.at = curoffset /\ r.errat = erroroffset
                       /\ r.handler = onerroroffset
<1>1. PICK r, e : Turn(r, NEXTLINEOFFSET, e) /\ Quiet(r)
  <2>1. Quiet(Registers)
    BY DEF Registers
  <2> DEFINE inner == statement.inner
             r2 == [Registers EXCEPT
               !.last = IF inner.op = "err" /\ inner.which = 0 THEN NoError ELSE @]
  <2>2. Quiet(r2)
    BY DEF Registers
  <2>3. \/ \E e : Turn(Registers, NEXTLINEOFFSET, e)
        \/ \E e : Turn(r2, NEXTLINEOFFSET, e)
    BY DEF Doline, DolineFails, DolineRuns, Then
  <2> HIDE DEF r2, Quiet
  <2> QED BY <2>1, <2>2, <2>3
<1>2. CASE e = NoError
  <2>1. Proceeds(r.at, NEXTLINEOFFSET) /\ erroroffset' = r.errat
        /\ onerroroffset' = r.handler
    BY <1>1, <1>2 DEF Turn
  <2>2. curoffset' = getnextline(curoffset)
    BY <1>1, <2>1, Marks DEF Proceeds, Goes
  <2>3. getnextline(curoffset) = curoffset + 1
    BY <1>0 DEF getnextline, Lines
  <2> QED BY <1>1, <2>1, <2>2, <2>3 DEF Doline
<1>3. CASE e # NoError /\ Traps(r.handler, e)
  <2>1. Proceeds(r.at, r.handler) /\ erroroffset' = r.at /\ lasterrorflag' = e
    BY <1>1, <1>3 DEF Turn
  <2>2. r.handler \in Offset
    BY <1>0, <1>1, <1>3 DEF Traps, ControlOK
  <2>3. curoffset' = r.handler
    BY <2>1, <2>2, Marks DEF Proceeds, Goes
  <2> QED BY <1>1, <1>3, <2>1, <2>3 DEF Doline
<1>4. CASE e # NoError /\ ~Traps(r.handler, e)
  BY <1>1, <1>4 DEF Turn, Goes
<1> QED BY <1>2, <1>3, <1>4

-----------------------------------------------------------------------------
(* The theorems *)

LEMMA InitialData ==
  /\ [v \in Vars |-> 0] \in [Vars -> Number]
  /\ <<>> \in Seq(Chars) /\ InputMax \in Nat
<1>1. 0 \in Number
  BY NumbersAssumption DEF Number
<1>2. InputMax \in Nat
  BY InputAssumption
<1> QED BY <1>1, <1>2

LEMMA InitInv == Init => Inv
<1> SUFFICES ASSUME Init PROVE Inv
  OBVIOUS
<1>1. Len(program) \in Nat \ {0}
  BY ProgramsAssumption DEF Init
<1>2. ControlOK
  BY <1>1 DEF Init, ControlOK, Offset, EndOfText
<1>3. StacksOK
  BY StacksAssumption DEF Init, StacksOK, GosubOK, RepeatOK, ForOK
<1>4. ValuesOK /\ InputOK
  BY InitialData DEF Init, ValuesOK, InputOK
<1> QED BY <1>2, <1>3, <1>4 DEF Inv

LEMMA NextInv == Inv /\ [Next]_vars => Inv'
<1> SUFFICES ASSUME Inv, [Next]_vars PROVE Inv'
  OBVIOUS
<1>0. ControlOK /\ StacksOK /\ ValuesOK /\ InputOK /\ Len(program) \in Nat \ {0}
  BY ProgramShape DEF Inv
<1>1. CASE mainloop
  BY <1>1, PlainSteps, DolineSteps, DataSteps, JumpSteps, LoopSteps DEF mainloop
<1>2. CASE Setup
  <2>1. ControlOK'
    BY <1>0, <1>2 DEF Setup, ControlOK, Offset, EndOfText
  <2>2. StacksOK'
    BY <1>2, Cleared DEF Setup
  <2>3. ValuesOK' /\ InputOK'
    BY <1>2, InitialData DEF Setup, ValuesOK, InputOK
  <2> QED BY <2>1, <2>2, <2>3 DEF Inv
<1>3. CASE Stop
  <2>1. ControlOK' /\ program' = program
    BY <1>0, <1>3 DEF Stop, ControlOK, registers, Offset, EndOfText, Lines
  <2>2. StacksOK'
    BY <1>0, <1>3, <2>1, StacksStay DEF Stop
  <2>3. ValuesOK' /\ InputOK'
    BY <1>0, <1>3 DEF Stop, ValuesOK, InputOK
  <2> QED BY <2>1, <2>2, <2>3 DEF Inv
<1>4. CASE UNCHANGED vars
  BY <1>0, <1>4, StacksStay DEF Inv, vars, registers, input, ControlOK, ValuesOK,
     InputOK, Offset, EndOfText, Lines
<1> QED BY <1>1, <1>2, <1>3, <1>4 DEF Next

\* Offsets, stacks and registers keep their shape in every run of every
\* program, however deep the stacks are (setup, mainloop).
THEOREM SpecTypeOK == Spec => []TypeOK
<1>1. Spec => []Inv
  BY InitInv, NextInv, PTL DEF Spec
<1> QED BY <1>1, InvImplies, PTL

\* Every frame leads to the line after a statement of its kind.
THEOREM SpecFrames == Spec => []FramesFollowTheirStatements
<1>1. Spec => []Inv
  BY InitInv, NextInv, PTL DEF Spec
<1> QED BY <1>1, InvImplies, PTL

\* mainloop never reaches "line not found from".
THEOREM SpecNoStrayLine == Spec => []NoStrayLine
<1>1. Spec => []Inv
  BY InitInv, NextInv, PTL DEF Spec
<1> QED BY <1>1, InvImplies, PTL

\* A line run by DOLINE cannot push, pop or clear a stack, set or use up an
\* ONERROR label, or send the program elsewhere than to the next line.
THEOREM SpecDoline == Spec => DolineKeepsControl
<1>1. Spec => []Inv
  BY InitInv, NextInv, PTL DEF Spec
<1>2. Inv /\ [Next]_vars =>
        [outcome = "running" /\ curoffset \in Lines /\ statement.op = "doline"
           /\ outcome' = "running" =>
         /\ UNCHANGED stacks
         /\ \/ UNCHANGED onerroroffset /\ curoffset' = curoffset + 1
            \/ curoffset' = onerroroffset /\ lasterrorflag' # NoError
         /\ erroroffset' \in {erroroffset, curoffset}]_vars
  BY OnlyDoline, DolineStep DEF At
<1> QED BY <1>1, <1>2, PTL DEF Spec, DolineKeepsControl

-----------------------------------------------------------------------------
(* INPUT: what the buffer holds is what was typed *)

\* What holds at the start and is kept by each of n turns holds at the end.
LEMMA Turns ==
  ASSUME NEW n \in Nat, NEW T, 0 \in T, \A i \in 1 .. n : i - 1 \in T => i \in T
  PROVE  \A i \in 0 .. n : i \in T
<1> DEFINE S == {i \in 0 .. n : i \notin T}
           R == OpToRel(<, Nat)
<1> SUFFICES ASSUME S # {} PROVE FALSE
  OBVIOUS
<1>0. S \subseteq Nat
  OBVIOUS
<1>1. IsWellFoundedOn(R, Nat)
  BY NatLessThanWellFounded
<1>2. \A x, y \in Nat : y < x => <<y, x>> \in R
  BY DEF OpToRel
<1> HIDE DEF R
<1>3. \E x \in S : \A y \in S : ~(<<y, x>> \in R)
  <2> HIDE DEF S
  <2> QED BY ONLY S # {}, <1>0, <1>1, WFMin
<1>4. PICK m \in S : \A y \in S : ~(<<y, m>> \in R)
  BY <1>3
<1>5. m \in 1 .. n /\ m - 1 \in 0 .. n /\ m - 1 < m /\ m \notin T
  BY <1>4
<1>6. ~(m - 1 \in S)
  <2>1. m \in Nat /\ m - 1 \in Nat
    BY <1>5
  <2> HIDE DEF S
  <2> QED BY <1>2, <1>4, <1>5, <2>1
<1>7. m - 1 \in T
  BY <1>5, <1>6
<1> QED BY <1>5, <1>7

\* A line editor's text after n of the keys.
Edits(g, keys, n, max) ==
  g = [i \in 0 .. n |-> IF i = 0 THEN <<>> ELSE Edited(g[i - 1], keys[i], max)]

LEMMA EditsOne ==
  ASSUME NEW keys, NEW n \in Nat, NEW max, NEW g, Edits(g, keys, n, max)
  PROVE  LET h == [i \in 0 .. n + 1 |->
                     IF i = n + 1 THEN Edited(g[n], keys[n + 1], max) ELSE g[i]]
         IN  Edits(h, keys, n + 1, max)
<1> DEFINE h == [i \in 0 .. n + 1 |->
                   IF i = n + 1 THEN Edited(g[n], keys[n + 1], max) ELSE g[i]]
<1>1. \A i \in 0 .. n : g[i] = IF i = 0 THEN <<>> ELSE Edited(g[i - 1], keys[i], max)
  BY DEF Edits
<1>2. ASSUME NEW i \in 0 .. n + 1
      PROVE  h[i] = IF i = 0 THEN <<>> ELSE Edited(h[i - 1], keys[i], max)
  <2>1. CASE i = 0
    BY <1>1, <2>1
  <2>2. CASE i \in 1 .. n
    <3>1. i \in 0 .. n /\ i - 1 \in 0 .. n + 1 /\ i - 1 # n + 1 /\ i # n + 1 /\ i # 0
      BY <2>2
    <3>2. h[i] = g[i] /\ h[i - 1] = g[i - 1]
      BY <3>1
    <3> HIDE DEF h
    <3> QED BY <1>1, <3>1, <3>2
  <2>3. CASE i = n + 1
    <3>1. n \in 0 .. n + 1 /\ n # n + 1 /\ i - 1 = n /\ i # 0
      BY <2>3
    <3>2. h[i] = Edited(g[n], keys[i], max) /\ h[i - 1] = g[n]
      BY <2>3, <3>1
    <3> HIDE DEF h
    <3> QED BY <3>1, <3>2
  <2>4. i = 0 \/ i \in 1 .. n \/ i = n + 1
    OBVIOUS
  <2> QED BY <2>1, <2>2, <2>3, <2>4
<1>3. h = [i \in 0 .. n + 1 |->
             IF i = 0 THEN <<>> ELSE Edited(h[i - 1], keys[i], max)]
  BY <1>2
<1> QED BY <1>3 DEF Edits

LEMMA EditsExist ==
  ASSUME NEW keys, NEW n \in Nat, NEW max
  PROVE  \E g : Edits(g, keys, n, max)
<1> DEFINE T == {i \in 0 .. n : \E g : Edits(g, keys, i, max)}
<1>1. 0 \in T
  <2> DEFINE g == [i \in 0 .. 0 |-> <<>>]
  <2>1. g = [i \in 0 .. 0 |-> IF i = 0 THEN <<>> ELSE Edited(g[i - 1], keys[i], max)]
    OBVIOUS
  <2>2. Edits(g, keys, 0, max)
    BY ONLY <2>1 DEF Edits
  <2>3. 0 \in 0 .. n
    OBVIOUS
  <2> HIDE DEF g
  <2> QED BY <2>2, <2>3
<1>2. ASSUME NEW i \in 1 .. n, i - 1 \in T PROVE i \in T
  <2>1. PICK g : Edits(g, keys, i - 1, max)
    BY <1>2
  <2>2. i - 1 \in Nat /\ (i - 1) + 1 = i
    OBVIOUS
  <2>3. \E h : Edits(h, keys, (i - 1) + 1, max)
    BY ONLY <2>1, <2>2, EditsOne
  <2> QED BY <2>2, <2>3
<1>3. n \in T
  <2> HIDE DEF T
  <2> QED BY <1>1, <1>2, Turns
<1> QED BY <1>3

\* The first turns of an editor do not depend on the keys after them.
LEMMA EditsAgree ==
  ASSUME NEW keys, NEW more, NEW n \in Nat, NEW m \in Nat, n <= m, NEW max,
         \A i \in 1 .. n : more[i] = keys[i],
         NEW g, Edits(g, keys, n, max), NEW h, Edits(h, more, m, max)
  PROVE  h[n] = g[n]
<1> DEFINE T == {i \in 0 .. n : h[i] = g[i]}
<1>1. /\ \A i \in 0 .. n : g[i] = IF i = 0 THEN <<>> ELSE Edited(g[i - 1], keys[i], max)
      /\ \A i \in 0 .. m : h[i] = IF i = 0 THEN <<>> ELSE Edited(h[i - 1], more[i], max)
  BY DEF Edits
<1>2. 0 \in T
  BY <1>1
<1>3. ASSUME NEW i \in 1 .. n, i - 1 \in T PROVE i \in T
  <2>1. i \in 0 .. n /\ i \in 0 .. m /\ i # 0 /\ h[i - 1] = g[i - 1]
    BY <1>3
  <2>2. more[i] = keys[i]
    OBVIOUS
  <2>3. h[i] = g[i]
    BY ONLY <1>1, <2>1, <2>2
  <2> QED BY <2>1, <2>3
<1>4. n \in T
  <2> HIDE DEF T
  <2> QED BY <1>2, <1>3, Turns
<1> QED BY <1>4

\* AsTyped runs the editor over all of the keys, one after the other.
LEMMA AsTypedIs ==
  ASSUME NEW keys, Len(keys) \in Nat
  PROVE  \E g : Edits(g, keys, Len(keys), curinputmax) /\ AsTyped(keys) = g[Len(keys)]
<1> DEFINE text == CHOOSE g : Edits(g, keys, Len(keys), curinputmax)
<1>1. Edits(text, keys, Len(keys), curinputmax)
  BY EditsExist
<1>2. AsTyped(keys) = text[Len(keys)]
  BY DEF AsTyped, Edits
<1> HIDE DEF text
<1> QED BY <1>1, <1>2

LEMMA NothingTyped == AsTyped(<<>>) = <<>>
<1> SUFFICES ASSUME NEW keys, keys = <<>> PROVE AsTyped(keys) = <<>>
  OBVIOUS
<1>1. Len(keys) = 0 /\ Len(keys) \in Nat
  OBVIOUS
<1>2. PICK g : Edits(g, keys, Len(keys), curinputmax) /\ AsTyped(keys) = g[Len(keys)]
  BY ONLY <1>1, AsTypedIs
<1>3. g = [i \in 0 .. 0 |-> IF i = 0 THEN <<>> ELSE Edited(g[i - 1], keys[i], curinputmax)]
  BY <1>1, <1>2 DEF Edits
<1>4. g[0] = <<>>
  BY <1>3
<1> QED BY <1>1, <1>2, <1>4

LEMMA OneKeyMore ==
  ASSUME NEW S, NEW keys \in Seq(S), NEW key \in S
  PROVE  AsTyped(Append(keys, key)) = Edited(AsTyped(keys), key, curinputmax)
<1> DEFINE more == Append(keys, key)
           n == Len(keys)
<1>1. /\ n \in Nat /\ Len(more) = n + 1 /\ more[n + 1] = key
      /\ \A i \in 1 .. n : more[i] = keys[i]
  OBVIOUS
<1>2. PICK g : Edits(g, keys, n, curinputmax) /\ AsTyped(keys) = g[n]
  BY <1>1, AsTypedIs
<1> HIDE DEF more, n
<1>3. PICK h : Edits(h, more, n + 1, curinputmax) /\ AsTyped(more) = h[n + 1]
  <2>1. Len(more) \in Nat
    BY <1>1
  <2>2. \E h : Edits(h, more, Len(more), curinputmax) /\ AsTyped(more) = h[Len(more)]
    BY ONLY <2>1, AsTypedIs
  <2> QED BY <1>1, <2>2
<1>4. h[n] = g[n]
  <2>1. n + 1 \in Nat /\ n <= n + 1
    BY <1>1
  <2> QED BY ONLY <1>1, <1>2, <1>3, <2>1, EditsAgree
<1>5. h[n + 1] = Edited(h[n], key, curinputmax)
  <2>1. n + 1 \in 0 .. n + 1 /\ n + 1 # 0 /\ (n + 1) - 1 = n
    BY <1>1
  <2>2. \A i \in 0 .. n + 1 :
          h[i] = IF i = 0 THEN <<>> ELSE Edited(h[i - 1], more[i], curinputmax)
    BY <1>3 DEF Edits
  <2> QED BY <1>1, <2>1, <2>2
<1> QED BY <1>2, <1>3, <1>4, <1>5 DEF more

\* Between the keys of an INPUT the buffer is what an editor made of them;
\* everywhere else of a run there is no buffer and nothing is typed.
TypingOK ==
  /\ typed \in Seq(Chars \union {"BS"})
  /\ outcome = "running" /\ curinputptr = NoBuffer => typed = <<>>
  /\ InputIsAsTyped

LEMMA NoInput ==
  ASSUME TypingOK, NEW op, At(op), op # "input"
  PROVE  curinputptr = NoBuffer /\ typed = <<>>
BY DEF TypingOK, InputIsAsTyped, At

\* A text of characters is not the mark of a missing buffer.
LEMMA TextIsNoMark ==
  ASSUME NEW text \in Seq(Chars) PROVE text # NoBuffer
<1> SUFFICES ASSUME text = NoBuffer PROVE FALSE
  OBVIOUS
<1>1. Len(NoBuffer) = 1 /\ NoBuffer[1] = "NULL"
  BY DEF NoBuffer
<1>2. text[1] \in Chars
  <2>1. 1 \in 1 .. Len(text)
    BY <1>1
  <2> QED BY <2>1, ElementOfSeq
<1> QED BY <1>1, <1>2, InputAssumption

LEMMA EditedIsText ==
  ASSUME NEW text \in Seq(Chars), NEW key, NEW max
  PROVE  Edited(text, key, max) \in Seq(Chars)
<1>1. CASE key = "BS"
  BY <1>1, EmptySeq DEF Edited
<1>2. CASE key # "BS"
  BY <1>2 DEF Edited
<1> QED BY <1>1, <1>2

\* The text of the INPUT at curoffset is that of the keys typed so far.
LEMMA BufferIsAsTyped ==
  ASSUME TypingOK, At("input")
  PROVE  Buffer = AsTyped(typed)
BY NothingTyped DEF TypingOK, InputIsAsTyped, Buffer, At

LEMMA KeyKeepsTyping ==
  ASSUME Inv, TypingOK, InputKey
  PROVE  TypingOK'
<1>0. /\ At("input") /\ curoffset \in Offset /\ curoffset \in Lines
      /\ Buffer = AsTyped(typed) /\ Buffer \in Seq(Chars)
  <2>1. At("input")
    BY DEF InputKey
  <2>2. Buffer \in Seq(Chars)
    BY DEF Inv, InputOK, Buffer
  <2>3. curoffset \in Offset
    BY DEF Inv, ControlOK
  <2> QED BY <2>1, <2>2, <2>3, BufferIsAsTyped DEF At
<1>1. PICK key \in Chars \union {"BS", "no key"} :
        /\ curinputptr' = Edited(Buffer, key, curinputmax)
        /\ typed' = IF key = "no key" THEN typed ELSE Append(typed, key)
  BY DEF InputKey
<1>2. /\ outcome' = "running" /\ curoffset' = curoffset
      /\ program' = program /\ curinputmax' = curinputmax
  <2>1. Proceeds(curoffset, curoffset) /\ program' = program /\ curinputmax' = curinputmax
    BY DEF InputKey, Then, Turn, Registers
  <2> QED BY <1>0, <2>1, Marks DEF Proceeds, Goes
<1>3. curinputptr' \in Seq(Chars) /\ curinputptr' # NoBuffer
  BY <1>0, <1>1, EditedIsText, TextIsNoMark
<1>4. typed' \in Seq(Chars \union {"BS"}) /\ curinputptr' = AsTyped(typed')
  <2>1. typed \in Seq(Chars \union {"BS"})
    BY DEF TypingOK
  <2>2. CASE key = "no key"
    <3>1. key \notin Chars /\ key # "BS"
      BY <2>2, InputAssumption
    <3> QED BY <1>0, <1>1, <2>1, <2>2, <3>1 DEF Edited
  <2>3. CASE key # "no key"
    <3>1. key \in Chars \union {"BS"} /\ typed' = Append(typed, key)
      BY <1>1, <2>3
    <3>2. AsTyped(typed') = Edited(Buffer, key, curinputmax)
      BY <1>0, <2>1, <3>1, OneKeyMore
    <3>3. key \in Chars \union {"BS"}
      BY <2>3, <3>1
    <3>4. typed' \in Seq(Chars \union {"BS"})
      BY <2>1, <3>1, <3>3, Pushed
    <3> QED BY <1>1, <3>2, <3>4
  <2> QED BY <2>2, <2>3
<1>5. AsTyped(typed)' = AsTyped(typed')
  BY <1>2 DEF AsTyped
<1> QED BY <1>0, <1>2, <1>3, <1>4, <1>5 DEF TypingOK, InputIsAsTyped, At, statement, Lines

\* Every other statement leaves no buffer behind and nothing typed.
LEMMA OthersLeaveNoInput ==
  ASSUME TypingOK, mainloop
  PROVE  InputKey \/ (curinputptr' = NoBuffer /\ typed' = <<>>)
<1>1. ASSUME InputReturn PROVE curinputptr' = NoBuffer /\ typed' = <<>>
  BY <1>1 DEF InputReturn
<1>2. ASSUME InputNoMemory PROVE curinputptr' = NoBuffer /\ typed' = <<>>
  BY <1>2 DEF InputNoMemory, input, TypingOK, At
<1>3. ASSUME Inplen PROVE curinputptr' = NoBuffer /\ typed' = <<>>
  BY <1>3, NoInput DEF Inplen
<1>4. ASSUME AtEndOfText PROVE curinputptr' = NoBuffer /\ typed' = <<>>
  BY <1>4 DEF AtEndOfText, input, TypingOK, InputIsAsTyped, Lines, EndOfText
<1>5. ASSUME NEW op, At(op), op # "input", UNCHANGED <<curinputptr, typed>>
      PROVE  curinputptr' = NoBuffer /\ typed' = <<>>
  BY <1>5, NoInput
<1>6. ASSUME Other \/ Let \/ Err \/ OnError \/ If \/ Goto \/ End \/ Doline \/ Gosub
               \/ Return \/ Abort \/ Repeat \/ Until \/ NoVariable \/ For \/ Next1
      PROVE  UNCHANGED <<curinputptr, typed>> /\ \E op : At(op) /\ op # "input"
  <2>1. UNCHANGED <<curinputptr, typed>>
    BY <1>6 DEF Other, Let, Err, OnError, If, Goto, End, Doline, Gosub, Return,
       Abort, Repeat, Until, NoVariable, For, Next1, input
  <2>2. \/ At("other") \/ At("let") \/ At("err") \/ At("onerror") \/ At("if")
        \/ At("goto") \/ At("end") \/ At("doline") \/ At("gosub") \/ At("return")
        \/ At("inplen") \/ At("abort") \/ At("repeat") \/ At("until") \/ At("for") \/ At("next")
    BY <1>6 DEF Other, Let, Err, OnError, If, Goto, End, Doline, Gosub, Return,
       Abort, Repeat, Until, NoVariable, For, Next1
  <2> QED BY <2>1, <2>2
<1> QED BY <1>1, <1>2, <1>3, <1>4, <1>5, <1>6 DEF mainloop

LEMMA NextTyping == Inv /\ TypingOK /\ [Next]_vars => TypingOK'
<1> SUFFICES ASSUME Inv, TypingOK, [Next]_vars PROVE TypingOK'
  OBVIOUS
<1>1. ASSUME curinputptr' = NoBuffer, typed' = <<>> PROVE TypingOK'
  BY <1>1 DEF TypingOK, InputIsAsTyped
<1>2. CASE mainloop
  BY <1>1, <1>2, KeyKeepsTyping, OthersLeaveNoInput
<1>3. CASE Setup
  BY <1>1, <1>3 DEF Setup
<1>4. CASE Stop
  BY <1>4 DEF Stop, TypingOK, InputIsAsTyped
<1>5. CASE UNCHANGED vars
  <2>1. AsTyped(typed)' = AsTyped(typed)
    BY <1>5 DEF vars, input, AsTyped
  <2> QED BY <1>5, <2>1 DEF vars, registers, input, TypingOK, InputIsAsTyped,
             statement, Lines
<1> QED BY <1>2, <1>3, <1>4, <1>5 DEF Next

LEMMA SpecTyping == Spec => [](Inv /\ TypingOK)
<1>1. Init => TypingOK
  BY DEF Init, TypingOK, InputIsAsTyped
<1> QED BY <1>1, InitInv, NextInv, NextTyping, PTL DEF Spec

\* What INPUT shows of the keys is what was typed since it began, and its
\* buffer does not outlive it (line, doinput, num_inplen).
THEOREM SpecInput == Spec => []InputIsAsTyped
BY SpecTyping, PTL DEF TypingOK

\* INPUT stores what was typed, and nothing else writes the variable.
LEMMA NextStores ==
  Inv /\ TypingOK /\ [Next]_vars =>
    [svalue' # svalue /\ svalue' # <<>> => svalue' = AsTyped(typed)]_vars
<1> SUFFICES ASSUME TypingOK, Next, svalue' # svalue, svalue' # <<>>
             PROVE  svalue' = AsTyped(typed)
  OBVIOUS
<1>1. InputReturn
  BY DEF Next, mainloop, Setup, Stop, AtEndOfText, Other, Let, Inplen, Err, OnError,
     If, Goto, End, Doline, InputNoMemory, InputKey, Gosub, Return, Abort, Repeat,
     Until, NoVariable, For, Next1, input
<1>2. At("input") /\ svalue' = Buffer
  BY <1>1 DEF InputReturn
<1> QED BY <1>2, BufferIsAsTyped

\* What INPUT assigns when the line ends is what was typed since it began, in
\* every run of every program (doinput).
THEOREM SpecStores == Spec => InputStoresTheLine
BY SpecTyping, NextStores, PTL DEF Spec, InputStoresTheLine

-----------------------------------------------------------------------------
(* Blocks: what the lines around a line are, from one line to the next *)

\* The lines around line n when f pairs the ends of the blocks.
Around(p, f, op, n) == {o \in Openers(p) : p[o].op = op /\ o < n /\ n <= f[o]}

Pairs(p, f) ==
  Len(p) \in Nat /\ f \in [Openers(p) -> Closers(p)] /\ Brackets(p, f)

LEMMA EnclosingIsAround ==
  ASSUME NEW p, Len(p) \in Nat, Structured(p)
  PROVE  \E f : Pairs(p, f) /\ \A op, n : Enclosing(p, op, n) = Around(p, f, op, n)
<1> DEFINE f == CHOOSE g \in [Openers(p) -> Closers(p)] : Brackets(p, g)
<1>1. f \in [Openers(p) -> Closers(p)] /\ Brackets(p, f)
  BY DEF Structured
<1>2. \A op, n : Enclosing(p, op, n) = Around(p, f, op, n)
  BY DEF Enclosing, Around
<1> HIDE DEF f
<1> QED BY <1>1, <1>2 DEF Pairs

\* Numbers and kinds of the lines a pairing speaks of.
LEMMA PairsAre ==
  ASSUME NEW p, NEW f, Pairs(p, f)
  PROVE  /\ \A o \in Openers(p) : /\ o \in 1 .. Len(p) /\ f[o] \in 1 .. Len(p) /\ o < f[o]
                                  /\ o \in Int /\ f[o] \in Int
                                  /\ f[o] \in Closers(p)
                                  /\ p[o].op = "repeat" => p[f[o]].op = "until"
                                  /\ p[o].op = "for" =>
                                       p[f[o]].op = "next" /\ p[f[o]].var = p[o].var
                                  /\ p[o].op \in {"for", "repeat"}
         /\ \A o1, o2 \in Openers(p) : o1 < o2 /\ o2 < f[o1] => f[o2] < f[o1]
         /\ \A n \in 1 .. Len(p) : p[n].op \notin Opens => n \notin Openers(p)
         /\ Openers(p) \intersect Closers(p) = {}
<1>1. \A o \in Openers(p) : f[o] \in Closers(p)
  BY DEF Pairs
<1>2. \A o \in Openers(p) : o \in 1 .. Len(p) /\ p[o].op \in {"for", "repeat"}
  BY DEF Openers, Opens
<1>3. \A c \in Closers(p) : c \in 1 .. Len(p) /\ p[c].op \in {"next", "until"}
  BY DEF Closers, Closes
<1>4. Len(p) \in Nat
  BY DEF Pairs
<1>5. /\ \A o \in Openers(p) :
           /\ o < f[o]
           /\ IF p[o].op = "repeat" THEN p[f[o]].op = "until"
              ELSE p[f[o]].op = "next" /\ p[f[o]].var = p[o].var
      /\ \A o1, o2 \in Openers(p) : o1 < o2 /\ o2 < f[o1] => f[o2] < f[o1]
  BY DEF Pairs, Brackets
<1>6. \A n \in 1 .. Len(p) : p[n].op \notin Opens => n \notin Openers(p)
  BY DEF Openers
<1>7. Openers(p) \intersect Closers(p) = {}
  BY <1>2, <1>3
<1>8. ASSUME NEW o \in Openers(p)
      PROVE  /\ o \in 1 .. Len(p) /\ f[o] \in 1 .. Len(p) /\ o < f[o]
             /\ o \in Int /\ f[o] \in Int
             /\ f[o] \in Closers(p)
             /\ p[o].op = "repeat" => p[f[o]].op = "until"
             /\ p[o].op = "for" => p[f[o]].op = "next" /\ p[f[o]].var = p[o].var
             /\ p[o].op \in {"for", "repeat"}
  BY <1>1, <1>2, <1>3, <1>4, <1>5
<1> QED BY <1>5, <1>6, <1>7, <1>8

\* No block is around the first line or the end of the text.
LEMMA AroundEnds ==
  ASSUME NEW p, NEW f, Pairs(p, f), NEW op
  PROVE  Around(p, f, op, 1) = {} /\ Around(p, f, op, Len(p) + 1) = {}
<1>1. Len(p) \in Nat
  BY DEF Pairs
<1>2. ASSUME NEW o \in Openers(p) PROVE ~(o < 1) /\ ~(Len(p) + 1 <= f[o])
  BY <1>1, PairsAre
<1> QED BY <1>2 DEF Around

\* A line that opens and closes nothing has the same around it as the next.
LEMMA AroundPlain ==
  ASSUME NEW p, NEW f, Pairs(p, f), NEW op,
         NEW n \in 1 .. Len(p), p[n].op \notin Opens, p[n].op \notin Closes
  PROVE  Around(p, f, op, n + 1) = Around(p, f, op, n)
<1>1. n \notin Openers(p) /\ n \notin Closers(p) /\ n \in Int
  BY DEF Openers, Closers
<1>2. ASSUME NEW o \in Openers(p)
      PROVE  (o < n + 1 /\ n + 1 <= f[o]) <=> (o < n /\ n <= f[o])
  <2>1. o \in Int /\ f[o] \in Int /\ o # n /\ f[o] # n
    BY <1>1, PairsAre
  <2> QED BY <1>1, <2>1
<1> QED BY <1>2 DEF Around

\* Past the line that opens a block, that block is around as well.
LEMMA AroundOpened ==
  ASSUME NEW p, NEW f, Pairs(p, f), NEW op, NEW n \in Openers(p)
  PROVE  /\ Around(p, f, op, n + 1)
              = Around(p, f, op, n) \union (IF p[n].op = op THEN {n} ELSE {})
         /\ \A o \in Around(p, f, op, n) : o < n
<1>1. n \in Int /\ n \notin Closers(p) /\ f[n] \in Int /\ n < f[n]
  BY PairsAre
<1>2. ASSUME NEW o \in Openers(p)
      PROVE  (o < n + 1 /\ n + 1 <= f[o]) <=> ((o < n /\ n <= f[o]) \/ o = n)
  <2>1. o \in Int /\ f[o] \in Int /\ f[o] # n
    BY <1>1, PairsAre
  <2> QED BY <1>1, <2>1
<1>3. \A o \in Openers(p) :
        o \in Around(p, f, op, n + 1)
          <=> o \in Around(p, f, op, n) \/ (p[n].op = op /\ o = n)
  BY <1>2 DEF Around
<1> QED BY <1>3 DEF Around

\* A line n closes the innermost block o around it: past n that block is not
\* around any more, and at the start of its body the same blocks are around
\* as at n.
LEMMA AroundClosed ==
  ASSUME NEW p, NEW f, Pairs(p, f), NEW op, NEW o \in Openers(p)
  PROVE  /\ p[o].op = op => o \in Around(p, f, op, f[o])
         /\ \A x \in Around(p, f, op, f[o]) : x <= o
         /\ Around(p, f, op, f[o] + 1) = Around(p, f, op, f[o]) \ {o}
         /\ Around(p, f, op, o + 1) = Around(p, f, op, f[o])
<1>1. o \in Int /\ f[o] \in Int /\ o < f[o] /\ f[o] \notin Openers(p)
  BY PairsAre
<1>2. ASSUME NEW x \in Openers(p)
      PROVE  /\ (x < f[o] /\ f[o] <= f[x]) => x <= o
             /\ (x < f[o] + 1 /\ f[o] + 1 <= f[x]) <=> (x < f[o] /\ f[o] <= f[x] /\ x # o)
             /\ (x < o + 1 /\ o + 1 <= f[x]) <=> (x < f[o] /\ f[o] <= f[x])
  <2>1. x \in Int /\ f[x] \in Int /\ x < f[x] /\ x # f[o] /\ f[x] # o
    BY <1>1, PairsAre
  <2>2. (o < x /\ x < f[o] => f[x] < f[o]) /\ (x < o /\ o < f[x] => f[o] < f[x])
    BY PairsAre
  <2> QED BY <1>1, <2>1, <2>2
<1>3. p[o].op = op => o \in Around(p, f, op, f[o])
  BY <1>1 DEF Around
<1> QED BY <1>2, <1>3 DEF Around

\* dofor's search finds the NEXT of its own block, and past that NEXT the
\* same blocks are around as at the FOR.
LEMMA AroundSkipped ==
  ASSUME NEW p, NEW f, Pairs(p, f), NEW op, NEW n \in Openers(p)
  PROVE  Around(p, f, op, f[n] + 1) = Around(p, f, op, n)
<1>1. n \in Int /\ f[n] \in Int /\ n < f[n] /\ f[n] \notin Openers(p)
      /\ n \notin Closers(p)
  BY PairsAre
<1>2. ASSUME NEW x \in Openers(p)
      PROVE  (x < f[n] + 1 /\ f[n] + 1 <= f[x]) <=> (x < n /\ n <= f[x])
  <2>1. x \in Int /\ f[x] \in Int /\ x < f[x] /\ x # f[n] /\ f[x] # n
    BY <1>1, PairsAre
  <2>2. (n < x /\ x < f[n] => f[x] < f[n]) /\ (x < n /\ n < f[x] => f[n] < f[x])
    BY PairsAre
  <2> QED BY <1>1, <2>1, <2>2
<1> QED BY <1>2 DEF Around

LEMMA FoundIsOwn ==
  ASSUME NEW f, Pairs(program, f), NEW n \in Lines, n = curoffset,
         program[n].op = "for", NEW m \in FirstNext(program[n].var)
  PROVE  n \in Openers(program) /\ m = f[n]
<1>0. Len(program) \in Nat /\ n \in Int
  BY DEF Pairs, Lines
<1>1. n \in Openers(program)
  BY DEF Openers, Opens, Lines
<1>2. /\ m \in Lines /\ m \in Int /\ m > n
      /\ program[m].op = "next" /\ program[m].var = program[n].var
      /\ \A k \in Lines : k > n /\ k < m =>
           ~(program[k].op = "next" /\ program[k].var = program[n].var)
  BY <1>0 DEF FirstNext, Lines
<1>3. /\ f[n] \in Lines /\ f[n] \in Int /\ n < f[n]
      /\ program[f[n]].op = "next" /\ program[f[n]].var = program[n].var
  BY <1>1, PairsAre DEF Lines
<1>4. m <= f[n]
  BY <1>2, <1>3
<1>5. PICK o \in Openers(program) : f[o] = m
  <2>1. m \in Closers(program)
    BY <1>2 DEF Closers, Closes, Lines
  <2> QED BY <2>1 DEF Pairs, Brackets
<1>6. /\ program[o].op = "for" /\ program[o].var = program[n].var
      /\ o \in Int /\ o < m
  BY <1>2, <1>5, PairsAre
<1>7. ASSUME m < f[n] PROVE FALSE
  <2>1. CASE o = n
    BY <1>5, <1>7, <2>1, <1>2
  <2>2. CASE n < o
    <3>1. o < f[n]
      BY <1>2, <1>3, <1>6, <1>7
    <3>2. program[n].var # program[o].var
      BY <1>1, <1>6, <2>2, <3>1 DEF Pairs, Brackets
    <3> QED BY <1>6, <3>2
  <2>3. CASE o < n
    <3>1. n < f[o]
      BY <1>2, <1>5
    <3>2. f[n] < f[o]
      BY <1>1, <2>3, <3>1, PairsAre
    <3> QED BY <1>2, <1>3, <1>5, <1>7, <3>2
  <2> QED BY <1>0, <1>6, <2>1, <2>2, <2>3
<1> QED BY <1>1, <1>2, <1>3, <1>4, <1>7

-----------------------------------------------------------------------------
(* Stacks of lines that ascend: one pushed, the innermost popped *)

LEMMA AscendsPushed ==
  ASSUME NEW N \in Nat, NEW s, NEW k, Len(s) = N, Len(k) = N + 1, NEW S, NEW n \in Int,
         \A i \in 1 .. N : k[i] = s[i] /\ s[i] \in Int, k[N + 1] = n,
         Ascends(s, S), \A x \in S : x < n
  PROVE  Ascends(k, S \union {n})
<1>1. {s[i] : i \in 1 .. N} = S /\ \A i, j \in 1 .. N : i < j => s[i] < s[j]
  BY DEF Ascends
<1>2. \A i \in 1 .. N + 1 : i \in 1 .. N \/ i = N + 1
  OBVIOUS
<1>3. {k[i] : i \in 1 .. N + 1} = S \union {n}
  <2>1. ASSUME NEW i \in 1 .. N + 1 PROVE k[i] \in S \union {n}
    BY <1>1, <1>2
  <2>2. ASSUME NEW x \in S \union {n} PROVE \E i \in 1 .. N + 1 : k[i] = x
    <3>1. CASE x = n
      BY <3>1
    <3>2. CASE x \in S
      <4>1. PICK i \in 1 .. N : s[i] = x
        BY <1>1, <3>2
      <4>2. i \in 1 .. N + 1 /\ k[i] = x
        BY <4>1
      <4> QED BY <4>2
    <3> QED BY <3>1, <3>2
  <2> QED BY <2>1, <2>2
<1>4. ASSUME NEW i \in 1 .. N + 1, NEW j \in 1 .. N + 1, i < j PROVE k[i] < k[j]
  <2>1. i \in 1 .. N
    BY <1>4
  <2>2. CASE j \in 1 .. N
    BY <1>1, <1>4, <2>1, <2>2
  <2>3. CASE j = N + 1
    <3>1. s[i] \in S /\ k[i] = s[i] /\ k[j] = n
      BY <1>1, <2>1, <2>3
    <3> QED BY <3>1
  <2> QED BY <1>2, <2>2, <2>3
<1> QED BY <1>3, <1>4 DEF Ascends

LEMMA AscendsTop ==
  ASSUME NEW N \in Nat, NEW s, Len(s) = N, NEW S, NEW m \in S,
         \A i \in 1 .. N : s[i] \in Int, m \in Int,
         Ascends(s, S), \A x \in S : x <= m
  PROVE  N \in 1 .. N /\ s[N] = m
<1>1. {s[i] : i \in 1 .. N} = S /\ \A i, j \in 1 .. N : i < j => s[i] < s[j]
  BY DEF Ascends
<1>2. PICK i \in 1 .. N : s[i] = m
  BY <1>1
<1>3. N \in 1 .. N /\ s[N] \in S /\ s[N] \in Int
  BY <1>1, <1>2
<1>4. i < N => m < s[N]
  BY <1>1, <1>2, <1>3
<1>5. s[N] <= m
  BY <1>3
<1> QED BY <1>2, <1>3, <1>4, <1>5

LEMMA AscendsPopped ==
  ASSUME NEW N \in Nat \ {0}, NEW s, NEW k, Len(s) = N, Len(k) = N - 1, NEW S,
         \A i \in 1 .. N : s[i] \in Int, \A i \in 1 .. N - 1 : k[i] = s[i],
         Ascends(s, S)
  PROVE  Ascends(k, S \ {s[N]})
<1>1. {s[i] : i \in 1 .. N} = S /\ \A i, j \in 1 .. N : i < j => s[i] < s[j]
  BY DEF Ascends
<1>2. \A i \in 1 .. N - 1 : i \in 1 .. N /\ i < N /\ N \in 1 .. N
  OBVIOUS
<1>3. \A i \in 1 .. N : i = N \/ i \in 1 .. N - 1
  OBVIOUS
<1>4. {k[i] : i \in 1 .. N - 1} = S \ {s[N]}
  <2>1. ASSUME NEW i \in 1 .. N - 1 PROVE k[i] \in S \ {s[N]}
    <3>1. s[i] \in S /\ s[i] < s[N] /\ s[i] \in Int /\ s[N] \in Int
      BY <1>1, <1>2
    <3> QED BY <3>1
  <2>2. ASSUME NEW x \in S \ {s[N]} PROVE \E i \in 1 .. N - 1 : k[i] = x
    <3>1. PICK i \in 1 .. N : s[i] = x
      BY <1>1
    <3> QED BY <1>3, <3>1
  <2> QED BY <2>1, <2>2
<1>5. ASSUME NEW i \in 1 .. N - 1, NEW j \in 1 .. N - 1, i < j PROVE k[i] < k[j]
  BY <1>1, <1>2, <1>5
<1> QED BY <1>4, <1>5 DEF Ascends

-----------------------------------------------------------------------------
(* In a program of blocks the stacks are the blocks around the statement *)

\* The lines of some frames, and of some entries of repeatstack.
LinesOf(s) == [i \in 1 .. Len(s) |-> s[i].nextoffset - 1]
EntriesOf(s) == [i \in 1 .. Len(s) |-> s[i] - 1]

\* f pairs the blocks of the program, and the stacks are those around n.
Stacked(f, n, frames, entries) ==
  /\ Ascends(LinesOf(frames), Around(program, f, "for", n))
  /\ Ascends(EntriesOf(entries), Around(program, f, "repeat", n))

BlocksOK ==
  outcome = "running" /\ Structured(program) =>
    onerroroffset = ENDPROGRAMOFFSET /\ FramesAreBlocks

\* The numbers on the stacks.
LEMMA FramesAre ==
  ASSUME ControlOK, ForOK
  PROVE  /\ Len(forstack) \in Nat /\ Len(LinesOf(forstack)) = Len(forstack)
         /\ \A i \in 1 .. Len(forstack) :
              /\ LinesOf(forstack)[i] = forstack[i].nextoffset - 1
              /\ LinesOf(forstack)[i] \in Int /\ forstack[i].nextoffset \in Int
<1>1. Len(program) \in Nat
  BY ProgramShape
<1>2. Len(forstack) \in Nat /\ \A i \in 1 .. Len(forstack) : forstack[i].nextoffset \in Int
  BY <1>1 DEF ForOK, Lines
<1> QED BY <1>2 DEF LinesOf

LEMMA EntriesAre ==
  ASSUME ControlOK, RepeatOK
  PROVE  /\ Len(repeatstack) \in Nat /\ Len(EntriesOf(repeatstack)) = Len(repeatstack)
         /\ \A i \in 1 .. Len(repeatstack) :
              /\ EntriesOf(repeatstack)[i] = repeatstack[i] - 1
              /\ EntriesOf(repeatstack)[i] \in Int /\ repeatstack[i] \in Int
<1>1. Len(program) \in Nat
  BY ProgramShape
<1>2. Len(repeatstack) \in Nat /\ \A i \in 1 .. Len(repeatstack) : repeatstack[i] \in Int
  BY <1>1 DEF RepeatOK, Lines
<1> QED BY <1>2 DEF EntriesOf

\* A frame pushed, a frame popped.
LEMMA FramePushed ==
  ASSUME ControlOK, ForOK, NEW frame, NEW n \in Int, frame.nextoffset = n + 1,
         NEW S, Ascends(LinesOf(forstack), S), \A x \in S : x < n
  PROVE  Ascends(LinesOf(Append(forstack, frame)), S \union {n})
<1> DEFINE N == Len(forstack)
           k == LinesOf(Append(forstack, frame))
<1>1. /\ N \in Nat /\ Len(LinesOf(forstack)) = N
      /\ \A i \in 1 .. N : /\ LinesOf(forstack)[i] = forstack[i].nextoffset - 1
                           /\ LinesOf(forstack)[i] \in Int
  BY FramesAre
<1>2. /\ Len(Append(forstack, frame)) = N + 1
      /\ \A i \in 1 .. N : Append(forstack, frame)[i] = forstack[i]
      /\ Append(forstack, frame)[N + 1] = frame
  BY DEF ForOK
<1>3. /\ Len(k) = N + 1 /\ k[N + 1] = n
      /\ \A i \in 1 .. N : k[i] = LinesOf(forstack)[i]
  <2>1. \A i \in 1 .. N + 1 : k[i] = Append(forstack, frame)[i].nextoffset - 1
    BY <1>1, <1>2 DEF LinesOf
  <2>2. Len(k) = N + 1
    BY <1>1, <1>2 DEF LinesOf
  <2>3. N + 1 \in 1 .. N + 1 /\ \A i \in 1 .. N : i \in 1 .. N + 1
    BY <1>1
  <2>4. frame.nextoffset - 1 = n
    OBVIOUS
  <2> HIDE DEF k, N
  <2>5. k[N + 1] = n
    BY <1>2, <2>1, <2>3, <2>4
  <2>6. \A i \in 1 .. N : k[i] = LinesOf(forstack)[i]
    BY <1>1, <1>2, <2>1, <2>3
  <2> QED BY <2>2, <2>5, <2>6
<1> HIDE DEF k, N
<1>4. Ascends(k, S \union {n})
  BY <1>1, <1>3, AscendsPushed
<1> QED BY <1>4 DEF k

LEMMA EntryPushed ==
  ASSUME ControlOK, RepeatOK, NEW n \in Int,
         NEW S, Ascends(EntriesOf(repeatstack), S), \A x \in S : x < n
  PROVE  Ascends(EntriesOf(Append(repeatstack, n + 1)), S \union {n})
<1> DEFINE N == Len(repeatstack)
           k == EntriesOf(Append(repeatstack, n + 1))
<1>1. /\ N \in Nat /\ Len(EntriesOf(repeatstack)) = N
      /\ \A i \in 1 .. N : /\ EntriesOf(repeatstack)[i] = repeatstack[i] - 1
                           /\ EntriesOf(repeatstack)[i] \in Int
  BY EntriesAre
<1>2. /\ Len(Append(repeatstack, n + 1)) = N + 1
      /\ \A i \in 1 .. N : Append(repeatstack, n + 1)[i] = repeatstack[i]
      /\ Append(repeatstack, n + 1)[N + 1] = n + 1
  BY DEF RepeatOK
<1>3. /\ Len(k) = N + 1 /\ k[N + 1] = n
      /\ \A i \in 1 .. N : k[i] = EntriesOf(repeatstack)[i]
  <2>1. \A i \in 1 .. N + 1 : k[i] = Append(repeatstack, n + 1)[i] - 1
    BY <1>1, <1>2 DEF EntriesOf
  <2>2. Len(k) = N + 1
    BY <1>1, <1>2 DEF EntriesOf
  <2>3. N + 1 \in 1 .. N + 1 /\ \A i \in 1 .. N : i \in 1 .. N + 1
    BY <1>1
  <2> HIDE DEF k, N
  <2> QED BY <1>1, <1>2, <2>1, <2>2, <2>3
<1> HIDE DEF k, N
<1>4. Ascends(k, S \union {n})
  BY <1>1, <1>3, AscendsPushed
<1> QED BY <1>4 DEF k

LEMMA FramePopped ==
  ASSUME ControlOK, ForOK, NEW S, NEW m \in S, m \in Int,
         Ascends(LinesOf(forstack), S), \A x \in S : x <= m
  PROVE  /\ forstack # <<>> /\ Top(forstack).nextoffset = m + 1
         /\ Ascends(LinesOf(Pop(forstack)), S \ {m})
<1> DEFINE N == Len(forstack)
           s == LinesOf(forstack)
           k == LinesOf(Pop(forstack))
<1>1. /\ N \in Nat /\ Len(s) = N
      /\ \A i \in 1 .. N : /\ s[i] = forstack[i].nextoffset - 1
                           /\ s[i] \in Int /\ forstack[i].nextoffset \in Int
  BY FramesAre
<1>2. N \in 1 .. N /\ s[N] = m
  <2>1. Ascends(s, S)
    OBVIOUS
  <2> HIDE DEF s, N
  <2>2. N \in Nat /\ Len(s) = N /\ \A i \in 1 .. N : s[i] \in Int
    BY <1>1
  <2>3. m \in S /\ m \in Int /\ \A x \in S : x <= m
    OBVIOUS
  <2> QED BY ONLY <2>1, <2>2, <2>3, AscendsTop
<1>3. forstack # <<>> /\ N \in Nat \ {0}
  BY <1>1, <1>2
<1>4. /\ Len(Pop(forstack)) = N - 1
      /\ \A i \in 1 .. N - 1 : Pop(forstack)[i] = forstack[i]
  BY <1>3, Popped DEF ForOK
<1>5. Len(k) = N - 1 /\ \A i \in 1 .. N - 1 : k[i] = s[i]
  <2>1. N - 1 \in Nat /\ \A i \in 1 .. N - 1 : i \in 1 .. N
    BY <1>3
  <2>2. Len(k) = N - 1 /\ \A i \in 1 .. N - 1 : k[i] = Pop(forstack)[i].nextoffset - 1
    BY <1>4, <2>1 DEF LinesOf
  <2> HIDE DEF s, k, N
  <2> QED BY <1>1, <1>4, <2>1, <2>2
<1>6. Top(forstack).nextoffset = m + 1
  BY <1>1, <1>2 DEF Top
<1>7. Ascends(k, S \ {s[N]})
  <2> HIDE DEF k, N
  <2>1. Ascends(s, S)
    OBVIOUS
  <2> HIDE DEF s
  <2> QED BY <1>1, <1>3, <1>5, <2>1, AscendsPopped
<1> QED BY <1>2, <1>3, <1>6, <1>7

LEMMA EntryPopped ==
  ASSUME ControlOK, RepeatOK, NEW S, NEW m \in S, m \in Int,
         Ascends(EntriesOf(repeatstack), S), \A x \in S : x <= m
  PROVE  /\ repeatstack # <<>> /\ Top(repeatstack) = m + 1
         /\ Ascends(EntriesOf(Pop(repeatstack)), S \ {m})
<1> DEFINE N == Len(repeatstack)
           s == EntriesOf(repeatstack)
           k == EntriesOf(Pop(repeatstack))
<1>1. /\ N \in Nat /\ Len(s) = N
      /\ \A i \in 1 .. N : /\ s[i] = repeatstack[i] - 1
                           /\ s[i] \in Int /\ repeatstack[i] \in Int
  BY EntriesAre
<1>2. N \in 1 .. N /\ s[N] = m
  <2>1. Ascends(s, S)
    OBVIOUS
  <2> HIDE DEF s, N
  <2>2. N \in Nat /\ Len(s) = N /\ \A i \in 1 .. N : s[i] \in Int
    BY <1>1
  <2>3. m \in S /\ m \in Int /\ \A x \in S : x <= m
    OBVIOUS
  <2> QED BY ONLY <2>1, <2>2, <2>3, AscendsTop
<1>3. repeatstack # <<>> /\ N \in Nat \ {0}
  BY <1>1, <1>2
<1>4. /\ Len(Pop(repeatstack)) = N - 1
      /\ \A i \in 1 .. N - 1 : Pop(repeatstack)[i] = repeatstack[i]
  BY <1>3, Popped DEF RepeatOK
<1>5. Len(k) = N - 1 /\ \A i \in 1 .. N - 1 : k[i] = s[i]
  <2>1. N - 1 \in Nat /\ \A i \in 1 .. N - 1 : i \in 1 .. N
    BY <1>3
  <2>2. Len(k) = N - 1 /\ \A i \in 1 .. N - 1 : k[i] = Pop(repeatstack)[i] - 1
    BY <1>4, <2>1 DEF EntriesOf
  <2> HIDE DEF s, k, N
  <2> QED BY <1>1, <1>4, <2>1, <2>2
<1>6. Top(repeatstack) = m + 1
  BY <1>1, <1>2 DEF Top
<1>7. Ascends(k, S \ {s[N]})
  <2> HIDE DEF k, N
  <2>1. Ascends(s, S)
    OBVIOUS
  <2> HIDE DEF s
  <2> QED BY <1>1, <1>3, <1>5, <2>1, AscendsPopped
<1> QED BY <1>2, <1>3, <1>6, <1>7

\* A statement that ends without an error, or is not trapped, leads where it
\* says: with no ONERROR label an error ends the run.
LEMMA Straight ==
  ASSUME NEW r, NEW answer, NEW e, Turn(r, answer, e),
         r.handler = ENDPROGRAMOFFSET, outcome' = "running"
  PROVE  /\ e = NoError /\ onerroroffset' = ENDPROGRAMOFFSET
         /\ answer # ENDPROGRAMOFFSET
         /\ answer = NEXTLINEOFFSET =>
              curoffset' = getnextline(r.at) /\ getnextline(r.at) \in Lines
         /\ answer \in Offset => curoffset' = answer
<1>1. e = NoError
  BY DEF Turn, Traps, Goes
<1>2. Proceeds(r.at, answer) /\ onerroroffset' = r.handler
  BY <1>1 DEF Turn
<1> QED BY <1>1, <1>2, Marks DEF Proceeds, Goes

\* The state at a statement of a program of blocks.
Within(f) ==
  /\ Inv /\ Pairs(program, f) /\ onerroroffset = ENDPROGRAMOFFSET
  /\ Stacked(f, curoffset, forstack, repeatstack)
  /\ \A n \in Lines : program[n].op \notin Jumps

\* The same for the statement after it.
Onward(f) ==
  /\ onerroroffset' = ENDPROGRAMOFFSET
  /\ Stacked(f, curoffset', forstack', repeatstack')

\* A statement that neither opens nor closes a block.
LEMMA NextLineOnward ==
  ASSUME NEW f, Within(f), NEW op, At(op), op \notin Opens, op \notin Closes,
         onerroroffset' = ENDPROGRAMOFFSET, curoffset' = curoffset + 1,
         UNCHANGED <<forstack, repeatstack>>
  PROVE  Onward(f)
<1>1. /\ curoffset \in 1 .. Len(program) /\ Pairs(program, f)
      /\ program[curoffset].op \notin Opens /\ program[curoffset].op \notin Closes
  BY DEF Within, At, Lines, statement
<1>2. \A o : Around(program, f, o, curoffset + 1) = Around(program, f, o, curoffset)
  BY <1>1, AroundPlain
<1> QED BY <1>2 DEF Within, Onward, Stacked

LEMMA PlainOnward ==
  ASSUME NEW f, Within(f), outcome' = "running",
         Other \/ Let \/ Inplen \/ Err \/ InputNoMemory \/ InputReturn
  PROVE  Onward(f)
<1>1. PICK op \in {"other", "let", "inplen", "err", "input"} : At(op)
  BY DEF Other, Let, Inplen, Err, InputNoMemory, InputReturn
<1>2. op \notin Opens /\ op \notin Closes
  BY DEF Opens, Closes
<1>3. UNCHANGED <<forstack, repeatstack>>
  BY DEF Other, Let, Inplen, Err, InputNoMemory, InputReturn, stacks
<1>4. PICK r, answer, e : /\ Turn(r, answer, e) /\ r.at = curoffset
                          /\ r.handler = onerroroffset /\ answer = NEXTLINEOFFSET
  <2>1. Registers.at = curoffset /\ Registers.handler = onerroroffset
    BY DEF Registers
  <2>2. \A which : ErrCleared(which).at = curoffset
                   /\ ErrCleared(which).handler = onerroroffset
    BY DEF ErrCleared, Registers
  <2> QED BY <2>1, <2>2 DEF Other, Let, Inplen, Err, InputNoMemory, InputReturn, Then
<1>5. onerroroffset' = ENDPROGRAMOFFSET /\ curoffset' = getnextline(curoffset)
  BY <1>4, Straight DEF Within
<1>6. getnextline(curoffset) = curoffset + 1
  BY <1>1 DEF getnextline, At, Lines
<1> QED BY <1>1, <1>2, <1>3, <1>5, <1>6, NextLineOnward

LEMMA DolineOnward ==
  ASSUME NEW f, Within(f), outcome' = "running", Doline, Inv'
  PROVE  Onward(f)
<1>1. /\ UNCHANGED stacks
      /\ \/ UNCHANGED onerroroffset /\ curoffset' = curoffset + 1
         \/ curoffset' = onerroroffset
  BY DolineStep DEF Within
<1>2. curoffset' # ENDPROGRAMOFFSET
  <2>1. curoffset' \in 1 .. Len(program') + 1
    BY DEF Inv, ControlOK, Offset, EndOfText
  <2> QED BY <2>1 DEF ENDPROGRAMOFFSET
<1>3. onerroroffset' = ENDPROGRAMOFFSET /\ curoffset' = curoffset + 1
  BY <1>1, <1>2 DEF Within
<1>4. At("doline") /\ UNCHANGED <<forstack, repeatstack>>
  BY <1>1 DEF Doline, stacks
<1> QED BY <1>3, <1>4, NextLineOnward DEF Opens, Closes

LEMMA KeyOnward ==
  ASSUME NEW f, Within(f), outcome' = "running", InputKey
  PROVE  Onward(f)
<1>1. /\ Turn(Registers, curoffset, NoError) /\ Registers.handler = ENDPROGRAMOFFSET
      /\ curoffset \in Offset /\ UNCHANGED <<forstack, repeatstack>>
  BY DEF InputKey, Then, Within, Inv, ControlOK, Registers, stacks
<1>2. onerroroffset' = ENDPROGRAMOFFSET /\ curoffset' = curoffset
  BY <1>1, Straight
<1> QED BY <1>1, <1>2 DEF Within, Onward

\* What cannot lead on: jumps are not in the program, the rest ends the run.
LEMMA NoJumpOnward ==
  ASSUME NEW f, Within(f), outcome' = "running",
         AtEndOfText \/ End \/ NoVariable \/ OnError \/ If \/ Goto \/ Gosub \/ Return
           \/ Abort
  PROVE  FALSE
<1>1. Registers.handler = ENDPROGRAMOFFSET /\ Registers.at = curoffset
  BY DEF Within, Registers
<1>2. CASE AtEndOfText
  <2>1. getnextline(curoffset) \in Lines /\ curoffset = EndOfText
    BY <1>1, <1>2, Straight DEF AtEndOfText, Then
  <2>2. Len(program) \in Nat
    BY DEF Within, Pairs
  <2> QED BY <2>1, <2>2 DEF getnextline, EndOfText, Lines
<1>3. CASE End
  BY <1>1, <1>3, Straight DEF End, Then
<1>4. CASE NoVariable
  BY <1>1, <1>4, Straight DEF NoVariable, Then
<1>5. CASE OnError \/ If \/ Goto \/ Gosub \/ Return \/ Abort
  <2>1. \E op \in Jumps : At(op)
    BY <1>5 DEF OnError, If, Goto, Gosub, Return, Abort, Jumps
  <2> QED BY <2>1 DEF Within, At, statement
<1> QED BY <1>2, <1>3, <1>4, <1>5

\* REPEAT and a FOR with turns to take put their line on top.
LEMMA OpenedOnward ==
  ASSUME NEW f, Within(f), NEW op, At(op), op \in Opens,
         onerroroffset' = ENDPROGRAMOFFSET, curoffset' = curoffset + 1,
         \/ /\ op = "repeat" /\ UNCHANGED forstack
            /\ repeatstack' = Append(repeatstack, curoffset + 1)
         \/ /\ op = "for" /\ UNCHANGED repeatstack
            /\ \E frame : /\ frame.nextoffset = curoffset + 1
                          /\ forstack' = Append(forstack, frame)
  PROVE  Onward(f)
<1> DEFINE n == curoffset
           F == Around(program, f, "for", n)
           R == Around(program, f, "repeat", n)
<1>1. /\ n \in Openers(program) /\ Pairs(program, f) /\ program[n].op = op
      /\ ControlOK /\ ForOK /\ RepeatOK
      /\ Ascends(LinesOf(forstack), F) /\ Ascends(EntriesOf(repeatstack), R)
  BY DEF Within, At, Lines, statement, Openers, Inv, StacksOK, Stacked
<1>2. n \in Int
  BY <1>1, PairsAre
<1>3. /\ Around(program, f, "for", n + 1) = F \union (IF op = "for" THEN {n} ELSE {})
      /\ Around(program, f, "repeat", n + 1) = R \union (IF op = "repeat" THEN {n} ELSE {})
      /\ (\A o \in F : o < n) /\ (\A o \in R : o < n)
  BY <1>1, AroundOpened
<1> HIDE DEF n, F, R
<1>4. CASE op = "repeat"
  <2>1. UNCHANGED forstack /\ repeatstack' = Append(repeatstack, n + 1)
    BY <1>4 DEF n
  <2>2. Ascends(EntriesOf(repeatstack'), R \union {n})
    BY <1>1, <1>2, <1>3, <2>1, EntryPushed
  <2>3. Ascends(LinesOf(forstack'), F \union {})
    BY <1>1, <2>1
  <2> QED BY <1>3, <1>4, <2>2, <2>3 DEF Onward, Stacked, n
<1>5. CASE op = "for"
  <2>1. PICK frame : /\ UNCHANGED repeatstack /\ frame.nextoffset = n + 1
                     /\ forstack' = Append(forstack, frame)
    BY <1>5 DEF n
  <2>2. Ascends(LinesOf(forstack'), F \union {n})
    BY <1>1, <1>2, <1>3, <2>1, FramePushed
  <2>3. Ascends(EntriesOf(repeatstack'), R \union {})
    BY <1>1, <2>1
  <2> QED BY <1>3, <1>5, <2>2, <2>3 DEF Onward, Stacked, n
<1> QED BY <1>4, <1>5

LEMMA RepeatOnward ==
  ASSUME NEW f, Within(f), outcome' = "running", Repeat
  PROVE  Onward(f)
<1>1. Registers.handler = ENDPROGRAMOFFSET /\ Registers.at = curoffset
  BY DEF Within, Registers
<1>2. At("repeat") /\ curoffset \in Lines /\ UNCHANGED forstack
  BY DEF Repeat, At
<1>3. ~(Len(repeatstack) >= MaxRepeats)
  BY <1>1, Straight DEF Repeat, Then
<1>4. Then(NEXTLINEOFFSET, NoError)
      /\ repeatstack' = Append(repeatstack, getnextline(curoffset))
  BY <1>3 DEF Repeat
<1>5. onerroroffset' = ENDPROGRAMOFFSET /\ curoffset' = getnextline(curoffset)
  BY <1>1, <1>4, Straight DEF Then
<1>6. getnextline(curoffset) = curoffset + 1
  BY <1>2 DEF getnextline, Lines
<1> QED BY <1>2, <1>4, <1>5, <1>6, OpenedOnward DEF Opens

LEMMA ForOnward ==
  ASSUME NEW f, Within(f), outcome' = "running", For
  PROVE  Onward(f)
<1>1. Registers.handler = ENDPROGRAMOFFSET /\ Registers.at = curoffset
  BY DEF Within, Registers
<1>2. At("for") /\ curoffset \in Lines /\ statement.op = "for" /\ UNCHANGED repeatstack
  BY DEF For, At
<1>3. getnextline(curoffset) = curoffset + 1
  BY <1>2 DEF getnextline, Lines
<1>4. PICK e, to, step :
        \/ Then(ENDPROGRAMOFFSET, First(e, "TOOMANYFORS"))
        \/ ForSkips(e)
        \/ ForPushes(to, step, e)
  BY ZenonT(60) DEF For
<1>5. CASE Then(ENDPROGRAMOFFSET, First(e, "TOOMANYFORS"))
  BY <1>1, <1>5, Straight DEF Then
<1>6. CASE ForPushes(to, step, e)
  <2>1. onerroroffset' = ENDPROGRAMOFFSET /\ curoffset' = curoffset + 1
    BY <1>1, <1>3, <1>6, Straight DEF ForPushes, Then
  <2>2. \E frame : /\ frame.nextoffset = curoffset + 1
                   /\ forstack' = Append(forstack, frame)
    BY <1>3, <1>6 DEF ForPushes
  <2> QED BY <1>2, <2>1, <2>2, OpenedOnward DEF Opens
<1>7. CASE ForSkips(e)
  <2> DEFINE r(at) == [Registers EXCEPT !.at = at]
  <2>1. \A at : r(at).at = at /\ r(at).handler = ENDPROGRAMOFFSET
    BY <1>1 DEF Registers
  <2>2. UNCHANGED forstack /\
        \/ \E m \in FirstNext(statement.var) : Turn(r(m), getnextline(m), NoError)
        \/ \E found : Turn(r(EndOfText), ENDPROGRAMOFFSET, found)
    BY <1>7 DEF ForSkips
  <2> HIDE DEF r
  <2>3. PICK m \in FirstNext(statement.var) : Turn(r(m), getnextline(m), NoError)
    BY <2>1, <2>2, Straight
  <2>4. Pairs(program, f) /\ Len(program) \in Nat
    BY DEF Within, Pairs
  <2>5. m \in Lines /\ getnextline(m) = m + 1 /\ m + 1 \in Offset
    BY <2>4 DEF FirstNext, getnextline, Lines, Offset, EndOfText
  <2>6. onerroroffset' = ENDPROGRAMOFFSET /\ curoffset' = m + 1
    BY <2>1, <2>3, <2>5, Straight
  <2>7. curoffset \in Openers(program) /\ m = f[curoffset]
    BY <1>2, <2>3, <2>4, FoundIsOwn DEF statement
  <2>8. \A o : Around(program, f, o, m + 1) = Around(program, f, o, curoffset)
    BY <2>4, <2>7, AroundSkipped
  <2> QED BY <1>2, <2>2, <2>6, <2>8 DEF Within, Onward, Stacked
<1> QED BY <1>4, <1>5, <1>6, <1>7

\* NEXT and UNTIL: the block on top is the one they close.
LEMMA ClosedOnward ==
  ASSUME NEW f, Within(f), NEW op, At(op), op \in Closes
  PROVE  \E o \in Openers(program) :
           /\ o + 1 \in Offset /\ f[o] = curoffset
           /\ op = "next" =>
                /\ forstack # <<>> /\ Top(forstack).nextoffset = o + 1
                /\ Stacked(f, curoffset + 1, Pop(forstack), repeatstack)
           /\ op = "until" =>
                /\ repeatstack # <<>> /\ Top(repeatstack) = o + 1
                /\ Stacked(f, curoffset + 1, forstack, Pop(repeatstack))
           /\ Stacked(f, o + 1, forstack, repeatstack)
<1> DEFINE n == curoffset
           F == Around(program, f, "for", n)
           R == Around(program, f, "repeat", n)
<1>1. /\ n \in Closers(program) /\ Pairs(program, f) /\ program[n].op = op
      /\ ControlOK /\ ForOK /\ RepeatOK /\ Len(program) \in Nat
      /\ Ascends(LinesOf(forstack), F) /\ Ascends(EntriesOf(repeatstack), R)
  BY DEF Within, At, Lines, statement, Closers, Inv, StacksOK, Stacked, Pairs
<1>2. PICK o \in Openers(program) : f[o] = n
  BY <1>1 DEF Pairs, Brackets
<1>3. /\ o \in 1 .. Len(program) /\ o \in Int /\ program[o].op \in {"for", "repeat"}
      /\ program[o].op = "repeat" => op = "until"
      /\ program[o].op = "for" => op = "next"
  BY <1>1, <1>2, PairsAre
<1>4. /\ program[o].op = "for" => o \in F
      /\ program[o].op = "repeat" => o \in R
      /\ (\A x \in F : x <= o) /\ (\A x \in R : x <= o)
      /\ Around(program, f, "for", n + 1) = F \ {o}
      /\ Around(program, f, "repeat", n + 1) = R \ {o}
      /\ Around(program, f, "for", o + 1) = F
      /\ Around(program, f, "repeat", o + 1) = R
  <2>0. Pairs(program, f) /\ o \in Openers(program)
    BY <1>1
  <2>1. \A k :
          /\ program[o].op = k => o \in Around(program, f, k, f[o])
          /\ \A x \in Around(program, f, k, f[o]) : x <= o
          /\ Around(program, f, k, f[o] + 1) = Around(program, f, k, f[o]) \ {o}
          /\ Around(program, f, k, o + 1) = Around(program, f, k, f[o])
    BY ONLY <2>0, AroundClosed
  <2> QED BY <1>2, <2>1
<1>5. (o \in F => program[o].op = "for") /\ (o \in R => program[o].op = "repeat")
  BY DEF Around
<1>6. o + 1 \in Offset
  BY <1>1, <1>3 DEF Offset, EndOfText
<1> HIDE DEF n, F, R
<1>7. Stacked(f, o + 1, forstack, repeatstack)
  BY <1>1, <1>4 DEF Stacked
<1>8. ASSUME op = "next"
      PROVE  /\ forstack # <<>> /\ Top(forstack).nextoffset = o + 1
             /\ Stacked(f, n + 1, Pop(forstack), repeatstack)
  <2>1. program[o].op = "for"
    BY <1>3, <1>8
  <2>2. o \in F /\ o \notin R
    BY <1>4, <1>5, <2>1
  <2>3. /\ forstack # <<>> /\ Top(forstack).nextoffset = o + 1
        /\ Ascends(LinesOf(Pop(forstack)), F \ {o})
    BY <1>1, <1>3, <1>4, <2>2, FramePopped
  <2>4. R \ {o} = R
    BY <2>2
  <2> QED BY <1>1, <1>4, <2>3, <2>4 DEF Stacked
<1>9. ASSUME op = "until"
      PROVE  /\ repeatstack # <<>> /\ Top(repeatstack) = o + 1
             /\ Stacked(f, n + 1, forstack, Pop(repeatstack))
  <2>1. program[o].op = "repeat"
    BY <1>3, <1>9
  <2>2. o \in R /\ o \notin F
    BY <1>4, <1>5, <2>1
  <2>3. /\ repeatstack # <<>> /\ Top(repeatstack) = o + 1
        /\ Ascends(EntriesOf(Pop(repeatstack)), R \ {o})
    BY <1>1, <1>3, <1>4, <2>2, EntryPopped
  <2>4. F \ {o} = F
    BY <2>2
  <2> QED BY <1>1, <1>4, <2>3, <2>4 DEF Stacked
<1> QED BY <1>2, <1>6, <1>7, <1>8, <1>9 DEF n

LEMMA NextOnward ==
  ASSUME NEW f, Within(f), outcome' = "running", Next1
  PROVE  Onward(f)
<1>1. Registers.handler = ENDPROGRAMOFFSET /\ Registers.at = curoffset
  BY DEF Within, Registers
<1>2. At("next") /\ curoffset \in Lines /\ UNCHANGED repeatstack
  BY DEF Next1, At
<1>3. PICK o :
        /\ o + 1 \in Offset
        /\ forstack # <<>> /\ Top(forstack).nextoffset = o + 1
        /\ Stacked(f, curoffset + 1, Pop(forstack), repeatstack)
        /\ Stacked(f, o + 1, forstack, repeatstack)
  BY <1>2, ClosedOnward DEF Closes
<1>4. getnextline(curoffset) = curoffset + 1
  BY <1>2 DEF getnextline, Lines
<1>5. \/ Then(ENDPROGRAMOFFSET, "NOFOR")
      \/ Then(NEXTLINEOFFSET, NoError) /\ forstack' = Pop(forstack)
      \/ Then(Top(forstack).nextoffset, NoError) /\ UNCHANGED forstack
  BY DEF Next1
<1>6. CASE Then(ENDPROGRAMOFFSET, "NOFOR")
  BY <1>1, <1>6, Straight DEF Then
<1>7. CASE Then(NEXTLINEOFFSET, NoError) /\ forstack' = Pop(forstack)
  <2>1. onerroroffset' = ENDPROGRAMOFFSET /\ curoffset' = curoffset + 1
    BY <1>1, <1>4, <1>7, Straight DEF Then
  <2> QED BY <1>2, <1>3, <1>7, <2>1 DEF Onward
<1>8. CASE Then(Top(forstack).nextoffset, NoError) /\ UNCHANGED forstack
  <2>1. onerroroffset' = ENDPROGRAMOFFSET /\ curoffset' = o + 1
    BY <1>1, <1>3, <1>8, Straight DEF Then
  <2> QED BY <1>2, <1>3, <1>8, <2>1 DEF Onward
<1> QED BY <1>5, <1>6, <1>7, <1>8

LEMMA UntilOnward ==
  ASSUME NEW f, Within(f), outcome' = "running", Until
  PROVE  Onward(f)
<1>1. Registers.handler = ENDPROGRAMOFFSET /\ Registers.at = curoffset
  BY DEF Within, Registers
<1>2. At("until") /\ curoffset \in Lines /\ UNCHANGED forstack
  BY DEF Until, At
<1>3. PICK o :
        /\ o + 1 \in Offset
        /\ repeatstack # <<>> /\ Top(repeatstack) = o + 1
        /\ Stacked(f, curoffset + 1, forstack, Pop(repeatstack))
        /\ Stacked(f, o + 1, forstack, repeatstack)
  BY <1>2, ClosedOnward DEF Closes
<1>4. getnextline(curoffset) = curoffset + 1
  BY <1>2 DEF getnextline, Lines
<1>5. PICK e : \/ Then(NEXTLINEOFFSET, e) /\ repeatstack' = Pop(repeatstack)
               \/ Then(Top(repeatstack), e) /\ UNCHANGED repeatstack
  BY <1>3 DEF Until
<1>6. CASE Then(NEXTLINEOFFSET, e) /\ repeatstack' = Pop(repeatstack)
  <2>1. onerroroffset' = ENDPROGRAMOFFSET /\ curoffset' = curoffset + 1
    BY <1>1, <1>4, <1>6, Straight DEF Then
  <2> QED BY <1>2, <1>3, <1>6, <2>1 DEF Onward
<1>7. CASE Then(Top(repeatstack), e) /\ UNCHANGED repeatstack
  <2>1. onerroroffset' = ENDPROGRAMOFFSET /\ curoffset' = o + 1
    BY <1>1, <1>3, <1>7, Straight DEF Then
  <2> QED BY <1>2, <1>3, <1>7, <2>1 DEF Onward
<1> QED BY <1>5, <1>6, <1>7

LEMMA MainloopOnward ==
  ASSUME NEW f, Within(f), outcome' = "running", mainloop, Inv'
  PROVE  Onward(f)
BY PlainOnward, DolineOnward, KeyOnward, NoJumpOnward, RepeatOnward, ForOnward,
   NextOnward, UntilOnward DEF mainloop

\* At the first line nothing is around and nothing is stacked.
LEMMA FirstLine ==
  ASSUME NEW p, Len(p) \in Nat, Structured(p)
  PROVE  /\ Ascends([i \in 1 .. Len(<<>>) |-> <<>>[i].nextoffset - 1], Enclosing(p, "for", 1))
         /\ Ascends([i \in 1 .. Len(<<>>) |-> <<>>[i] - 1], Enclosing(p, "repeat", 1))
<1>1. PICK f : Pairs(p, f) /\ \A op, n : Enclosing(p, op, n) = Around(p, f, op, n)
  BY EnclosingIsAround
<1>2. \A op : Enclosing(p, op, 1) = {}
  BY <1>1, AroundEnds
<1> QED BY <1>2 DEF Ascends

\* mainloop does not write the text it runs.
LEMMA TurnKeepsProgram ==
  ASSUME NEW r, NEW answer, NEW e, Turn(r, answer, e)
  PROVE  program' = program
BY DEF Turn

LEMMA StepKeepsProgram ==
  ASSUME mainloop PROVE program' = program
<1>1. ASSUME NEW answer, NEW e, Then(answer, e) PROVE program' = program
  BY <1>1, TurnKeepsProgram DEF Then
<1>2. CASE AtEndOfText
  BY <1>1, <1>2, TurnKeepsProgram DEF AtEndOfText
<1>3. CASE Other
  BY <1>1, <1>3, TurnKeepsProgram DEF Other
<1>4. CASE Let
  BY <1>1, <1>4, TurnKeepsProgram DEF Let
<1>5. CASE Inplen
  BY <1>1, <1>5, TurnKeepsProgram DEF Inplen
<1>6. CASE Err
  BY <1>1, <1>6, TurnKeepsProgram DEF Err
<1>7. CASE OnError
  BY <1>1, <1>7, TurnKeepsProgram DEF OnError
<1>8. CASE If
  BY <1>1, <1>8, TurnKeepsProgram DEF If
<1>9. CASE Goto
  BY <1>1, <1>9, TurnKeepsProgram DEF Goto
<1>10. CASE End
  BY <1>1, <1>10, TurnKeepsProgram DEF End
<1>11. CASE Doline
  BY <1>1, <1>11, TurnKeepsProgram DEF Doline, DolineFails, DolineRuns
<1>12. CASE InputNoMemory
  BY <1>1, <1>12, TurnKeepsProgram DEF InputNoMemory
<1>13. CASE InputKey
  BY <1>1, <1>13, TurnKeepsProgram DEF InputKey
<1>14. CASE InputReturn
  BY <1>1, <1>14, TurnKeepsProgram DEF InputReturn
<1>15. CASE Gosub
  BY <1>1, <1>15, TurnKeepsProgram DEF Gosub
<1>16. CASE Return
  BY <1>1, <1>16, TurnKeepsProgram DEF Return
<1>17. CASE Abort
  BY <1>1, <1>17, TurnKeepsProgram DEF Abort
<1>18. CASE Repeat
  BY <1>1, <1>18, TurnKeepsProgram DEF Repeat
<1>19. CASE Until
  BY <1>1, <1>19, TurnKeepsProgram DEF Until
<1>20. CASE NoVariable
  BY <1>1, <1>20, TurnKeepsProgram DEF NoVariable
<1>21. CASE Next1
  BY <1>1, <1>21, TurnKeepsProgram DEF Next1
<1>22. CASE For
  <2>1. ASSUME NEW e, ForSkips(e) PROVE program' = program
    BY <2>1, TurnKeepsProgram DEF ForSkips
  <2>2. ASSUME NEW to, NEW step, NEW e, ForPushes(to, step, e) PROVE program' = program
    BY <1>1, <2>2 DEF ForPushes
  <2>3. \/ \E a, e : Then(a, e)
        \/ \E e : ForSkips(e)
        \/ \E to, step, e : ForPushes(to, step, e)
    BY <1>22, ZenonT(60) DEF For
  <2> QED BY <1>1, <2>1, <2>2, <2>3
<1> QED BY <1>2, <1>3, <1>4, <1>5, <1>6, <1>7, <1>8, <1>9, <1>10, <1>11, <1>12, <1>13, <1>14, <1>15, <1>16, <1>17, <1>18, <1>19, <1>20, <1>21, <1>22 DEF mainloop

LEMMA NextBlocks == Inv /\ Inv' /\ BlocksOK /\ [Next]_vars => BlocksOK'
<1> SUFFICES ASSUME Inv, Inv', BlocksOK, [Next]_vars,
                    outcome' = "running", Structured(program')
             PROVE  onerroroffset' = ENDPROGRAMOFFSET /\ FramesAreBlocks'
  BY DEF BlocksOK
<1>1. CASE mainloop
  <2>1. outcome = "running" /\ program' = program
    <3>1. outcome = "running"
      BY <1>1 DEF mainloop, At, AtEndOfText, Other, Let, Inplen, Err, OnError, If, Goto,
         End, Doline, InputNoMemory, InputKey, InputReturn, Gosub, Return, Abort, Repeat,
         Until, NoVariable, For, Next1
    <3>2. program' = program
      BY <1>1, StepKeepsProgram
    <3> QED BY <3>1, <3>2
  <2>2. Structured(program) /\ onerroroffset = ENDPROGRAMOFFSET /\ FramesAreBlocks
    BY <2>1 DEF BlocksOK
  <2>3. PICK f : Pairs(program, f)
          /\ \A op, n : Enclosing(program, op, n) = Around(program, f, op, n)
    BY <2>2, ProgramShape, EnclosingIsAround DEF Inv
  <2>4. Stacked(f, curoffset, forstack, repeatstack)
    BY <2>1, <2>2, <2>3 DEF FramesAreBlocks, Stacked, ForLines, LinesOf, RepeatLines,
       EntriesOf
  <2>5. Within(f)
    BY <2>2, <2>3, <2>4 DEF Within, Structured, Lines
  <2>6. Onward(f)
    BY <1>1, <2>5, MainloopOnward
  <2>7. FramesAreBlocks'
    BY <2>1, <2>3, <2>6 DEF Onward, FramesAreBlocks, Stacked, ForLines, LinesOf,
       RepeatLines, EntriesOf
  <2> QED BY <2>6, <2>7 DEF Onward
<1>2. CASE Setup
  <2>1. onerroroffset' = ENDPROGRAMOFFSET
    BY <1>2 DEF Setup
  <2>2. Len(program') \in Nat
    BY <1>2, ProgramShape DEF Setup, Inv
  <2> QED BY <1>2, <2>1, <2>2, FirstLine DEF Setup, FramesAreBlocks, ForLines, RepeatLines
<1>3. CASE Stop
  BY <1>3 DEF Stop
<1>4. CASE UNCHANGED vars
  <2>1. /\ UNCHANGED <<program, outcome, curoffset, onerroroffset, forstack, repeatstack>>
    BY <1>4 DEF vars, registers, stacks
  <2> QED BY <2>1 DEF BlocksOK, FramesAreBlocks, ForLines, RepeatLines
<1> QED BY <1>1, <1>2, <1>3, <1>4 DEF Next

\* In a program of blocks the FOR and REPEAT stacks are, at every statement,
\* the loops written around it, however deep they nest and whichever of them
\* had an empty range (dofor, donext, dorepeat, dountil).
THEOREM SpecBlocks == Spec => []FramesAreBlocks
<1>1. Init => BlocksOK
  <2> SUFFICES ASSUME Init, Structured(program)
               PROVE  onerroroffset = ENDPROGRAMOFFSET /\ FramesAreBlocks
    BY DEF BlocksOK
  <2>1. Len(program) \in Nat
    BY InitInv, ProgramShape DEF Inv
  <2> QED BY <2>1, FirstLine DEF Init, FramesAreBlocks, ForLines, RepeatLines
<1>2. Spec => [](Inv /\ BlocksOK)
  BY <1>1, InitInv, NextInv, NextBlocks, PTL DEF Spec
<1>3. BlocksOK => FramesAreBlocks
  BY DEF BlocksOK, FramesAreBlocks
<1> QED BY <1>2, <1>3, PTL

=============================================================================
