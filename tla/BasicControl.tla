----------------------------- MODULE BasicControl -----------------------------
(***************************************************************************)
(* The control of a running BASIC program (basic.c): one action is one     *)
(* call of mainloop, which runs the statement at curoffset, then either    *)
(* goes where the statement said, traps its error, or ends the run.        *)
(*                                                                         *)
(* A program is a sequence of statements, one a line; an offset into the   *)
(* text is the number of its line and Len(program) + 1 is the NUL that     *)
(* ends it.  A label is the line it stands on, and NoLabel one that no     *)
(* line has.  Numbers are MinInt .. MaxInt and wrap.  What an expression   *)
(* is worth is left open where no loop depends on it, and any expression   *)
(* may set an error: a bad value, which ONERROR traps, or no memory, which *)
(* nothing traps.                                                          *)
(***************************************************************************)
EXTENDS Integers, Sequences

CONSTANTS
  Programs,      \* the programs that may be in flash
  Vars,          \* numeric variables
  MaxFors,       \* MAXFORS
  MaxGosub,      \* MAXGOSUB
  MaxRepeats,    \* MAXREPEATSTACK
  MinInt, MaxInt,
  InputMax,      \* Scurinputmax of a new run
  Chars,         \* printable characters
  MaxTyped       \* bound on the keys typed at one INPUT, RETURN not counted

ASSUME StacksAssumption ==
  MaxFors \in Nat \ {0} /\ MaxGosub \in Nat \ {0} /\ MaxRepeats \in Nat \ {0}
ASSUME NumbersAssumption ==
  MinInt \in Int /\ MaxInt \in Int /\ MinInt < 0 /\ 0 < MaxInt
ASSUME InputAssumption ==
  InputMax \in Nat \ {0} /\ {"BS", "no key", "NULL"} \intersect Chars = {}

VARIABLES
  program,          \* the text the run was started on, chosen once
  outcome,          \* "running", or how the run ended
  curoffset, erroroffset, onerroroffset,
  lasterrorflag,
  gosubstack, repeatstack, forstack,
  value,            \* the numeric variables
  svalue,           \* the string variable INPUT fills
  curinputptr,      \* the text of the INPUT in progress, or NoBuffer
  curinputmax,
  typed             \* history: the keys of the INPUT in progress

registers == <<curoffset, erroroffset, onerroroffset, lasterrorflag>>
stacks == <<gosubstack, repeatstack, forstack>>
input == <<curinputptr, curinputmax, svalue, typed>>
vars == <<program, outcome, registers, stacks, value, input>>

ENDPROGRAMOFFSET == -1
NEXTLINEOFFSET == -2
LINENOTFOUNDOFFSET == -3
NoLabel == 0
NoBuffer == <<"NULL">>
NoError == "none"
OutOfMemory == "OUTOFMEMORY"

\* What evaluating an expression may leave in errorflag.
ExprErrors == {NoError, "BADVALUE", OutOfMemory}

Control == {"onerror", "if", "repeat", "until", "abort", "goto", "gosub",
            "return", "for", "next", "end", "doline", "input"}
Number == MinInt .. MaxInt

\* Assignments to a number: x = <to>, x = INPLEN(<len>), x = ERR(<which>).
Assignments ==
  [op : {"let"}, var : Vars, to : Number]
    \union [op : {"inplen"}, var : Vars, len : Nat]
    \union [op : {"err"}, var : Vars, which : {0, 1}]

\* "other" is any statement that assigns no number.
IsStatement(s) ==
  \/ s \in [op : {"other", "repeat", "until", "return", "end"}]
  \/ s \in Assignments
  \/ s \in [op : {"input"}, inplen : Nat]
  \/ s \in [op : {"onerror", "abort", "goto", "gosub"}, label : Nat]
  \/ s \in [op : {"if"}, then : Nat, else : Nat \union {NEXTLINEOFFSET}]
  \/ s \in [op : {"for"}, var : Vars, from : Number, to : Number, step : Number]
  \/ s \in [op : {"next"}, var : Vars]
  \/ s \in [op : {"doline"}, var : Vars,
            inner : [op : {"other"} \union Control] \union Assignments]

ASSUME ProgramsAssumption ==
  \A p \in Programs :
    Len(p) \in Nat \ {0} /\ \A n \in 1 .. Len(p) : IsStatement(p[n])

Lines == 1 .. Len(program)
EndOfText == Len(program) + 1
statement == program[curoffset]
Wrap(n) == MinInt + ((n - MinInt) % (MaxInt - MinInt + 1))

-----------------------------------------------------------------------------
(* setup, cleanup and the tail of mainloop *)

Init ==
  /\ program \in Programs
  /\ outcome = "running"
  /\ curoffset = 1 /\ erroroffset = ENDPROGRAMOFFSET
  /\ onerroroffset = ENDPROGRAMOFFSET /\ lasterrorflag = NoError
  /\ gosubstack = <<>> /\ repeatstack = <<>> /\ forstack = <<>>
  /\ value = [v \in Vars |-> 0] /\ svalue = <<>>
  /\ curinputptr = NoBuffer /\ curinputmax = InputMax
  /\ typed = <<>>

\* A new run of the program, after the one before it ended (cleanup, setup).
Setup ==
  /\ outcome # "running"
  /\ outcome' = "running"
  /\ curoffset' = 1 /\ erroroffset' = ENDPROGRAMOFFSET
  /\ onerroroffset' = ENDPROGRAMOFFSET /\ lasterrorflag' = NoError
  /\ gosubstack' = <<>> /\ repeatstack' = <<>> /\ forstack' = <<>>
  /\ value' = [v \in Vars |-> 0] /\ svalue' = <<>>
  /\ curinputptr' = NoBuffer /\ curinputmax' = InputMax
  /\ typed' = <<>>
  /\ UNCHANGED program

\* The user stops the run; cleanup frees an INPUT in progress.
Stop ==
  /\ outcome = "running"
  /\ outcome' = "stopped"
  /\ curinputptr' = NoBuffer
  /\ UNCHANGED <<program, registers, stacks, value, curinputmax, svalue, typed>>

\* seterror: of the errors of one statement the first is kept.
First(e1, e2) == IF e1 # NoError THEN e1 ELSE e2

getnextline(o) == IF o \in 1 .. Len(program) THEN o + 1 ELSE o

\* getlabel, findline: where a label is, and the error a missing one sets.
getlabel(l) == IF l \in Lines THEN l ELSE LINENOTFOUNDOFFSET
LabelError(l) == IF l \in Lines THEN NoError ELSE "NOLABEL"

\* What the end of mainloop is given: Scuroffset and the error registers as
\* the statement left them, its answer, and Serrorflag.
Registers == [at |-> curoffset, errat |-> erroroffset,
              handler |-> onerroroffset, last |-> lasterrorflag]

Goes(to, how) == curoffset' = to /\ outcome' = how

Proceeds(at, answer) ==
  \/ /\ answer = NEXTLINEOFFSET
     /\ Goes(getnextline(at),
             IF getnextline(at) \in Lines THEN "running" ELSE "ended")
  \/ answer = ENDPROGRAMOFFSET /\ Goes(at, "ended")
  \/ answer = LINENOTFOUNDOFFSET /\ Goes(at, "line not found")
  \/ answer >= 1 /\ Goes(answer, "running")

Traps(handler, e) == handler # ENDPROGRAMOFFSET /\ e # OutOfMemory

\* e is what Serrorflag says when the statement is over.
Turn(r, answer, e) ==
  /\ IF e = NoError
     THEN /\ Proceeds(r.at, answer)
          /\ erroroffset' = r.errat /\ lasterrorflag' = r.last
          /\ onerroroffset' = r.handler
     ELSE /\ erroroffset' = r.at /\ lasterrorflag' = e
          /\ IF Traps(r.handler, e)
             THEN Proceeds(r.at, r.handler) /\ onerroroffset' = ENDPROGRAMOFFSET
             ELSE Goes(r.at, "error") /\ onerroroffset' = r.handler
  /\ UNCHANGED program

\* The ordinary end of a turn: no register touched.
Then(answer, e) == Turn(Registers, answer, e)

At(op) ==
  outcome = "running" /\ curoffset \in Lines /\ statement.op = op

-----------------------------------------------------------------------------
(* Statements that leave the stacks alone *)

\* line() at the NUL, where a RETURN or UNTIL of the last line can lead.
AtEndOfText ==
  /\ outcome = "running" /\ curoffset = EndOfText
  /\ Then(NEXTLINEOFFSET, NoError)
  /\ UNCHANGED <<stacks, value, input>>

\* A statement that ends in the statement's EOS test, whatever it does else.
Other ==
  /\ At("other")
  /\ \E e \in ExprErrors : Then(NEXTLINEOFFSET, e)
  /\ UNCHANGED <<stacks, value, input>>

\* The variables after an assignment whose expression left error e: with an
\* error in it, and where it is INPLEN or ERR, it may be worth anything.
Assigned(s, e) ==
  {[value EXCEPT ![s.var] = n] :
     n \in IF s.op = "let" /\ e = NoError THEN {s.to} ELSE Number}

Let ==
  /\ At("let")
  /\ \E e \in ExprErrors : Then(NEXTLINEOFFSET, e) /\ value' \in Assigned(statement, e)
  /\ UNCHANGED <<stacks, input>>

MAXINPLEN == 10000
InputSize(len) == len \in 1 .. MAXINPLEN

\* x = INPLEN(len): the next INPUT allocates its buffer anew.
Inplen ==
  /\ At("inplen")
  /\ IF InputSize(statement.len)
     THEN Then(NEXTLINEOFFSET, NoError) /\ curinputmax' = statement.len
     ELSE Then(NEXTLINEOFFSET, "BADVALUE") /\ UNCHANGED curinputmax
  /\ value' \in Assigned(statement, NoError)
  /\ curinputptr' = NoBuffer
  /\ UNCHANGED <<stacks, svalue, typed>>

\* x = ERR(which)
ErrCleared(which) == IF which = 0
  THEN [Registers EXCEPT !.last = NoError]
  ELSE [Registers EXCEPT !.errat = ENDPROGRAMOFFSET]

Err ==
  /\ At("err")
  /\ Turn(ErrCleared(statement.which), NEXTLINEOFFSET, NoError)
  /\ value' \in Assigned(statement, NoError)
  /\ UNCHANGED <<stacks, input>>

\* Mutant: a label that is missing is stored all the same.
FaultyOnError ==
  /\ At("onerror")
  /\ Turn([Registers EXCEPT !.handler = getlabel(statement.label)],
          NEXTLINEOFFSET, LabelError(statement.label))
  /\ UNCHANGED <<stacks, value, input>>

OnError ==
  /\ At("onerror")
  /\ IF statement.label = NoLabel
     THEN Turn([Registers EXCEPT !.handler = ENDPROGRAMOFFSET],
               NEXTLINEOFFSET, NoError)
     ELSE IF statement.label \in Lines
     THEN Turn([Registers EXCEPT !.handler = statement.label],
               NEXTLINEOFFSET, NoError)
     ELSE Then(NEXTLINEOFFSET, LabelError(statement.label))
  /\ UNCHANGED <<stacks, value, input>>

If ==
  /\ At("if")
  /\ \E condition \in BOOLEAN, e \in ExprErrors :
       Then(IF condition THEN getlabel(statement.then)
            ELSE IF statement.else = NEXTLINEOFFSET THEN NEXTLINEOFFSET
            ELSE getlabel(statement.else),
            First(First(e, LabelError(statement.then)),
                  IF statement.else = NEXTLINEOFFSET THEN NoError
                  ELSE LabelError(statement.else)))
  /\ UNCHANGED <<stacks, value, input>>

Goto ==
  /\ At("goto")
  /\ Then(getlabel(statement.label), LabelError(statement.label))
  /\ UNCHANGED <<stacks, value, input>>

End ==
  /\ At("end")
  /\ Then(ENDPROGRAMOFFSET, NoError)
  /\ UNCHANGED <<stacks, value, input>>

\* DOLINE s$,x runs the line in s$ with control statements refused, under
\* an error trap of its own, and puts the error code in x.
DolineError(inner, e) ==
  IF inner.op \in Control THEN "SYNTAX"
  ELSE First(e, IF inner.op = "inplen" /\ ~InputSize(inner.len) THEN "BADVALUE"
                ELSE NoError)

\* The numbers an error may be reported by.
Codes(e) == IF e = NoError THEN {0} ELSE 1 .. MaxInt

\* The variables after the inner line, where a new one may find no memory.
AfterInner(inner, e) ==
  (IF inner \in Assignments THEN Assigned(inner, e) ELSE {})
  \union (IF inner \in Assignments /\ e # OutOfMemory THEN {} ELSE {value})

\* Mutant: the ONERROR label saved before the inner line is not put back.
FaultyDoline ==
  /\ At("doline")
  /\ \E e \in ExprErrors :
       Turn([Registers EXCEPT !.handler = ENDPROGRAMOFFSET], NEXTLINEOFFSET,
            IF e = OutOfMemory THEN e ELSE NoError)
  /\ UNCHANGED <<stacks, value, input>>

\* No line to run: an error in s$, or no memory for its tokens.
DolineFails ==
  /\ \E e \in ExprErrors \ {NoError} : Then(NEXTLINEOFFSET, e)
  /\ UNCHANGED <<value, curinputmax>>

\* e is the error of an expression of the inner line, f one of x itself.
DolineRuns(inner, e, f) ==
  /\ Turn([Registers EXCEPT
            !.last = IF inner.op = "err" /\ inner.which = 0 THEN NoError ELSE @],
          NEXTLINEOFFSET,
          First(IF DolineError(inner, e) = OutOfMemory THEN OutOfMemory ELSE NoError, f))
  /\ \E after \in AfterInner(inner, e), answer \in Codes(DolineError(inner, e)) :
       value' = IF f = NoError THEN [after EXCEPT ![statement.var] = answer] ELSE after
  /\ curinputmax' = IF inner.op = "inplen" /\ DolineError(inner, e) = NoError
                    THEN inner.len ELSE curinputmax

Doline ==
  /\ At("doline")
  /\ \/ DolineFails
     \/ \E e \in ExprErrors, f \in {NoError, "BADTYPE", OutOfMemory} :
          DolineRuns(statement.inner, e, f)
  /\ UNCHANGED <<stacks, curinputptr, svalue, typed>>

-----------------------------------------------------------------------------
(* INPUT: the statement is run again for every key until RETURN *)

\* input_handler on a key that is not RETURN.
Edited(text, key, max) ==
  IF key = "BS"
  THEN IF text = <<>> THEN text ELSE SubSeq(text, 1, Len(text) - 1)
  ELSE IF key \in Chars /\ Len(text) < max THEN Append(text, key) ELSE text

Buffer == IF curinputptr = NoBuffer THEN <<>> ELSE curinputptr

InputNoMemory ==
  /\ At("input") /\ curinputptr = NoBuffer
  /\ Then(NEXTLINEOFFSET, OutOfMemory)
  /\ UNCHANGED <<stacks, value, input>>

InputKey ==
  /\ At("input")
  /\ \E key \in Chars \union {"BS", "no key"} :
       /\ key # "no key" => Len(typed) < MaxTyped
       /\ curinputptr' = Edited(Buffer, key, curinputmax)
       /\ typed' = IF key = "no key" THEN typed ELSE Append(typed, key)
  /\ Then(curoffset, NoError)
  /\ UNCHANGED <<stacks, value, curinputmax, svalue>>

\* Mutant: the buffer is freed only when the line was stored.
FaultyInputReturn ==
  /\ At("input")
  /\ \E e \in {NoError, "NOSUCHVARIABLE"} :
       /\ Then(NEXTLINEOFFSET, e)
       /\ svalue' = IF e = NoError THEN Buffer ELSE svalue
       /\ curinputptr' = IF e = NoError THEN NoBuffer ELSE Buffer
  /\ typed' = <<>>
  /\ UNCHANGED <<stacks, value, curinputmax>>

\* Mutant: the terminating 0 is written over the last character.
FaultyInputEnd ==
  /\ At("input")
  /\ Then(NEXTLINEOFFSET, NoError)
  /\ svalue' = SubSeq(Buffer, 1, Len(Buffer) - 1)
  /\ curinputptr' = NoBuffer /\ typed' = <<>>
  /\ UNCHANGED <<stacks, value, curinputmax>>

\* RETURN: doinput stores the text, here in a string (an INPUT of a number
\* is left out).  A subscript of the variable may call INPLEN, which frees
\* the buffer before doinput looks at it.
InputReturn ==
  /\ At("input")
  /\ \E e \in {NoError, "NOSUCHVARIABLE", OutOfMemory} :
       IF e # NoError \/ statement.inplen # 0
       THEN /\ Then(NEXTLINEOFFSET, First(e, "BADVALUE"))
            /\ svalue' = IF e = OutOfMemory THEN <<>> ELSE svalue
       ELSE Then(NEXTLINEOFFSET, NoError) /\ svalue' = Buffer
  /\ curinputmax' = IF InputSize(statement.inplen) THEN statement.inplen ELSE curinputmax
  /\ curinputptr' = NoBuffer /\ typed' = <<>>
  /\ UNCHANGED <<stacks, value>>

-----------------------------------------------------------------------------
(* Subroutines and loops *)

Gosub ==
  /\ At("gosub")
  /\ IF Len(gosubstack) >= MaxGosub
     THEN /\ Then(ENDPROGRAMOFFSET,
                  First(LabelError(statement.label), "TOOMANYGOSUB"))
          /\ UNCHANGED gosubstack
     ELSE /\ Then(getlabel(statement.label), LabelError(statement.label))
          /\ gosubstack' = Append(gosubstack, getnextline(curoffset))
  /\ UNCHANGED <<repeatstack, forstack, value, input>>

Top(stack) == stack[Len(stack)]
Pop(stack) == SubSeq(stack, 1, Len(stack) - 1)

Return ==
  /\ At("return")
  /\ IF gosubstack = <<>>
     THEN Then(ENDPROGRAMOFFSET, "NORETURN") /\ UNCHANGED gosubstack
     ELSE Then(Top(gosubstack), NoError) /\ gosubstack' = Pop(gosubstack)
  /\ UNCHANGED <<repeatstack, forstack, value, input>>

Abort ==
  /\ At("abort")
  /\ Then(getlabel(statement.label), LabelError(statement.label))
  /\ gosubstack' = <<>> /\ repeatstack' = <<>> /\ forstack' = <<>>
  /\ UNCHANGED <<value, input>>

\* Mutant: the loop is entered again at the REPEAT itself.
FaultyRepeat ==
  /\ At("repeat")
  /\ IF Len(repeatstack) >= MaxRepeats
     THEN Then(ENDPROGRAMOFFSET, "TOOMANYREPEAT") /\ UNCHANGED repeatstack
     ELSE /\ Then(NEXTLINEOFFSET, NoError)
          /\ repeatstack' = Append(repeatstack, curoffset)
  /\ UNCHANGED <<gosubstack, forstack, value, input>>

Repeat ==
  /\ At("repeat")
  /\ IF Len(repeatstack) >= MaxRepeats
     THEN Then(ENDPROGRAMOFFSET, "TOOMANYREPEAT") /\ UNCHANGED repeatstack
     ELSE /\ Then(NEXTLINEOFFSET, NoError)
          /\ repeatstack' = Append(repeatstack, getnextline(curoffset))
  /\ UNCHANGED <<gosubstack, forstack, value, input>>

Until ==
  /\ At("until")
  /\ \E condition \in BOOLEAN, e \in ExprErrors :
       IF repeatstack = <<>>
       THEN Then(ENDPROGRAMOFFSET, First(e, "NOREPEAT")) /\ UNCHANGED repeatstack
       ELSE IF condition
       THEN Then(NEXTLINEOFFSET, e) /\ repeatstack' = Pop(repeatstack)
       ELSE Then(Top(repeatstack), e) /\ UNCHANGED repeatstack
  /\ UNCHANGED <<gosubstack, forstack, value, input>>

Past(n, to, step) == (step < 0 /\ n < to) \/ (step > 0 /\ n > to)

\* The NEXT a search from the current line finds: the first of a variable.
FirstNext(v) ==
  {n \in Lines : /\ n > curoffset /\ program[n].op = "next" /\ program[n].var = v
                 /\ \A m \in Lines : m > curoffset /\ m < n =>
                      ~(program[m].op = "next" /\ program[m].var = v)}

ForPushes(to, step, e) ==
  /\ Then(NEXTLINEOFFSET, e)
  /\ forstack' = Append(forstack,
       [id |-> statement.var, nextoffset |-> getnextline(curoffset),
        step |-> step, toval |-> to])

\* Mutant: the run goes on at the NEXT, not after it.
FaultyForSkips(e) ==
  /\ \/ \E n \in FirstNext(statement.var) :
          Turn([Registers EXCEPT !.at = n], n, NoError)
     \/ /\ FirstNext(statement.var) = {}
        /\ Turn([Registers EXCEPT !.at = EndOfText], ENDPROGRAMOFFSET, "NONEXT")
  /\ UNCHANGED forstack

\* The search clears errorflag at every line it reads and leaves Scuroffset
\* where it stopped.
ForSkips(e) ==
  /\ \/ \E n \in FirstNext(statement.var) :
          Turn([Registers EXCEPT !.at = n], getnextline(n), NoError)
     \/ /\ FirstNext(statement.var) = {}
        /\ \E found \in {First(IF curoffset = Len(program) THEN e ELSE NoError,
                               "NONEXT")} :
             Turn([Registers EXCEPT !.at = EndOfText], ENDPROGRAMOFFSET, found)
  /\ UNCHANGED forstack

\* The variable is assigned before the stack is looked at.  An expression
\* with an error in it may be worth anything.
For ==
  /\ At("for")
  /\ \E e \in ExprErrors, n \in {statement.from, MinInt, MaxInt},
       to \in {statement.to, 0}, step \in {statement.step, 0} :
       /\ e = NoError =>
            n = statement.from /\ to = statement.to /\ step = statement.step
       /\ value' = [value EXCEPT ![statement.var] = n]
       /\ \/ /\ Len(forstack) >= MaxFors
             /\ Then(ENDPROGRAMOFFSET, First(e, "TOOMANYFORS"))
             /\ UNCHANGED forstack
          \/ Len(forstack) < MaxFors /\ Past(n, to, step) /\ ForSkips(e)
          \/ Len(forstack) < MaxFors /\ ~Past(n, to, step) /\ ForPushes(to, step, e)
  /\ UNCHANGED <<gosubstack, repeatstack, input>>

\* No memory for the variable, which is added when it is new.
NoVariable ==
  /\ \/ At("for") \/ At("let") \/ At("inplen") \/ At("err")
     \/ At("next") /\ forstack # <<>>
  /\ Then(ENDPROGRAMOFFSET, OutOfMemory)
  /\ UNCHANGED <<stacks, value, input>>

\* Mutant: the step is added to a copy of the variable.
FaultyNext1 ==
  /\ At("next")
  /\ IF forstack = <<>> \/ Top(forstack).id # statement.var
     THEN Then(ENDPROGRAMOFFSET, "NOFOR") /\ UNCHANGED forstack
     ELSE IF Past(value[statement.var] + Top(forstack).step,
                  Top(forstack).toval, Top(forstack).step)
     THEN Then(NEXTLINEOFFSET, NoError) /\ forstack' = Pop(forstack)
     ELSE Then(Top(forstack).nextoffset, NoError) /\ UNCHANGED forstack
  /\ UNCHANGED <<gosubstack, repeatstack, value, input>>

\* Only the innermost FOR can be continued.
Next1 ==
  /\ At("next")
  /\ IF forstack = <<>> \/ Top(forstack).id # statement.var
     THEN Then(ENDPROGRAMOFFSET, "NOFOR") /\ UNCHANGED <<forstack, value>>
     ELSE \E n \in {Wrap(value[statement.var] + Top(forstack).step)} :
       /\ value' = [value EXCEPT ![statement.var] = n]
       /\ IF Past(n, Top(forstack).toval, Top(forstack).step)
          THEN Then(NEXTLINEOFFSET, NoError) /\ forstack' = Pop(forstack)
          ELSE Then(Top(forstack).nextoffset, NoError) /\ UNCHANGED forstack
  /\ UNCHANGED <<gosubstack, repeatstack, input>>

-----------------------------------------------------------------------------
mainloop ==
  \/ AtEndOfText \/ Other \/ Let \/ Inplen \/ Err \/ OnError \/ If \/ Goto \/ End
  \/ Doline \/ InputNoMemory \/ InputKey \/ InputReturn
  \/ Gosub \/ Return \/ Abort \/ Repeat \/ Until \/ NoVariable
  \/ For \/ Next1

Next == mainloop \/ Setup \/ Stop

Spec == Init /\ [][Next]_vars

\* The run loop of main.c calls mainloop again and again.
FairSpec == Spec /\ WF_vars(mainloop)

-----------------------------------------------------------------------------
(* What the program text says about blocks *)

Opens == {"for", "repeat"}
Closes == {"next", "until"}
Openers(p) == {n \in 1 .. Len(p) : p[n].op \in Opens}
Closers(p) == {n \in 1 .. Len(p) : p[n].op \in Closes}

\* f gives every FOR its NEXT and every REPEAT its UNTIL: blocks that nest,
\* each FOR in another with a variable of its own.
Brackets(p, f) ==
  /\ \A c \in Closers(p) : \E o \in Openers(p) : f[o] = c
  /\ \A o \in Openers(p) :
       /\ o < f[o]
       /\ IF p[o].op = "repeat" THEN p[f[o]].op = "until"
          ELSE p[f[o]].op = "next" /\ p[f[o]].var = p[o].var
  /\ \A o1, o2 \in Openers(p) : o1 < o2 /\ o2 < f[o1] =>
       /\ f[o2] < f[o1]
       /\ p[o1].op = "for" /\ p[o2].op = "for" => p[o1].var # p[o2].var

Jumps == {"goto", "gosub", "return", "if", "onerror", "abort"}
Structured(p) ==
  /\ \A n \in 1 .. Len(p) : p[n].op \notin Jumps
  /\ \E f \in [Openers(p) -> Closers(p)] : Brackets(p, f)

\* The lines of the blocks of one kind around line n.
Enclosing(p, op, n) ==
  LET f == CHOOSE g \in [Openers(p) -> Closers(p)] : Brackets(p, g)
  IN {o \in Openers(p) : p[o].op = op /\ o < n /\ n <= f[o]}

\* The numbers of a set, the smallest first.
Ascends(s, S) ==
  /\ {s[i] : i \in 1 .. Len(s)} = S
  /\ \A i, j \in 1 .. Len(s) : i < j => s[i] < s[j]

\* An assignment of variable v, that of a DOLINE's answer or in the line it
\* runs included.
Assigns(s, v) ==
  \/ s \in Assignments /\ s.var = v
  \/ s.op = "doline" /\ (s.var = v \/ (s.inner \in Assignments /\ s.inner.var = v))

\* A structured program whose FOR loops have a last turn: the step moves,
\* the number past the end is a number, and only FOR and NEXT assign the
\* variable.
Finite(p) ==
  /\ Structured(p)
  /\ \A n \in 1 .. Len(p) :
       /\ p[n].op \notin {"repeat", "input"}
       /\ p[n].op = "for" =>
            /\ p[n].step # 0
            /\ p[n].to + p[n].step \in Number
            /\ \A m \in 1 .. Len(p) : ~Assigns(p[m], p[n].var)

\* What a line editor makes of some keys.
AsTyped(keys) ==
  LET text[n \in 0 .. Len(keys)] ==
        IF n = 0 THEN <<>> ELSE Edited(text[n - 1], keys[n], curinputmax)
  IN text[Len(keys)]

-----------------------------------------------------------------------------
(* Properties *)

\* Offsets, stacks and the input buffer keep their shape: no stack is
\* longer than its array, every offset a line, the NUL or one of the marks.
Offset == 1 .. EndOfText
Frame == [id : Vars, nextoffset : Offset, step : Number, toval : Number]
TypeOK ==
  /\ program \in Programs
  /\ outcome \in {"running", "ended", "error", "stopped", "line not found"}
  /\ curoffset \in Offset
  /\ erroroffset \in Offset \union {ENDPROGRAMOFFSET}
  /\ onerroroffset \in Lines \union {ENDPROGRAMOFFSET}
  /\ gosubstack \in Seq(Offset) /\ Len(gosubstack) <= MaxGosub
  /\ repeatstack \in Seq(Offset) /\ Len(repeatstack) <= MaxRepeats
  /\ forstack \in Seq(Frame) /\ Len(forstack) <= MaxFors
  /\ value \in [Vars -> Number]
  /\ svalue \in Seq(Chars)
  /\ curinputptr \in Seq(Chars) \union {NoBuffer}
  /\ curinputmax \in Nat

\* Whatever jumps, errors and DOLINEs came between, a frame leads to the
\* line after a statement of its kind, the frame of a FOR to the line after
\* a FOR of its variable (dogosub, dorepeat, dofor).
FramesFollowTheirStatements ==
  /\ \A i \in 1 .. Len(gosubstack) : \E n \in Lines :
       program[n].op = "gosub" /\ gosubstack[i] = n + 1
  /\ \A i \in 1 .. Len(repeatstack) : \E n \in Lines :
       program[n].op = "repeat" /\ repeatstack[i] = n + 1
  /\ \A i \in 1 .. Len(forstack) : \E n \in Lines :
       /\ program[n].op = "for" /\ forstack[i].id = program[n].var
       /\ forstack[i].nextoffset = n + 1

\* mainloop never gets to "line not found from": a label that is missing is
\* an error first, and no stack or register keeps the mark of one.
NoStrayLine == outcome # "line not found"

\* The lines of the loops on the stacks, the innermost last.
ForLines == [i \in 1 .. Len(forstack) |-> forstack[i].nextoffset - 1]
RepeatLines == [i \in 1 .. Len(repeatstack) |-> repeatstack[i] - 1]

\* In a program without jumps the FOR and REPEAT stacks are at every
\* statement exactly the loops written around it, a FOR skipped because its
\* range is empty included (dofor's search for the NEXT).
FramesAreBlocks ==
  outcome = "running" /\ Structured(program) =>
    /\ Ascends(ForLines, Enclosing(program, "for", curoffset))
    /\ Ascends(RepeatLines, Enclosing(program, "repeat", curoffset))

\* The buffer of INPUT exists only while the run stands at an INPUT, and
\* holds what was typed since that INPUT began: nothing of an earlier one
\* that failed or was stopped shows up (line, doinput, num_inplen).
InputIsAsTyped ==
  curinputptr # NoBuffer =>
    /\ outcome = "running" /\ curoffset \in Lines /\ statement.op = "input"
    /\ curinputptr = AsTyped(typed)

\* INPUT stores what was typed; nothing else writes the variable in a run.
InputStoresTheLine ==
  [][svalue' # svalue /\ svalue' # <<>> => svalue' = AsTyped(typed)]_vars

\* DOLINE leaves control where it was: the stacks and the ONERROR label,
\* which only an error of DOLINE itself can use up.
DolineKeepsControl ==
  [][outcome = "running" /\ curoffset \in Lines /\ statement.op = "doline"
       /\ outcome' = "running" =>
     /\ UNCHANGED stacks
     /\ \/ UNCHANGED onerroroffset /\ curoffset' = curoffset + 1
        \/ curoffset' = onerroroffset /\ lasterrorflag' # NoError
     /\ erroroffset' \in {erroroffset, curoffset}]_vars

\* basic-commands.md on FOR: the loop runs "until it reaches <end>".  A
\* program of FOR loops whose counters cannot wrap, and which nothing else
\* assigns, comes to its end.
LoopsEnd == outcome = "running" /\ Finite(program) ~> outcome # "running"

=============================================================================
