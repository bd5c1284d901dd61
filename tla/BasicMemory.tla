----------------------------- MODULE BasicMemory -----------------------------
(***************************************************************************)
(* The memory of a running BASIC program (basic.c): the tables of          *)
(* variables and arrays, the strings they own, open files, the line being  *)
(* typed, and the strings an expression makes and frees on its way.        *)
(*                                                                         *)
(* The interpreter evaluates as it parses, by recursive descent: stack is  *)
(* its C stack, one frame for each statement or function that waits for a  *)
(* part of its expression, with the strings it holds.  A function that     *)
(* holds nothing while it evaluates has no frame.  What the next token is  *)
(* is left open, so every expression occurs that fits into MaxDepth        *)
(* frames; so is the text a function makes.  Any expression may set the    *)
(* error flag, after which the parse goes on, and any malloc may fail.     *)
(* Where the code has no defined outcome, at a DIM of no elements with     *)
(* initialisers and at a string name of more than IDLENGTH - 1 characters, *)
(* the run ends as "wild" and nothing is said of it any more.              *)
(***************************************************************************)
EXTENDS Integers, SequencesExt

CONSTANTS
  Blocks,       \* what malloc may hand out
  Null,
  Names,        \* scalar variables, numbers in the order of strcasecmp
  StringNames,  \* those whose name ends in $
  Arrays,       \* arrays, numbers as well
  StringArrays,
  Chunk,        \* 1 << NEXTLG: the tables grow by this many entries
  FATPTRNUM,
  Texts,        \* contents of strings
  Unset,        \* what a pointer to no string shows
  MaxSize,      \* bound: elements of an array
  MaxDepth      \* bound: frames on the C stack

ASSUME NamesAssumption ==
  /\ Names \subseteq Nat \ {0} /\ StringNames \subseteq Names
  /\ Arrays \subseteq Nat \ {0} /\ StringArrays \subseteq Arrays
ASSUME MemoryAssumption ==
  /\ Null \notin Blocks /\ Unset \notin Texts
  /\ Chunk \in Nat \ {0} /\ FATPTRNUM \in Nat
  /\ MaxSize \in Nat /\ MaxDepth \in Nat

VARIABLES
  outcome,      \* "idle", "running", or "wild" where the code is undefined
  heap,         \* the blocks in use, and what each holds
  variables,    \* Svariables: a sequence of [id, sval]
  vartable,     \* the block it is in
  dimvariables, \* Sdimvariables: a sequence of [id, data, str]
  dimtable,     \* the block it is in
  labels,       \* Slabels
  files,        \* Sfatptrs
  curinputptr,
  stack,        \* the C stack
  Serrorflag,   \* the first error of the statement
  lost          \* history: blocks nothing points to any more

tables == <<variables, vartable, dimvariables, dimtable>>
system == <<outcome, labels, files, curinputptr, lost>>
vars == <<tables, system, heap, stack, Serrorflag>>

NoError == "none"
OutOfMemory == "memory"
First(e, f) == IF e = NoError THEN f ELSE e     \* seterror
seterror(f) == Serrorflag' = First(Serrorflag, f)
Errors == {NoError, "error"}   \* what a part of an expression may set

Pointers(s) == {s[i] : i \in DOMAIN s}
NoAddress == [block |-> Null, index |-> 0]
NoFile == [ftype |-> "none", ptr |-> Null]

Top == stack[Len(stack)]
Under == SubSeq(stack, 1, Len(stack) - 1)
Call(fn, args) == [fn |-> fn, args |-> args]
\* The frame of a line of DOLINE does not count.
Room(s) == Len(SelectSeq(s, LAMBDA f : f.fn \notin {"line", "line done"})) < MaxDepth
In(fn) == outcome = "running" /\ stack # <<>> /\ Top.fn = fn

\* Strings a statement or function may evaluate before it acts.  Which
\* function it is shows only then: until it has its strings it is one that
\* answers with a string ("$") or with a number ("#").
MaxArgs(fn) ==
  IF fn \in {"LET", "MID", "PRINT", "DIM", "DOLINE"} THEN 1
  ELSE IF fn \in {"PLUS", "$", "#"} THEN 2
  ELSE 0    \* lvalue, INPUT, "DIM,", "line", "line done"

Wants == outcome = "running" /\ stack # <<>> /\ Len(Top.args) < MaxArgs(Top.fn)
Has(fn, n) == In(fn) /\ Len(Top.args) = n
arg == Top.args

-----------------------------------------------------------------------------
(* The heap *)

Named ==
  (UNION {Pointers(f.args) : f \in Pointers(stack)})
    \union (UNION {Pointers(d.str) : d \in Pointers(dimvariables)})
    \union {v.sval : v \in Pointers(variables)}
    \union {d.data : d \in Pointers(dimvariables)}
    \union {f.ptr : f \in Pointers(files)}
    \union {vartable, dimtable, labels, curinputptr}

\* A freed block that something still points to may be handed out again; of
\* those nothing points to, one will do.
Spare(h) ==
  LET free == Blocks \ DOMAIN h
      new == free \ Named
  IN  (free \intersect Named)
        \union (IF new = {} THEN {} ELSE {CHOOSE b \in new : TRUE})

\* What a block is for: a string, or a table with room for so many entries.
Text(t) == [text |-> t]
Table(n) == [room |-> n]
Other == [room |-> 0]
IsText(h, p) == p \in DOMAIN h /\ "text" \in DOMAIN h[p]

Put(h, b, t) == [c \in DOMAIN h \union {b} |-> IF c = b THEN t ELSE h[c]]
free(h, ps) == [c \in DOMAIN h \ ps |-> h[c]]

\* What malloc and realloc may return, and the heap they leave.
malloc(h, t) ==
  {[p |-> Null, h |-> h]} \union {[p |-> b, h |-> Put(h, b, t)] : b \in Spare(h)}
realloc(h, p, t) ==
  IF p = Null THEN malloc(h, t)
  ELSE {[p |-> Null, h |-> h], [p |-> p, h |-> Put(h, p, t)]}
         \union {[p |-> b, h |-> Put(free(h, {p}), b, t)] : b \in Spare(h)}

createstringarray(h) == UNION {malloc(h, Text(t)) : t \in Texts}

\* What it reads where there is no string may be anything.
stringarraydup(h, p) ==
  IF IsText(h, p) THEN malloc(h, h[p]) ELSE createstringarray(h)

-----------------------------------------------------------------------------
(* The tables                                                              *)

\* findvariable, finddimvar: binary search, and where a new entry belongs.
Middle(r) == (r[1] + r[2]) \div 2
findvariable(s, id) ==
  LET search[r \in (1 .. Len(s) + 1) \X (0 .. Len(s))] ==
        IF r[1] > r[2] THEN [found |-> FALSE, at |-> r[1]]
        ELSE IF s[Middle(r)].id > id THEN search[<<r[1], Middle(r) - 1>>]
        ELSE IF s[Middle(r)].id < id THEN search[<<Middle(r) + 1, r[2]>>]
        ELSE [found |-> TRUE, at |-> Middle(r)]
  IN  search[<<1, Len(s)>>]
finddimvar(id) == findvariable(dimvariables, id)

\* Mutant: no room for the entries of the last chunk.
FaultyNextlargest(n) == (n \div Chunk) * Chunk
nextlargest(n) == ((n + Chunk - 1) \div Chunk) * Chunk

\* addnewvar, adddimvar: the table s in block t, with an entry more.
addnewvar(h, s, t, entry) ==
  LET new == InsertAt(s, findvariable(s, entry.id).at, entry)
  IN  IF nextlargest(Len(s)) = nextlargest(Len(new))
      THEN {[ok |-> TRUE, s |-> new, t |-> t, h |-> h]}
      ELSE {IF m.p = Null THEN [ok |-> FALSE, s |-> s, t |-> t, h |-> m.h]
            ELSE [ok |-> TRUE, s |-> new, t |-> m.p, h |-> m.h]
              : m \in realloc(h, t, Table(nextlargest(Len(new))))}

\* lvalue of a scalar: it is added if it is not there.
scalar(h, n) ==
  IF findvariable(variables, n).found
  THEN {[ok |-> TRUE, s |-> variables, t |-> vartable, h |-> h]}
  ELSE addnewvar(h, variables, vartable, [id |-> n, sval |-> Null])

-----------------------------------------------------------------------------
(* stringexpr: what is left on s when an operand of value p has been       *)
(* parsed.  A + may follow, for which it calls itself.                     *)

Give(s, p) == [s EXCEPT ![Len(s)].args = Append(@, p)]

Answer(s, p, h, e) ==
  /\ heap' = h
  /\ IF p = Null
     THEN stack' = Give(s, Null) /\ seterror(First(e, OutOfMemory))
     ELSE /\ seterror(e)
          /\ \/ stack' = Give(s, p)
             \/ Room(s) /\ stack' = Append(s, Call("PLUS", <<p>>))
  /\ UNCHANGED <<tables, system>>

\* stringarrayconcat and the rest of stringexpr.
concat ==
  /\ Has("PLUS", 2)
  /\ \E m \in IF arg[2] = Null THEN {[p |-> Null, h |-> heap]}
              ELSE createstringarray(heap) :
       IF m.p = Null
       THEN /\ stack' = Give(Under, arg[1]) /\ seterror(OutOfMemory)
            /\ heap' = free(m.h, {arg[2]})
       ELSE /\ stack' = Give(Under, m.p) /\ UNCHANGED Serrorflag
            /\ heap' = free(m.h, {arg[1], arg[2]})
  /\ UNCHANGED <<tables, system>>

(* Operands.  An error one of them meets is that of expr, below.           *)
\* A piece of a literal may have no room, with or without one before.
stringliteral ==
  Wants /\ \E m \in createstringarray(heap), e \in {NoError, OutOfMemory} :
    Answer(stack, m.p, m.h, e)

\* CHR$, BIN$, HEX$, STR$, ERC$.
chrstring == Wants /\ \E m \in createstringarray(heap) :
  Answer(stack, m.p, m.h, NoError)

\* SCREAD$, SERINP$, ADREAD$, WEBPST$, FREAD$, FREADL$: after an error, or
\* for no bytes, they have no string.
screadstring ==
  /\ Wants
  /\ \/ Answer(stack, Null, heap, NoError)
     \/ /\ Serrorflag = NoError
        /\ \E m \in createstringarray(heap) : Answer(stack, m.p, m.h, NoError)

stringvar == \E n \in StringNames :
  LET v == findvariable(variables, n)
  IN  /\ Wants
      /\ IF v.found
         THEN \E m \in stringarraydup(heap, variables[v.at].sval) :
                Answer(stack, m.p, m.h, NoError)
         ELSE \E m \in createstringarray(heap) : Answer(stack, m.p, m.h, "error")

\* Every subscript outside an array is one.
Outside == 0
Subscripts(a) ==
  LET v == finddimvar(a)
  IN  {Outside} \union IF v.found THEN DOMAIN dimvariables[v.at].str ELSE {}

\* An error or an element that was never assigned gives the empty string.
stringdimvar == \E a \in StringArrays : \E i \in Subscripts(a) :
  LET v == finddimvar(a)
      there == i # Outside
      p == IF there /\ Serrorflag = NoError THEN dimvariables[v.at].str[i] ELSE Null
  IN  /\ Wants
      /\ \E m \in IF p = Null THEN createstringarray(heap) ELSE stringarraydup(heap, p) :
           Answer(stack, m.p, m.h, IF there THEN NoError ELSE "error")

\* What is no string gives an empty one, without a look at what follows.
notastring ==
  /\ Wants /\ \E m \in createstringarray(heap) : stack' = Give(stack, m.p) /\ heap' = m.h
  /\ seterror("error") /\ UNCHANGED <<tables, system>>

-----------------------------------------------------------------------------
(* Functions of strings                                                    *)

\* A number may be evaluated wherever an expression is under way.
Evaluates == outcome = "running" /\ stack # <<>> /\ Top.fn \notin {"INPUT", "DIM,", "line", "line done"}
calls == \E f \in {"$", "#"} :
  /\ Evaluates /\ Room(stack) /\ (f = "$" => Wants)
  /\ stack' = Append(stack, Call(f, <<>>))
  /\ UNCHANGED <<tables, system, heap, Serrorflag>>

\* A numeric function is done, and frees ps.
Returns(ps) ==
  stack' = Under /\ heap' = free(heap, ps) /\ UNCHANGED tables

\* TRIM$, UPPER$, LEFT$, RIGHT$, MID$, STRING$, CONF$, SERI2C$, WEBESC$, FSTAT$.
trimstring ==
  /\ Has("$", 1)
  /\ IF arg[1] = Null THEN Answer(Under, Null, heap, NoError)
     ELSE \E m \in createstringarray(heap) :
            Answer(Under, m.p, free(m.h, {arg[1]}), NoError)

\* Mutant: one string is left behind when the other could not be made.
FaultyIistring ==
  /\ Has("$", 2)
  /\ IF Null \in Pointers(arg) THEN Answer(Under, Null, heap, NoError)
     ELSE \E i \in {1, 2} : Answer(Under, arg[i], free(heap, {arg[3 - i]}), NoError)
iistring ==
  /\ Has("$", 2)
  /\ IF Null \in Pointers(arg)
     THEN Answer(Under, Null, free(heap, Pointers(arg)), NoError)
     ELSE \E i \in {1, 2} : Answer(Under, arg[i], free(heap, {arg[3 - i]}), NoError)

webfrmstring ==
  /\ Has("$", 2)
  /\ \E m \in IF Null \in Pointers(arg) THEN {[p |-> Null, h |-> heap]}
              ELSE createstringarray(heap) :
       Answer(Under, m.p, free(m.h, Pointers(arg)), NoError)

\* LEN, ASCII, VAL, VALLEN, BSTR, ADWRITE, TIMESET, WEBOUT, SCWRITE, SCCON.
num_len == Has("#", 1) /\ Returns(Pointers(arg)) /\ UNCHANGED <<system, Serrorflag>>

\* INSTR; WEBMAIL does the same with five strings.
instr == Has("#", 2) /\ Returns(Pointers(arg)) /\ UNCHANGED <<system, Serrorflag>>

\* A comparison: the right side is evaluated if the left has a value and an
\* operator follows.
term1 ==
  /\ Has("#", 1) \/ Has("#", 2)
  /\ \/ arg[1] = Null /\ UNCHANGED Serrorflag
     \/ Len(arg) = 1 /\ arg[1] # Null /\ seterror("error")
     \/ Len(arg) = 2 /\ UNCHANGED Serrorflag
  /\ Returns(Pointers(arg)) /\ UNCHANGED system

\* SEROUT, SERBNG.
num_serout ==
  /\ Has("#", 1)
  /\ IF Serrorflag = NoError
     THEN Returns(Pointers(arg)) /\ UNCHANGED lost
     ELSE Returns({}) /\ lost' = lost \union (Pointers(arg) \ {Null})
  /\ UNCHANGED <<outcome, labels, files, curinputptr, Serrorflag>>

\* FDEL, FMKDIR, FWRITE.
bfdel ==
  /\ Has("#", 1) /\ Returns(Pointers(arg)) /\ UNCHANGED system
  /\ seterror(IF arg[1] = Null THEN OutOfMemory ELSE NoError)

(* Files: the first slot without one is taken, and given back if the file  *)
(* cannot be opened.                                                       *)
Opens(type) ==
  LET slots == {i \in DOMAIN files : files[i].ptr = Null}
      i == CHOOSE i \in slots : \A j \in slots : i <= j
  IN  /\ stack' = Under /\ UNCHANGED <<tables, outcome, labels, curinputptr, lost>>
      /\ seterror(IF Null \in Pointers(arg) THEN OutOfMemory ELSE NoError)
      /\ \/ UNCHANGED files /\ heap' = free(heap, Pointers(arg))
         \/ /\ Null \notin Pointers(arg) /\ Serrorflag = NoError /\ slots # {}
            /\ \E m \in malloc(heap, Other) :
                 /\ m.p # Null
                 /\ files' = [files EXCEPT ![i] = [ftype |-> type, ptr |-> m.p]]
                 /\ heap' = free(m.h, Pointers(arg))
bfopen == Has("#", 2) /\ Opens("file")
bfdirop == Has("#", 1) /\ Opens("dir")

\* FCLOSE, FDIRCL.
Closes(type) == \E i \in DOMAIN files :
  /\ Evaluates /\ Serrorflag = NoError
  /\ files[i].ftype = type /\ files[i].ptr # Null
  /\ heap' = free(heap, {files[i].ptr})
  /\ files' = [files EXCEPT ![i] = NoFile]
  /\ UNCHANGED <<tables, outcome, labels, curinputptr, lost, stack, Serrorflag>>
bfclose == Closes("file")
bfdircl == Closes("dir")

\* INPLEN drops the line being typed, an error of its own included.
num_inplen == \E e \in Errors :
  /\ Evaluates /\ curinputptr # Null
  /\ heap' = free(heap, {curinputptr}) /\ curinputptr' = Null /\ seterror(e)
  /\ UNCHANGED <<tables, outcome, labels, files, lost, stack>>

\* Mutant: a variable that is read is added to the table.
FaultyExpr == \E n \in Names \ StringNames : \E x \in scalar(heap, n) :
  /\ Evaluates /\ variables' = x.s /\ vartable' = x.t /\ heap' = x.h
  /\ UNCHANGED <<dimvariables, dimtable, system, stack, Serrorflag>>

\* Any other number, and an error in any part of an expression.
expr == Evaluates /\ Serrorflag = NoError /\ Serrorflag' = "error"
          /\ UNCHANGED <<tables, system, heap, stack>>

-----------------------------------------------------------------------------
(* Statements.  One begins where the last one ended, in the program or as  *)
(* the line of DOLINE, which has no DOLINE or INPUT in it.                 *)

InProgram == outcome = "running" /\ stack = <<>> /\ Serrorflag # OutOfMemory
InLine == In("line") /\ Room(stack)
Begins == InLine \/ (InProgram /\ curinputptr = Null /\ Room(stack))

\* mainloop clears the error; DOLINE did so for its line.
Now == IF stack = <<>> THEN NoError ELSE Serrorflag
Fails(e) == Serrorflag' = First(Now, e)

\* The line of DOLINE is done, and what evaluates its other part goes on.
Done(s) == IF s = <<>> \/ s[Len(s)].fn # "line" THEN s
           ELSE [s EXCEPT ![Len(s)].fn = "line done"]
Proceed == stack' = Done(Under)

\* PRINT, and every statement that only evaluates.
doprint ==
  /\ Begins /\ stack' = Append(stack, Call("PRINT", <<>>)) /\ Fails(NoError)
  /\ UNCHANGED <<tables, system, heap>>
Prints ==
  /\ Has("PRINT", 1) /\ heap' = free(heap, Pointers(arg))
  /\ stack' = Append(Under, Call("PRINT", <<>>))
  /\ UNCHANGED <<tables, system, Serrorflag>>
Printed == In("PRINT") /\ arg = <<>> /\ Proceed
             /\ UNCHANGED <<tables, system, heap, Serrorflag>>

\* LET of a number.
letnumber == \E n \in Names \ StringNames : \E x \in scalar(heap, n) :
  /\ Begins
  /\ variables' = x.s /\ vartable' = x.t /\ heap' = x.h
  /\ Fails(IF x.ok THEN NoError ELSE OutOfMemory)
  /\ stack' = IF x.ok THEN Append(stack, Call("PRINT", <<>>)) ELSE Done(stack)
  /\ UNCHANGED <<dimvariables, dimtable, system>>

(* LET, MID$ = and INPUT write to where lvalue says.  at is that address,  *)
(* old the string LET will free, and of the name it was given.             *)
Stands(at) ==
  IF at = NoAddress THEN Null
  ELSE IF at.block = vartable THEN variables[at.index].sval
  ELSE LET j == CHOOSE j \in DOMAIN dimvariables : dimvariables[j].data = at.block
       IN  dimvariables[j].str[at.index]

Writes(at, p) ==
  IF at.block = vartable
  THEN /\ variables' = [variables EXCEPT ![at.index].sval = p]
       /\ UNCHANGED <<vartable, dimvariables, dimtable>>
  ELSE \E j \in DOMAIN dimvariables :
         /\ dimvariables[j].data = at.block
         /\ dimvariables' = [dimvariables EXCEPT ![j].str[at.index] = p]
         /\ UNCHANGED <<variables, vartable, dimtable>>

Assigning == {"LET", "MID", "INPUT"}
MayAssign(fn) == IF fn = "INPUT" THEN InProgram /\ curinputptr # Null /\ Room(stack) ELSE Begins
To(fn, at, old, of) == [fn |-> fn, args |-> <<>>, at |-> at, old |-> old, of |-> of]

\* Without an address LET is over; the others go on to find that out.
Assigns(s, fn, at, old, of) ==
  stack' = IF at = NoAddress /\ fn = "LET" THEN Done(s)
           ELSE Append(s, To(fn, at, old, of))

lvalue == \E fn \in Assigning, n \in StringNames : \E x \in scalar(heap, n) :
  LET i == findvariable(x.s, n).at
      at == IF x.ok THEN [block |-> x.t, index |-> i] ELSE NoAddress
  IN  /\ MayAssign(fn)
      /\ variables' = x.s /\ vartable' = x.t /\ heap' = x.h
      /\ Fails(IF x.ok THEN NoError ELSE OutOfMemory)
      /\ Assigns(stack, fn, at, IF x.ok THEN x.s[i].sval ELSE Null, {[name |-> n]})
      /\ UNCHANGED <<dimvariables, dimtable, system>>

\* An element: its subscript is evaluated first, if there is such an array.
lvaluedim == \E fn \in Assigning, a \in StringArrays :
  /\ MayAssign(fn)
  /\ IF finddimvar(a).found
     THEN /\ Fails(NoError)
          /\ stack' = Append(stack, 
            [fn |-> "lvalue", args |-> <<>>, for |-> fn, array |-> a,
             at |-> [block |-> dimtable, index |-> finddimvar(a).at]])
     ELSE Fails("error") /\ Assigns(stack, fn, NoAddress, Null, {})
  /\ UNCHANGED <<tables, system, heap>>
getdimvar == In("lvalue") /\ \E i \in Subscripts(Top.array) :
  LET d == dimvariables[Top.at.index]
      at == [block |-> d.data, index |-> i]
  IN  /\ IF Serrorflag = NoError /\ i # Outside
         THEN Assigns(Under, Top.for, at, d.str[i], {[array |-> Top.array, index |-> i]})
                /\ UNCHANGED Serrorflag
         ELSE Assigns(Under, Top.for, NoAddress, Null, {}) /\ seterror("error")
      /\ UNCHANGED <<tables, system, heap>>

\* lvalue of a name too long for IDLENGTH: getid sets an error and goes on
\* with the characters that fit, the $ not among them.  The entry they name
\* is, or becomes, a number's: its value is taken for a pointer to a string.
longname == \E fn \in Assigning :
  /\ MayAssign(fn) /\ Fails("error") /\ outcome' = "wild"
  /\ UNCHANGED <<tables, labels, files, curinputptr, lost, heap, stack>>

dolet ==
  /\ Has("LET", 1)
  /\ \E m \in IF arg[1] = Null THEN createstringarray(heap)
              ELSE {[p |-> arg[1], h |-> heap]} :
       Writes(Top.at, m.p) /\ heap' = free(m.h, {Top.old})
  /\ Proceed /\ UNCHANGED <<system, Serrorflag>>

\* stringarraysub writes into the string, or into a longer one.
domidstring ==
  /\ Has("MID", 1) /\ Proceed /\ UNCHANGED system
  /\ IF arg[1] = Null \/ Top.at = NoAddress
     THEN /\ seterror(IF arg[1] = Null THEN OutOfMemory ELSE "error")
          /\ heap' = free(heap, Pointers(arg)) /\ UNCHANGED tables
     ELSE \E e \in IF Stands(Top.at) = Null THEN createstringarray(heap)
                   ELSE {[p |-> Stands(Top.at), h |-> heap]} :
          \E t \in Texts :
          \E m \in IF e.p = Null THEN {e} ELSE realloc(e.h, e.p, Text(t)) :
            /\ Writes(Top.at, IF m.p = Null THEN e.p ELSE m.p)
            /\ heap' = free(m.h, Pointers(arg))
            /\ seterror(IF m.p = Null THEN OutOfMemory ELSE NoError)

\* line: the buffer of INPUT is made, then keys are read in later turns.
inputbegins ==
  /\ InProgram /\ curinputptr = Null
  /\ \E m \in malloc(heap, Other) :
       /\ heap' = m.h /\ curinputptr' = m.p
       /\ Serrorflag' = IF m.p = Null THEN OutOfMemory ELSE NoError
  /\ UNCHANGED <<tables, outcome, labels, files, lost, stack>>

doinput ==
  /\ In("INPUT") /\ Proceed
  /\ curinputptr' = Null /\ UNCHANGED <<outcome, labels, files, lost>>
  /\ IF curinputptr = Null \/ Top.at = NoAddress
     THEN /\ seterror("error") /\ UNCHANGED tables
          /\ heap' = free(heap, {curinputptr})
     ELSE \E m \in createstringarray(free(heap, {Stands(Top.at)})) :
            /\ Writes(Top.at, m.p) /\ heap' = free(m.h, {curinputptr})
            /\ seterror(IF m.p = Null THEN OutOfMemory ELSE NoError)

(* DIM.  An array is made, or made longer or shorter, and keeps what fits. *)
dimension(a, size) ==
  IF finddimvar(a).found
  THEN {[ok |-> TRUE, s |-> dimvariables, t |-> dimtable, h |-> heap]}
  ELSE addnewvar(heap, dimvariables, dimtable, [id |-> a, data |-> Null, str |-> <<>>])

\* Mutant: the last element is lost.
FaultySized(s, size) == [i \in 1 .. size |-> IF i < Len(s) THEN s[i] ELSE Null]
Sized(s, size) == [i \in 1 .. size |-> IF i \in DOMAIN s THEN s[i] ELSE Null]

dodim == \E a \in Arrays, size \in 0 .. MaxSize, e \in Errors :
  /\ Begins /\ UNCHANGED <<variables, vartable, system>>
  /\ \E x \in dimension(a, size) :
       LET j == findvariable(x.s, a).at
           old == x.s[j].str
           beyond == {old[i] : i \in {k \in DOMAIN old : k > size}}
       IN  /\ dimtable' = x.t
           /\ IF ~x.ok
              THEN dimvariables' = x.s /\ heap' = x.h
                     /\ Fails(OutOfMemory) /\ stack' = Done(stack)
              ELSE \E m \in realloc(free(x.h, beyond), x.s[j].data, Table(size)) :
                IF m.p = Null
                THEN /\ dimvariables' = [x.s EXCEPT ![j].str = [i \in DOMAIN @ |-> Null]]
                     /\ heap' = free(m.h, Pointers(old))
                     /\ Fails(OutOfMemory) /\ stack' = Done(stack)
                ELSE /\ dimvariables' = [x.s EXCEPT ![j].data = m.p, ![j].str =
                                           IF a \in StringArrays THEN Sized(@, size) ELSE @]
                     /\ heap' = m.h /\ Fails(e)
                     /\ stack' \in {Done(stack),
                          Append(stack, IF a \notin StringArrays THEN Call("PRINT", <<>>)
                            ELSE [fn |-> "DIM,", args |-> <<>>, i |-> 0, of |-> {}, array |-> a,
                                  at |-> [block |-> x.t, index |-> j]])}

(* The initialisers: the string of an element is freed, the next expression *)
(* is evaluated, and its value is stored.  An array of no elements has none *)
(* that could be freed.                                                     *)
Dimmed == dimvariables[Top.at.index]
diminit ==
  LET i == Top.i + 1
  IN  /\ In("DIM,") /\ UNCHANGED <<tables, labels, files, curinputptr, lost, Serrorflag>>
      /\ IF i \in DOMAIN Dimmed.str
         THEN /\ i > 2 => Serrorflag = NoError
              /\ heap' = free(heap, {Dimmed.str[i]})
              /\ stack' = [stack EXCEPT ![Len(stack)] =
                   [@ EXCEPT !.fn = "DIM", !.i = i,
                             !.of = {[array |-> Dimmed.id, index |-> i]}]]
              /\ UNCHANGED outcome
         ELSE i = 1 /\ outcome' = "wild" /\ UNCHANGED <<heap, stack>>
dimstore ==
  /\ Has("DIM", 1)
  /\ dimvariables' = [dimvariables EXCEPT ![Top.at.index].str[Top.i] = arg[1]]
  /\ stack' = [stack EXCEPT ![Len(stack)] = [@ EXCEPT !.fn = "DIM,", !.args = <<>>, !.of = {}]]
  /\ UNCHANGED <<variables, vartable, dimtable, system, heap, Serrorflag>>
dimdone == \E e \in Errors :
  /\ In("DIM,") /\ Top.i > 0 /\ Proceed /\ seterror(e)
  /\ UNCHANGED <<tables, system, heap>>

(* DOLINE: the tokens of the line are in a block of their own while it runs. *)
doline ==
  /\ InProgram /\ curinputptr = Null /\ Room(stack)
  /\ stack' = <<Call("DOLINE", <<>>)>> /\ Fails(NoError)
  /\ UNCHANGED <<tables, system, heap>>

dolinetokens ==
  /\ Has("DOLINE", 1) /\ UNCHANGED <<tables, system>>
  /\ IF arg[1] = Null \/ Serrorflag # NoError
     THEN /\ seterror(OutOfMemory) /\ Proceed /\ heap' = free(heap, Pointers(arg))
     ELSE \E m \in malloc(heap, Other) :
          \E r \in IF m.p = Null THEN {m} ELSE realloc(m.h, m.p, Other) :
            IF r.p = Null
            THEN seterror(OutOfMemory) /\ Proceed /\ heap' = free(r.h, {arg[1], m.p})
            ELSE /\ heap' = free(r.h, {arg[1]}) /\ UNCHANGED Serrorflag
                 /\ stack' = <<Call("line", <<r.p>>)>>

\* The answer goes to a numeric variable, which may be new.
dodoline == \E n \in Names :
  /\ In("line") \/ In("line done")
  /\ \E x \in scalar(free(heap, Pointers(arg)), n) :
       /\ variables' = x.s /\ vartable' = x.t /\ heap' = x.h
       /\ Serrorflag' = IF ~x.ok \/ Serrorflag = OutOfMemory THEN OutOfMemory
                        ELSE IF n \in StringNames THEN "error" ELSE NoError
  /\ Proceed /\ UNCHANGED <<dimvariables, dimtable, system>>

-----------------------------------------------------------------------------
(* A run *)

Init ==
  /\ outcome = "idle" /\ heap = <<>>
  /\ variables = <<>> /\ vartable = Null
  /\ dimvariables = <<>> /\ dimtable = Null
  /\ labels = Null /\ files = [i \in 1 .. FATPTRNUM |-> NoFile]
  /\ curinputptr = Null /\ stack = <<>>
  /\ Serrorflag = NoError /\ lost = {}

\* A program without labels needs no table of them.
setup ==
  /\ outcome = "idle"
  /\ \/ outcome' = "running" /\ UNCHANGED <<heap, labels>>
     \/ \E m \in malloc(heap, Other) :
          m.p # Null /\ outcome' = "running" /\ labels' = m.p /\ heap' = m.h
  /\ UNCHANGED <<tables, files, curinputptr, stack, Serrorflag, lost>>

\* The end of a run, and what the next setup forgets.
cleanup ==
  /\ outcome = "running" /\ stack = <<>>
  /\ heap' = free(heap, {f.ptr : f \in Pointers(files)}
                    \union {v.sval : v \in Pointers(variables)}
                    \union (UNION {Pointers(d.str) : d \in Pointers(dimvariables)})
                    \union {d.data : d \in Pointers(dimvariables)}
                    \union {vartable, dimtable, curinputptr, labels})
  /\ outcome' = "idle"
  /\ variables' = <<>> /\ vartable' = Null
  /\ dimvariables' = <<>> /\ dimtable' = Null
  /\ labels' = Null /\ files' = [i \in 1 .. FATPTRNUM |-> NoFile]
  /\ curinputptr' = Null /\ stack' = <<>> /\ Serrorflag' = NoError
  /\ UNCHANGED lost

Operand ==
  stringliteral \/ chrstring \/ screadstring \/ stringvar \/ stringdimvar \/ notastring
Function ==
  concat \/ calls \/ trimstring \/ iistring \/ webfrmstring \/ num_len \/ instr \/ term1
    \/ num_serout \/ bfdel \/ bfopen \/ bfdirop \/ bfclose \/ bfdircl \/ num_inplen \/ expr
Statement ==
  doprint \/ Prints \/ Printed \/ letnumber \/ lvalue \/ lvaluedim \/ getdimvar \/ longname
    \/ dolet \/ domidstring \/ inputbegins \/ doinput \/ dodim \/ diminit \/ dimstore \/ dimdone
    \/ doline \/ dolinetokens \/ dodoline

Next == Operand \/ Function \/ Statement \/ setup \/ cleanup

Spec == Init /\ [][Next]_vars

-----------------------------------------------------------------------------
\* The element whose initialiser is under way: dodim freed its string and
\* left the pointer, which the initialiser may read (stringdimvar).
Initialising ==
  {<<f.at.index, f.i>> : f \in {g \in Pointers(stack) : g.fn = "DIM"}}

\* Every other pointer the program holds, with the place it is in.
Holds == {x \in
  (UNION {{<<"stack", i, k, stack[i].args[k]>> : k \in DOMAIN stack[i].args}
            : i \in DOMAIN stack})
    \union {<<"variables", i, 0, variables[i].sval>> : i \in DOMAIN variables}
    \union {<<"arrays", j, 0, dimvariables[j].data>> : j \in DOMAIN dimvariables}
    \union (UNION {{<<"elements", j, i, dimvariables[j].str[i]>>
                      : i \in {k \in DOMAIN dimvariables[j].str : <<j, k>> \notin Initialising}}
                     : j \in DOMAIN dimvariables})
    \union {<<"files", i, 0, files[i].ptr>> : i \in DOMAIN files}
    \union {<<"vartable", 0, 0, vartable>>, <<"dimtable", 0, 0, dimtable>>,
            <<"labels", 0, 0, labels>>, <<"input", 0, 0, curinputptr>>} : x[4] # Null}

\* Every block in use is in one place, whatever fails on the way, and every
\* pointer is to a block in use but one: that of the element a DIM is about
\* to initialise, which points to a string already freed while the initialiser
\* is evaluated.  DIM A$(2)=A$(1) reads it, and so does the variables page if
\* it is asked for at a wait of the initialiser.  No other element is freed
\* with it, nothing is freed twice, and all that is left behind are the
\* strings of a SEROUT or SERBNG whose expression failed (malloc and free).
OneOwner ==
  /\ {x[4] : x \in Holds} = DOMAIN heap \ lost
  /\ \A x, y \in Holds : x[4] = y[4] => x = y
  /\ lost \subseteq DOMAIN heap
  /\ \A x, y \in Initialising : x = y

\* What a statement took the address of before it evaluated is still there:
\* no expression moves a table (lvalue, dolet, domidstring, doinput, dodim).
AddressesHold == \A f \in Pointers(stack) :
  /\ f.fn \in Assigning /\ f.at # NoAddress =>
       /\ \/ /\ f.at.block = vartable
             /\ \E n \in StringNames : f.of = {[name |-> n]} /\ variables[f.at.index].id = n
          \/ \E j \in DOMAIN dimvariables :
               /\ f.at.block = dimvariables[j].data
               /\ f.of = {[array |-> dimvariables[j].id, index |-> f.at.index]}
       /\ Stands(f.at) = f.old
  /\ f.fn \in {"lvalue", "DIM", "DIM,"} =>
       f.at.block = dimtable /\ dimvariables[f.at.index].id = f.array

\* The tables are sorted, so that the search finds what is there, and have the
\* room their entries need.
Sorted(s) == \A i, j \in DOMAIN s : i < j => s[i].id < s[j].id
Fits(s, b) == s = <<>> \/ (b \in DOMAIN heap /\ Len(s) <= heap[b].room)
TablesHold ==
  /\ Sorted(variables) /\ Sorted(dimvariables)
  /\ Fits(variables, vartable) /\ Fits(dimvariables, dimtable)
  /\ \A d \in Pointers(dimvariables) : Fits(d.str, d.data)

\* Strings are values (BasicVariables).
Shows(p) == IF IsText(heap, p) THEN heap[p].text ELSE Unset
string == [n \in StringNames |->
  LET v == findvariable(variables, n)
  IN  IF v.found THEN Shows(variables[v.at].sval) ELSE Unset]
array == [a \in StringArrays |->
  LET v == finddimvar(a)
  IN  IF v.found THEN [i \in DOMAIN dimvariables[v.at].str |-> Shows(dimvariables[v.at].str[i])]
      ELSE <<>>]
target == UNION {f.of : f \in {g \in Pointers(stack) : "of" \in DOMAIN g}}

Abstract == INSTANCE BasicVariables WITH Arrays <- StringArrays
Values == Abstract!Spec
=============================================================================
