-------------------------- MODULE BasicMemoryProofs --------------------------
EXTENDS BasicMemory, SequenceTheorems, WellFoundedInduction, TLAPS

(* The values pointers, frames and entries can take.                       *)
Ptr == Blocks \union {Null}
Address == [block : Ptr, index : Nat]
Naming == [name : StringNames] \union [array : StringArrays, index : Nat]
Content == [text : Texts] \union [room : Nat]
Scalar == [id : Names, sval : Ptr]
Matrix == [id : Arrays, data : Ptr, str : Seq(Ptr)]
File == [ftype : {"none", "file", "dir"}, ptr : Ptr]

Lines == {"line", "line done"}
Parts == {"PLUS", "$", "#"}        \* of an expression
Plain == [fn : {"PRINT", "DOLINE"} \union Lines \union Parts, args : Seq(Ptr)]
Aiming == [fn : Assigning, args : Seq(Ptr), at : Address, old : Ptr, of : SUBSET Naming]
Picking == [fn : {"lvalue"}, args : Seq(Ptr), for : Assigning, array : StringArrays, at : Address]
Filling == [fn : {"DIM", "DIM,"}, args : Seq(Ptr), i : Nat, of : SUBSET Naming,
            array : StringArrays, at : Address]
Frame == Plain \union Aiming \union Picking \union Filling

(* T is the four tables, R what else the program holds.                    *)
rest == <<labels, files, curinputptr>>
VarsOf(T) == T[1]
VarBlock(T) == T[2]
DimsOf(T) == T[3]
DimBlock(T) == T[4]

(* The heap, of which nothing in X belongs to anybody.                     *)
Blocked(X, h) ==
  /\ DOMAIN h \subseteq Blocks /\ X \subseteq DOMAIN h
  /\ \A b \in DOMAIN h : h[b] \in Content

Ordered(s) ==
  /\ Len(s) \in Nat
  /\ \A i \in 1 .. Len(s) : s[i].id \in Nat /\ \A j \in 1 .. Len(s) : i < j => s[i].id < s[j].id
Roomy(h, s, b) == s = <<>> \/ (b \in DOMAIN h /\ h[b] \in [room : Nat] /\ nextlargest(Len(s)) <= h[b].room)
Sizable(h, d) == d.str = <<>> \/ (d.data \in DOMAIN h /\ h[d.data] \in [room : Nat] /\ Len(d.str) <= h[d.data].room)
Tabled(h, T) ==
  /\ VarsOf(T) \in Seq(Scalar) /\ VarBlock(T) \in Ptr
  /\ DimsOf(T) \in Seq(Matrix) /\ DimBlock(T) \in Ptr
  /\ Ordered(VarsOf(T)) /\ Ordered(DimsOf(T))
  /\ Roomy(h, VarsOf(T), VarBlock(T)) /\ Roomy(h, DimsOf(T), DimBlock(T))
  /\ \A j \in 1 .. Len(DimsOf(T)) :
       Sizable(h, DimsOf(T)[j]) /\ (DimsOf(T)[j].id \notin StringArrays => DimsOf(T)[j].str = <<>>)

Filed(R) == R[1] \in Ptr /\ R[2] \in [1 .. FATPTRNUM -> File] /\ R[3] \in Ptr

(* What a frame that waits knows of the tables.                            *)
AtScalar(f, T) ==
  /\ f.at.block = VarBlock(T) /\ f.at.index \in 1 .. Len(VarsOf(T))
  /\ VarsOf(T)[f.at.index].id \in StringNames
  /\ f.of = {[name |-> VarsOf(T)[f.at.index].id]}
  /\ VarsOf(T)[f.at.index].sval = f.old
AtElement(f, T, j) ==
  /\ f.at.block = DimsOf(T)[j].data /\ f.at.index \in 1 .. Len(DimsOf(T)[j].str)
  /\ DimsOf(T)[j].id \in StringArrays
  /\ f.of = {[array |-> DimsOf(T)[j].id, index |-> f.at.index]}
  /\ DimsOf(T)[j].str[f.at.index] = f.old
Aimed(f, T) ==
  /\ f.fn \in Assigning =>
       IF f.at = NoAddress THEN f.fn # "LET"
       ELSE AtScalar(f, T) \/ \E j \in 1 .. Len(DimsOf(T)) : AtElement(f, T, j)
  /\ f.fn \in {"lvalue", "DIM", "DIM,"} =>
       /\ f.at.block = DimBlock(T) /\ f.at.index \in 1 .. Len(DimsOf(T))
       /\ DimsOf(T)[f.at.index].id = f.array
  /\ f.fn = "DIM" =>
       f.i \in 1 .. Len(DimsOf(T)[f.at.index].str) /\ f.of = {[array |-> f.array, index |-> f.i]}
  /\ f.fn = "DIM," => f.of = {}

(* The statement under way is the lowest frame, or is over the line of     *)
(* DOLINE; what is above are parts of its expression, each for a string    *)
(* the one below still wants.                                              *)
Shaped(s) == \A i \in 1 .. Len(s) :
  /\ s[i].fn \in Lines \union {"DOLINE"} => i = 1
  /\ s[i].fn \notin Lines \union Parts => i = 1 \/ (i = 2 /\ s[1].fn \in Lines)
  /\ s[i].fn \in Parts => i > 1
  /\ s[i].fn \in {"PLUS", "$"} => Len(s[i - 1].args) < MaxArgs(s[i - 1].fn)
  /\ s[i].fn \notin Lines => Len(s[i].args) <= MaxArgs(s[i].fn)
Calm(s) == \A i \in 1 .. Len(s) : s[i].fn \in Lines
Stacked(s, T) ==
  s \in Seq(Frame) /\ Shaped(s) /\ \A i \in 1 .. Len(s) : Aimed(s[i], T)

(* Who holds what: a place is a kind and two numbers.                      *)
Kinds == {"stack", "variables", "arrays", "elements", "files",
          "vartable", "dimtable", "labels", "input"}
Places == Kinds \X Nat \X Nat
Unborn(s) == {<<s[i].at.index, s[i].i>> : i \in {k \in 1 .. Len(s) : s[k].fn = "DIM"}}
Holding(s, T, R, p) ==
  IF p[1] = "stack" /\ p[2] \in 1 .. Len(s) /\ p[3] \in 1 .. Len(s[p[2]].args)
  THEN s[p[2]].args[p[3]]
  ELSE IF p[1] = "variables" /\ p[2] \in 1 .. Len(VarsOf(T)) /\ p[3] = 0
  THEN VarsOf(T)[p[2]].sval
  ELSE IF p[1] = "arrays" /\ p[2] \in 1 .. Len(DimsOf(T)) /\ p[3] = 0
  THEN DimsOf(T)[p[2]].data
  ELSE IF /\ p[1] = "elements" /\ p[2] \in 1 .. Len(DimsOf(T))
          /\ p[3] \in 1 .. Len(DimsOf(T)[p[2]].str) /\ <<p[2], p[3]>> \notin Unborn(s)
  THEN DimsOf(T)[p[2]].str[p[3]]
  ELSE IF p[1] = "files" /\ p[2] \in 1 .. FATPTRNUM /\ p[3] = 0 THEN R[2][p[2]].ptr
  ELSE IF p[1] = "vartable" /\ p[2] = 0 /\ p[3] = 0 THEN VarBlock(T)
  ELSE IF p[1] = "dimtable" /\ p[2] = 0 /\ p[3] = 0 THEN DimBlock(T)
  ELSE IF p[1] = "labels" /\ p[2] = 0 /\ p[3] = 0 THEN R[1]
  ELSE IF p[1] = "input" /\ p[2] = 0 /\ p[3] = 0 THEN R[3]
  ELSE Null
Held(s, T, R) == [p \in Places |-> Holding(s, T, R, p)]

(* Each block of D is in one place.                                        *)
Own(D, H) ==
  /\ H \in [Places -> Ptr]
  /\ \A p, q \in Places : H[p] = H[q] /\ H[p] # Null => p = q
  /\ \A p \in Places : H[p] # Null => H[p] \in D
  /\ \A b \in D : \E p \in Places : H[p] = b

(* The strings g a program sees: those of the variables, and of the arrays *)
(* but for the element an initialiser is being evaluated for.              *)
Reads(h, p) == IF p \in DOMAIN h /\ h[p] \in [text : Texts] THEN h[p].text ELSE Unset
Shown(g, s, h, T) ==
  /\ \A i \in 1 .. Len(VarsOf(T)) :
       VarsOf(T)[i].id \in StringNames => g[1][VarsOf(T)[i].id] = Reads(h, VarsOf(T)[i].sval)
  /\ \A n \in StringNames :
       (\A i \in 1 .. Len(VarsOf(T)) : VarsOf(T)[i].id # n) => g[1][n] = Unset
  /\ \A j \in 1 .. Len(DimsOf(T)) : DimsOf(T)[j].id \in StringArrays =>
       /\ DOMAIN g[2][DimsOf(T)[j].id] = 1 .. Len(DimsOf(T)[j].str)
       /\ \A i \in 1 .. Len(DimsOf(T)[j].str) :
            <<j, i>> \notin Unborn(s) =>
              g[2][DimsOf(T)[j].id][i] = Reads(h, DimsOf(T)[j].str[i])
  /\ \A a \in StringArrays :
       (\A j \in 1 .. Len(DimsOf(T)) : DimsOf(T)[j].id # a) => g[2][a] = <<>>

Sound(X, s, h, T, R) ==
  /\ Blocked(X, h) /\ Tabled(h, T) /\ Filed(R) /\ Stacked(s, T)
  /\ Own(DOMAIN h \ X, Held(s, T, R))
Good(X, s, h, T, R, g) == Sound(X, s, h, T, R) /\ Shown(g, s, h, T)

(* Where id is, or belongs, in a sorted sequence s of entries.             *)
IsAt(s, id, p) ==
  /\ p \in 1 .. Len(s) + 1
  /\ \A i \in 1 .. Len(s) : i < p => s[i].id < id
  /\ \A i \in 1 .. Len(s) : i >= p => s[i].id >= id

\* What the search gives between low and high.
Closed(s, id, p, low, high) ==
  IF low > high THEN [found |-> FALSE, at |-> low]
  ELSE IF low <= p /\ p <= high /\ s[p].id = id THEN [found |-> TRUE, at |-> p]
  ELSE [found |-> FALSE, at |-> IF p < low THEN low ELSE IF p > high THEN high + 1 ELSE p]

Ranges(s) == (1 .. Len(s) + 1) \X (0 .. Len(s))
Search(s, id, f) ==
  f = [r \in Ranges(s) |->
        IF r[1] > r[2] THEN [found |-> FALSE, at |-> r[1]]
        ELSE IF s[Middle(r)].id > id THEN f[<<r[1], Middle(r) - 1>>]
        ELSE IF s[Middle(r)].id < id THEN f[<<Middle(r) + 1, r[2]>>]
        ELSE [found |-> TRUE, at |-> Middle(r)]]

LEMMA FindIs ==
  ASSUME NEW s, NEW id
  PROVE findvariable(s, id) = (CHOOSE f : Search(s, id, f))[<<1, Len(s)>>]
BY DEF findvariable, Search, Ranges

(* What the equation of the search says of one range.                      *)
LEMMA TurnsOut ==
  ASSUME NEW s, NEW f, NEW id \in Nat, Ordered(s), Search(s, id, f),
         NEW low \in 1 .. Len(s) + 1, NEW high \in 0 .. Len(s), low > high
  PROVE  f[<<low, high>>] = [found |-> FALSE, at |-> low]
<1>1. <<low, high>> \in Ranges(s)
  BY DEF Ranges
<1> QED BY <1>1 DEF Search

LEMMA TurnsOn ==
  ASSUME NEW s, NEW f, NEW id \in Nat, Ordered(s), Search(s, id, f),
         NEW low \in 1 .. Len(s) + 1, NEW high \in 0 .. Len(s), low <= high,
         NEW mid, mid = Middle(<<low, high>>)
  PROVE  /\ mid \in 1 .. Len(s) /\ mid \in low .. high /\ s[mid].id \in Nat
         /\ s[mid].id > id => f[<<low, high>>] = f[<<low, mid - 1>>]
         /\ s[mid].id < id => f[<<low, high>>] = f[<<mid + 1, high>>]
         /\ s[mid].id = id => f[<<low, high>>] = [found |-> TRUE, at |-> mid]
<1>1. <<low, high>> \in Ranges(s)
  BY DEF Ranges
<1>2. f[<<low, high>>] =
        IF low > high THEN [found |-> FALSE, at |-> low]
        ELSE IF s[mid].id > id THEN f[<<low, mid - 1>>]
        ELSE IF s[mid].id < id THEN f[<<mid + 1, high>>]
        ELSE [found |-> TRUE, at |-> mid]
  BY <1>1 DEF Search
<1>3. mid \in 1 .. Len(s) /\ mid \in low .. high /\ s[mid].id \in Nat
  BY DEF Ordered, Middle
<1>4. low \in Int /\ high \in Int /\ id \in Int
  BY DEF Ordered
<1> QED BY <1>2, <1>3, <1>4

LEMMA ClosedSearches ==
  ASSUME NEW s, NEW id \in Nat, Ordered(s), NEW p, IsAt(s, id, p)
  PROVE  Search(s, id, [r \in Ranges(s) |-> Closed(s, id, p, r[1], r[2])])
<1> DEFINE f == [r \in Ranges(s) |-> Closed(s, id, p, r[1], r[2])]
<1>1. ASSUME NEW r \in Ranges(s)
      PROVE  Closed(s, id, p, r[1], r[2]) =
        IF r[1] > r[2] THEN [found |-> FALSE, at |-> r[1]]
        ELSE IF s[Middle(r)].id > id THEN f[<<r[1], Middle(r) - 1>>]
        ELSE IF s[Middle(r)].id < id THEN f[<<Middle(r) + 1, r[2]>>]
        ELSE [found |-> TRUE, at |-> Middle(r)]
  <2>0. PICK low \in 1 .. Len(s) + 1, high \in 0 .. Len(s) : r = <<low, high>>
    BY DEF Ranges
  <2> DEFINE mid == (low + high) \div 2
  <2>1. r[1] = low /\ r[2] = high /\ Middle(r) = mid
    BY <2>0 DEF Middle
  <2>2. CASE low > high
    BY <2>1, <2>2 DEF Closed
  <2>3. CASE low <= high
    <3>0. mid \in 1 .. Len(s) /\ low <= mid /\ mid <= high /\ Len(s) \in Nat
      BY <2>3 DEF Ordered
    <3> HIDE DEF mid
    <3>1. s[mid].id \in Nat /\ p \in 1 .. Len(s) + 1
      BY <3>0 DEF Ordered, IsAt
    <3>2. CASE s[mid].id > id
      <4>1. p <= mid /\ (p = mid => s[p].id # id)
        BY <3>0, <3>1, <3>2 DEF IsAt
      <4>2. <<low, mid - 1>> \in Ranges(s)
        BY <3>0 DEF Ranges
      <4>3. f[<<low, mid - 1>>] = Closed(s, id, p, low, mid - 1)
        BY <4>2
      <4>4. Closed(s, id, p, low, high) = Closed(s, id, p, low, mid - 1)
        <5>1. CASE low = mid
          <6>1. Closed(s, id, p, low, mid - 1) = [found |-> FALSE, at |-> low]
            BY <3>0, <5>1 DEF Closed
          <6>2. ~(low <= p /\ p <= high /\ s[p].id = id) /\ ~(p > high) /\ (p < low \/ p = low)
            BY <3>0, <3>1, <4>1, <5>1
          <6>3. Closed(s, id, p, low, high) = [found |-> FALSE, at |-> low]
            BY <2>3, <3>0, <3>1, <6>2 DEF Closed
          <6> QED BY <6>1, <6>3
        <5>2. CASE low < mid
          <6>1. ~(low > high) /\ ~(low > mid - 1)
            BY <2>3, <3>0, <5>2
          <6>2. (low <= p /\ p <= high /\ s[p].id = id) <=> (low <= p /\ p <= mid - 1 /\ s[p].id = id)
            BY <3>0, <3>1, <4>1
          <6>3. ASSUME ~(low <= p /\ p <= high /\ s[p].id = id)
                PROVE  (IF p < low THEN low ELSE IF p > high THEN high + 1 ELSE p) =
                       (IF p < low THEN low ELSE IF p > mid - 1 THEN mid - 1 + 1 ELSE p)
            BY <3>0, <3>1, <4>1, <5>2
          <6> QED BY <6>1, <6>2, <6>3 DEF Closed
        <5> QED BY <3>0, <5>1, <5>2
      <4> QED BY <2>1, <2>3, <3>2, <4>3, <4>4
    <3>3. CASE s[mid].id < id
      <4>1. p > mid
        BY <3>0, <3>1, <3>3 DEF IsAt
      <4>2. <<mid + 1, high>> \in Ranges(s)
        BY <3>0 DEF Ranges
      <4>3. f[<<mid + 1, high>>] = Closed(s, id, p, mid + 1, high)
        BY <4>2
      <4>4. Closed(s, id, p, low, high) = Closed(s, id, p, mid + 1, high)
        <5>1. CASE mid = high
          <6>1. Closed(s, id, p, mid + 1, high) = [found |-> FALSE, at |-> mid + 1]
            BY <3>0, <5>1 DEF Closed
          <6>2. ~(low > high) /\ ~(low <= p /\ p <= high /\ s[p].id = id) /\ p > high /\ ~(p < low) /\ high + 1 = mid + 1
            BY <2>3, <3>0, <3>1, <4>1, <5>1
          <6>3. Closed(s, id, p, low, high) = [found |-> FALSE, at |-> mid + 1]
            BY ONLY <6>2 DEF Closed
          <6> QED BY <6>1, <6>3
        <5>2. CASE mid < high
          <6>1. ~(low > high) /\ ~(mid + 1 > high)
            BY <2>3, <3>0, <5>2
          <6>2. (low <= p /\ p <= high /\ s[p].id = id) <=> (mid + 1 <= p /\ p <= high /\ s[p].id = id)
            BY <3>0, <3>1, <4>1
          <6>3. ASSUME ~(low <= p /\ p <= high /\ s[p].id = id)
                PROVE  (IF p < low THEN low ELSE IF p > high THEN high + 1 ELSE p) =
                       (IF p < mid + 1 THEN mid + 1 ELSE IF p > high THEN high + 1 ELSE p)
            BY <3>0, <3>1, <4>1, <5>2
          <6> QED BY <6>1, <6>2, <6>3 DEF Closed
        <5> QED BY <3>0, <5>1, <5>2
      <4>5. ~(s[mid].id > id)
        BY <3>1, <3>3
      <4> QED BY <2>1, <2>3, <3>3, <4>3, <4>4, <4>5
    <3>4. CASE s[mid].id = id
      <4>1. p <= mid
        BY <3>0, <3>1, <3>4 DEF IsAt
      <4>2. ~(p < mid)
        <5> SUFFICES ASSUME p < mid PROVE FALSE
          OBVIOUS
        <5>1. s[p].id < s[mid].id /\ s[p].id >= id
          BY <3>0, <3>1 DEF IsAt, Ordered
        <5> QED BY <3>0, <3>1, <3>4, <5>1 DEF Ordered
      <4>3. p = mid
        BY <3>0, <3>1, <4>1, <4>2
      <4>4. Closed(s, id, p, low, high) = [found |-> TRUE, at |-> mid]
        BY <2>3, <3>0, <3>1, <3>4, <4>3 DEF Closed
      <4> QED BY <2>1, <2>3, <3>1, <3>4, <4>4
    <3> QED BY <3>1, <3>2, <3>3, <3>4
  <2> QED BY <2>2, <2>3 DEF Ordered
<1> QED BY <1>1 DEF Search

LEMMA Least ==
  ASSUME NEW S, S \subseteq Nat, S # {} PROVE \E x \in S : \A y \in S : x <= y
<1> DEFINE R == OpToRel(<, Nat)
<1>1. IsWellFoundedOn(R, Nat)
  BY NatLessThanWellFounded
<1>2. \A x, y \in Nat : y < x => <<y, x>> \in R
  BY DEF OpToRel
<1> HIDE DEF R
<1>3. \E x \in S : \A y \in S : ~(<<y, x>> \in R)
  BY ONLY S \subseteq Nat, S # {}, <1>1, WFMin
<1>4. PICK x \in S : \A y \in S : ~(<<y, x>> \in R)
  BY <1>3
<1>5. ASSUME NEW y \in S PROVE x <= y
  <2>1. x \in Nat /\ y \in Nat
    OBVIOUS
  <2>2. ~(<<y, x>> \in R)
    BY <1>4
  <2>3. ~(y < x)
    BY ONLY <1>2, <2>1, <2>2
  <2> QED BY <2>1, <2>3
<1> QED BY <1>5

(* Induction on how long the range is.                                     *)
LEMMA Reaches ==
  ASSUME NEW n \in Nat, NEW T, 0 \in T,
         \A i \in 1 .. n : (\A k \in 0 .. i - 1 : k \in T) => i \in T
  PROVE  \A i \in 0 .. n : i \in T
<1> DEFINE S == {i \in 0 .. n : i \notin T}
<1> SUFFICES ASSUME S # {} PROVE FALSE
  OBVIOUS
<1>1. PICK x \in S : \A y \in S : x <= y
  <2>1. S \subseteq Nat
    OBVIOUS
  <2> HIDE DEF S
  <2> QED BY <2>1, Least
<1>2. x \in 1 .. n
  BY <1>1
<1>3. \A k \in 0 .. x - 1 : k \in T
  BY <1>1, <1>2
<1> QED BY <1>1, <1>2, <1>3

(* Two solutions agree on the ranges of at most m entries.                 *)
Agree(s, f, g, m) ==
  \A low \in 1 .. Len(s) + 1, high \in 0 .. Len(s) :
    high + 1 - low <= m => f[<<low, high>>] = g[<<low, high>>]

LEMMA AgreeStep ==
  ASSUME NEW s, NEW id \in Nat, Ordered(s), NEW f, Search(s, id, f), NEW g, Search(s, id, g),
         NEW m \in Nat, m = 0 \/ Agree(s, f, g, m - 1)
  PROVE  Agree(s, f, g, m)
<1>0. Len(s) \in Nat
  BY DEF Ordered
<1> SUFFICES ASSUME NEW low \in 1 .. Len(s) + 1, NEW high \in 0 .. Len(s), high + 1 - low <= m
             PROVE  f[<<low, high>>] = g[<<low, high>>]
  BY DEF Agree
<1>1. CASE low > high
  <2>1. f[<<low, high>>] = [found |-> FALSE, at |-> low]
    BY <1>1, TurnsOut
  <2>2. g[<<low, high>>] = [found |-> FALSE, at |-> low]
    BY <1>1, TurnsOut
  <2> QED BY <2>1, <2>2
<1>2. CASE low <= high
  <2> DEFINE mid == Middle(<<low, high>>)
  <2>1. /\ mid \in 1 .. Len(s) /\ mid \in low .. high /\ s[mid].id \in Nat
        /\ s[mid].id > id => f[<<low, high>>] = f[<<low, mid - 1>>]
        /\ s[mid].id < id => f[<<low, high>>] = f[<<mid + 1, high>>]
        /\ s[mid].id = id => f[<<low, high>>] = [found |-> TRUE, at |-> mid]
    BY <1>2, TurnsOn
  <2>2. /\ s[mid].id > id => g[<<low, high>>] = g[<<low, mid - 1>>]
        /\ s[mid].id < id => g[<<low, high>>] = g[<<mid + 1, high>>]
        /\ s[mid].id = id => g[<<low, high>>] = [found |-> TRUE, at |-> mid]
    BY <1>2, TurnsOn
  <2> HIDE DEF mid
  <2>4. /\ m # 0 /\ mid - 1 \in 0 .. Len(s) /\ mid + 1 \in 1 .. Len(s) + 1
        /\ (mid - 1) + 1 - low <= m - 1 /\ high + 1 - (mid + 1) <= m - 1
    BY <1>0, <2>1
  <2>5. f[<<low, mid - 1>>] = g[<<low, mid - 1>>] /\ f[<<mid + 1, high>>] = g[<<mid + 1, high>>]
    BY <2>4 DEF Agree
  <2>6. s[mid].id > id \/ s[mid].id < id \/ s[mid].id = id
    BY <2>1
  <2> QED BY <2>1, <2>2, <2>5, <2>6
<1> QED BY <1>0, <1>1, <1>2

LEMMA OneSearch ==
  ASSUME NEW s, NEW id \in Nat, Ordered(s), NEW f, Search(s, id, f), NEW g, Search(s, id, g)
  PROVE  f[<<1, Len(s)>>] = g[<<1, Len(s)>>]
<1> DEFINE n == Len(s) + 1
           T == {m \in 0 .. n : Agree(s, f, g, m)}
<1>0. n \in Nat /\ Len(s) \in Nat
  BY DEF Ordered
<1>1. 0 \in T
  BY <1>0, AgreeStep
<1>2. ASSUME NEW m \in 1 .. n, \A k \in 0 .. m - 1 : k \in T PROVE m \in T
  <2>1. m - 1 \in 0 .. m - 1 /\ m \in Nat /\ m \in 0 .. n
    BY <1>0
  <2>2. Agree(s, f, g, m - 1)
    BY <1>2, <2>1
  <2> QED BY <2>1, <2>2, AgreeStep
<1>3. \A i \in 0 .. n : i \in T
  <2> HIDE DEF T, n
  <2> QED BY <1>0, <1>1, <1>2, Reaches
<1>4. Agree(s, f, g, n)
  BY <1>0, <1>3
<1>5. 1 \in 1 .. Len(s) + 1 /\ Len(s) \in 0 .. Len(s) /\ Len(s) + 1 - 1 <= n
  BY <1>0
<1> QED BY <1>4, <1>5 DEF Agree

(* The binary search finds what is there, and where what is not belongs.   *)
LEMMA Found ==
  ASSUME NEW s, NEW id \in Nat, Ordered(s), NEW p, IsAt(s, id, p)
  PROVE  findvariable(s, id) = IF p <= Len(s) /\ s[p].id = id THEN [found |-> TRUE, at |-> p]
                                                             ELSE [found |-> FALSE, at |-> p]
<1> DEFINE g == [r \in Ranges(s) |-> Closed(s, id, p, r[1], r[2])]
           f == CHOOSE h : Search(s, id, h)
<1>1. Search(s, id, g)
  BY ClosedSearches
<1>2. Search(s, id, f)
  BY <1>1
<1>3. findvariable(s, id) = f[<<1, Len(s)>>]
  BY FindIs
<1>4. g[<<1, Len(s)>>] = Closed(s, id, p, 1, Len(s))
  BY DEF Ranges, Ordered
<1> HIDE DEF f, g
<1>5. f[<<1, Len(s)>>] = g[<<1, Len(s)>>]
  BY <1>1, <1>2, OneSearch
<1>6. Closed(s, id, p, 1, Len(s)) = IF p <= Len(s) /\ s[p].id = id THEN [found |-> TRUE, at |-> p]
                                                                  ELSE [found |-> FALSE, at |-> p]
  <2>0. Len(s) \in Nat /\ p \in 1 .. Len(s) + 1
    BY DEF Ordered, IsAt
  <2>1. CASE Len(s) = 0
    <3>1. p = 1 /\ ~(p <= Len(s))
      BY <2>0, <2>1
    <3> QED BY <2>1, <3>1 DEF Closed
  <2>2. CASE Len(s) > 0 /\ p <= Len(s)
    <3>1. ~(1 > Len(s)) /\ 1 <= p /\ ~(p < 1) /\ ~(p > Len(s))
      BY <2>0, <2>2
    <3> QED BY ONLY <2>2, <3>1 DEF Closed
  <2>3. CASE Len(s) > 0 /\ p = Len(s) + 1
    <3>1. ~(1 > Len(s)) /\ ~(p <= Len(s)) /\ ~(p < 1) /\ p > Len(s) /\ Len(s) + 1 = p
      BY <2>0, <2>3
    <3> QED BY ONLY <3>1 DEF Closed
  <2> QED BY <2>0, <2>1, <2>2, <2>3
<1> QED BY <1>3, <1>4, <1>5, <1>6

(* A sorted table has a place for every name.                              *)
LEMMA Placed ==
  ASSUME NEW s, NEW id \in Nat, Ordered(s) PROVE \E p : IsAt(s, id, p)
<1> DEFINE S == {i \in 1 .. Len(s) + 1 : i = Len(s) + 1 \/ s[i].id >= id}
<1>1. S \subseteq Nat /\ S # {}
  BY DEF Ordered
<1>2. PICK p \in S : \A y \in S : p <= y
  <2> HIDE DEF S
  <2> QED BY <1>1, Least
<1>3. ASSUME NEW i \in 1 .. Len(s), i < p PROVE s[i].id < id
  BY <1>2, <1>3 DEF Ordered
<1>4. ASSUME NEW i \in 1 .. Len(s), i >= p PROVE s[i].id >= id
  BY <1>2, <1>4 DEF Ordered
<1> QED BY <1>2, <1>3, <1>4 DEF IsAt

-----------------------------------------------------------------------------
(* Who holds what                                                          *)

LEMMA PlaceIs ==
  ASSUME NEW p \in Places
  PROVE  p[1] \in Kinds /\ p[2] \in Nat /\ p[3] \in Nat /\ p = <<p[1], p[2], p[3]>>
BY DEF Places

LEMMA PlaceOf ==
  ASSUME NEW k \in Kinds, NEW i \in Nat, NEW j \in Nat
  PROVE  <<k, i, j>> \in Places
BY DEF Places

(* One place gets a block that is free, and lets go of its own.            *)
LEMMA OwnSwap ==
  ASSUME NEW D, NEW H, Own(D, H), NEW H2 \in [Places -> Ptr],
         NEW p \in Places, NEW b \in Ptr, b \notin D,
         \A q \in Places : H2[q] = IF q = p THEN b ELSE H[q]
  PROVE  Own((D \ {H[p]}) \union ({b} \ {Null}), H2)
<1> DEFINE E == (D \ {H[p]}) \union ({b} \ {Null})
<1>1. ASSUME NEW q \in Places, NEW r \in Places, H2[q] = H2[r], H2[q] # Null PROVE q = r
  BY <1>1 DEF Own
<1>2. ASSUME NEW q \in Places, H2[q] # Null PROVE H2[q] \in E
  BY <1>2 DEF Own
<1>3. ASSUME NEW c \in E PROVE \E q \in Places : H2[q] = c
  <2>1. CASE c = b
    BY <2>1
  <2>2. CASE c # b
    <3>1. c \in D /\ c # H[p]
      BY <2>2
    <3>2. PICK q \in Places : H[q] = c
      BY <3>1 DEF Own
    <3> QED BY <3>1, <3>2
  <2> QED BY <2>1, <2>2
<1> QED BY <1>1, <1>2, <1>3 DEF Own

(* Some places let go of theirs.                                           *)
LEMMA OwnDrop ==
  ASSUME NEW D, NEW H, Own(D, H), NEW H2 \in [Places -> Ptr],
         NEW Q \in SUBSET Places,
         \A q \in Places : H2[q] = IF q \in Q THEN Null ELSE H[q],
         NEW B, \A b \in B : \E q \in Q : b = H[q], \A q \in Q : H[q] # Null => H[q] \in B
  PROVE  Own(D \ B, H2)
<1>1. ASSUME NEW q \in Places, NEW r \in Places, H2[q] = H2[r], H2[q] # Null PROVE q = r
  BY <1>1 DEF Own
<1>2. ASSUME NEW q \in Places, H2[q] # Null PROVE H2[q] \in D \ B
  BY <1>2 DEF Own
<1>3. ASSUME NEW c \in D \ B PROVE \E q \in Places : H2[q] = c
  <2>1. PICK q \in Places : H[q] = c
    BY DEF Own
  <2>2. CASE c = Null
    <3>1. \A q2 \in Places : H2[q2] = Null \/ H2[q2] = H[q2]
      OBVIOUS
    <3> QED BY <2>1, <2>2, <3>1
  <2>3. CASE c # Null
    BY <2>1, <2>3
  <2> QED BY <2>2, <2>3
<1> QED BY <1>1, <1>2, <1>3 DEF Own

(* The entries of a table from n on move up by one.                        *)
Shifts(H, H2, K, n) ==
  \A k \in Kinds, i, j \in Nat :
    H2[<<k, i, j>>] = IF k \notin K \/ i < n THEN H[<<k, i, j>>]
                      ELSE IF i = n THEN Null ELSE H[<<k, i - 1, j>>]

LEMMA OwnShift ==
  ASSUME NEW D, NEW H, Own(D, H), NEW H2 \in [Places -> Ptr],
         NEW K \in SUBSET Kinds, NEW n \in Nat, n > 0, Shifts(H, H2, K, n), Null \notin D
  PROVE  Own(D, H2)
<1> DEFINE Down(q) == IF q[1] \notin K \/ q[2] < n THEN q ELSE <<q[1], q[2] - 1, q[3]>>
           Up(q) == IF q[1] \notin K \/ q[2] < n THEN q ELSE <<q[1], q[2] + 1, q[3]>>
<1>1. ASSUME NEW q \in Places, H2[q] # Null PROVE Down(q) \in Places /\ H2[q] = H[Down(q)]
  <2>1. q[1] \in Kinds /\ q[2] \in Nat /\ q[3] \in Nat /\ q = <<q[1], q[2], q[3]>>
    BY PlaceIs
  <2>2. H2[q] = IF q[1] \notin K \/ q[2] < n THEN H[q]
                ELSE IF q[2] = n THEN Null ELSE H[<<q[1], q[2] - 1, q[3]>>]
    BY <2>1 DEF Shifts
  <2>3. CASE q[1] \notin K \/ q[2] < n
    BY <2>2, <2>3
  <2>4. CASE ~(q[1] \notin K \/ q[2] < n)
    <3>1. q[2] # n /\ q[2] - 1 \in Nat
      BY <1>1, <2>1, <2>2, <2>4
    <3>2. <<q[1], q[2] - 1, q[3]>> \in Places
      BY <2>1, <3>1, PlaceOf
    <3> QED BY <2>2, <2>4, <3>1, <3>2
  <2> QED BY <2>3, <2>4
<1>2. ASSUME NEW q \in Places PROVE Up(q) \in Places /\ H2[Up(q)] = H[q]
  <2>1. q[1] \in Kinds /\ q[2] \in Nat /\ q[3] \in Nat /\ q = <<q[1], q[2], q[3]>>
    BY PlaceIs
  <2>2. H2[q] = IF q[1] \notin K \/ q[2] < n THEN H[q]
                ELSE IF q[2] = n THEN Null ELSE H[<<q[1], q[2] - 1, q[3]>>]
    BY <2>1 DEF Shifts
  <2>3. CASE q[1] \notin K \/ q[2] < n
    BY <2>2, <2>3
  <2>4. CASE ~(q[1] \notin K \/ q[2] < n)
    <3>1. q[2] + 1 \in Nat /\ ~(q[2] + 1 < n) /\ q[2] + 1 # n /\ (q[2] + 1) - 1 = q[2]
      BY <2>1, <2>4
    <3>2. <<q[1], q[2] + 1, q[3]>> \in Places
      BY <2>1, <3>1, PlaceOf
    <3>3. H2[<<q[1], q[2] + 1, q[3]>>] = H[<<q[1], (q[2] + 1) - 1, q[3]>>]
      BY <2>1, <2>4, <3>1 DEF Shifts
    <3> QED BY <2>1, <2>4, <3>1, <3>2, <3>3
  <2> QED BY <2>3, <2>4
<1>3. ASSUME NEW q \in Places, NEW r \in Places, H2[q] = H2[r], H2[q] # Null PROVE q = r
  <2>1. Down(q) = Down(r)
    <3> HIDE DEF Down
    <3> QED BY <1>1, <1>3 DEF Own
  <2>2. /\ q[1] \in Kinds /\ q[2] \in Nat /\ q[3] \in Nat /\ q = <<q[1], q[2], q[3]>>
        /\ r[1] \in Kinds /\ r[2] \in Nat /\ r[3] \in Nat /\ r = <<r[1], r[2], r[3]>>
    BY PlaceIs
  <2>3. /\ H2[q] = IF q[1] \notin K \/ q[2] < n THEN H[q] ELSE IF q[2] = n THEN Null ELSE H[<<q[1], q[2] - 1, q[3]>>]
        /\ H2[r] = IF r[1] \notin K \/ r[2] < n THEN H[r] ELSE IF r[2] = n THEN Null ELSE H[<<r[1], r[2] - 1, r[3]>>]
    BY <2>2 DEF Shifts
  <2>0. H2[r] # Null
    BY <1>3
  <2>4. /\ ~(q[1] \in K /\ q[2] = n) /\ ~(r[1] \in K /\ r[2] = n)
    <3> HIDE DEF Down
    <3>1. q[1] \in K /\ q[2] = n => H2[q] = Null
      BY <2>2, <2>3
    <3>2. r[1] \in K /\ r[2] = n => H2[r] = Null
      BY <2>2, <2>3
    <3> QED BY <1>3, <2>0, <3>1, <3>2
  <2>5. Down(q)[1] = q[1] /\ Down(r)[1] = r[1] /\ Down(q)[3] = q[3] /\ Down(r)[3] = r[3]
    BY <2>2
  <2>6. /\ Down(q)[2] = IF q[1] \notin K \/ q[2] < n THEN q[2] ELSE q[2] - 1
        /\ Down(r)[2] = IF r[1] \notin K \/ r[2] < n THEN r[2] ELSE r[2] - 1
    BY <2>2
  <2> HIDE DEF Down
  <2>7. q[1] = r[1] /\ q[3] = r[3]
    BY <2>1, <2>5
  <2>8. q[2] = r[2]
    BY <2>1, <2>2, <2>4, <2>6, <2>7
  <2> QED BY <2>2, <2>7, <2>8
<1>4. ASSUME NEW q \in Places, H2[q] # Null PROVE H2[q] \in D
  <2> HIDE DEF Down
  <2> QED BY <1>1, <1>4 DEF Own
<1>5. ASSUME NEW c \in D PROVE \E q \in Places : H2[q] = c
  <2>1. PICK q \in Places : H[q] = c
    BY DEF Own
  <2> HIDE DEF Up
  <2> QED BY <1>2, <2>1
<1> QED BY <1>3, <1>4, <1>5 DEF Own

LEMMA Fields ==
  ASSUME NEW f \in Frame
  PROVE  /\ f.args \in Seq(Ptr) /\ Len(f.args) \in Nat
         /\ f.fn \in {"PRINT", "DOLINE"} \union Lines \union Parts \union Assigning \union {"lvalue", "DIM", "DIM,"}
         /\ f.fn \in Assigning => f \in Aiming
         /\ f.fn = "lvalue" => f \in Picking
         /\ f.fn \in {"DIM", "DIM,"} => f \in Filling
         /\ f.fn \notin Assigning \union {"lvalue", "DIM", "DIM,"} => f \in Plain
<1>1. CASE f \in Plain
  <2>1. f.args \in Seq(Ptr)
    BY <1>1 DEF Plain
  <2>2. f.fn \in {"PRINT", "DOLINE", "line", "line done", "PLUS", "$", "#"}
    BY <1>1 DEF Plain, Assigning, Lines, Parts
  <2>3. Len(f.args) \in Nat
    BY <2>1
  <2> QED BY <1>1, <2>1, <2>2, <2>3 DEF Assigning, Lines, Parts
<1>2. CASE f \in Aiming
  <2>1. f.args \in Seq(Ptr)
    BY <1>2 DEF Aiming
  <2>2. f.fn \in {"LET", "MID", "INPUT"}
    BY <1>2 DEF Aiming, Assigning, Lines, Parts
  <2>3. Len(f.args) \in Nat
    BY <2>1
  <2> QED BY <1>2, <2>1, <2>2, <2>3 DEF Assigning, Lines, Parts
<1>3. CASE f \in Picking
  <2>1. f.args \in Seq(Ptr)
    BY <1>3 DEF Picking
  <2>2. f.fn \in {"lvalue"}
    BY <1>3 DEF Picking, Assigning, Lines, Parts
  <2>3. Len(f.args) \in Nat
    BY <2>1
  <2> QED BY <1>3, <2>1, <2>2, <2>3 DEF Assigning, Lines, Parts
<1>4. CASE f \in Filling
  <2>1. f.args \in Seq(Ptr)
    BY <1>4 DEF Filling
  <2>2. f.fn \in {"DIM", "DIM,"}
    BY <1>4 DEF Filling, Assigning, Lines, Parts
  <2>3. Len(f.args) \in Nat
    BY <2>1
  <2> QED BY <1>4, <2>1, <2>2, <2>3 DEF Assigning, Lines, Parts
<1> QED BY <1>1, <1>2, <1>3, <1>4 DEF Frame

LEMMA HeldType ==
  ASSUME NEW h, NEW s, NEW T, NEW R, Tabled(h, T), Filed(R), s \in Seq(Frame)
  PROVE  Held(s, T, R) \in [Places -> Ptr]
<1> SUFFICES ASSUME NEW p \in Places PROVE Holding(s, T, R, p) \in Ptr
  BY DEF Held
<1>1. ASSUME NEW i \in 1 .. Len(s), NEW k \in 1 .. Len(s[i].args) PROVE s[i].args[k] \in Ptr
  <2>1. s[i] \in Frame
    OBVIOUS
  <2>2. s[i].args \in Seq(Ptr)
    BY <2>1, Fields
  <2> QED BY <2>2
<1>2. ASSUME NEW i \in 1 .. Len(VarsOf(T)) PROVE VarsOf(T)[i].sval \in Ptr
  <2>1. VarsOf(T)[i] \in Scalar
    BY DEF Tabled
  <2> QED BY <2>1 DEF Scalar
<1>3. ASSUME NEW j \in 1 .. Len(DimsOf(T))
      PROVE  DimsOf(T)[j].data \in Ptr /\ \A i \in 1 .. Len(DimsOf(T)[j].str) : DimsOf(T)[j].str[i] \in Ptr
  <2>1. DimsOf(T)[j] \in Matrix
    BY DEF Tabled
  <2>2. DimsOf(T)[j].str \in Seq(Ptr) /\ DimsOf(T)[j].data \in Ptr
    BY <2>1 DEF Matrix
  <2> QED BY <2>2
<1>4. VarBlock(T) \in Ptr /\ DimBlock(T) \in Ptr /\ R[1] \in Ptr /\ R[3] \in Ptr /\ Null \in Ptr
  BY DEF Tabled, Filed, Ptr
<1>5. \A i \in 1 .. FATPTRNUM : R[2][i].ptr \in Ptr
  BY DEF Filed, File
<1> QED BY <1>1, <1>2, <1>3, <1>4, <1>5 DEF Holding

LEMMA HeldAt ==
  ASSUME NEW s, NEW T, NEW R, NEW p \in Places
  PROVE  Held(s, T, R)[p] = Holding(s, T, R, p)
BY DEF Held

LEMMA PlaceParts ==
  ASSUME NEW k, NEW i, NEW j, <<k, i, j>> \in Places
  PROVE  <<k, i, j>>[1] = k /\ <<k, i, j>>[2] = i /\ <<k, i, j>>[3] = j
         /\ k \in Kinds /\ i \in Nat /\ j \in Nat
BY DEF Places

(* What the tables, the files and the stack hold is in use and nobody's    *)
(* else.                                                                   *)
LEMMA InUse ==
  ASSUME NEW X, NEW s, NEW h, NEW T, NEW R, Sound(X, s, h, T, R)
  PROVE  /\ VarBlock(T) # Null => VarBlock(T) \in DOMAIN h \ X
         /\ DimBlock(T) # Null => DimBlock(T) \in DOMAIN h \ X
         /\ R[1] # Null => R[1] \in DOMAIN h \ X
         /\ R[3] # Null => R[3] \in DOMAIN h \ X
         /\ \A i \in 1 .. FATPTRNUM : R[2][i].ptr # Null => R[2][i].ptr \in DOMAIN h \ X
         /\ \A i \in 1 .. Len(VarsOf(T)) :
              VarsOf(T)[i].sval # Null => VarsOf(T)[i].sval \in DOMAIN h \ X
         /\ \A j \in 1 .. Len(DimsOf(T)) :
              DimsOf(T)[j].data # Null => DimsOf(T)[j].data \in DOMAIN h \ X
         /\ \A j \in 1 .. Len(DimsOf(T)) : \A i \in 1 .. Len(DimsOf(T)[j].str) :
              <<j, i>> \notin Unborn(s) /\ DimsOf(T)[j].str[i] # Null => DimsOf(T)[j].str[i] \in DOMAIN h \ X
         /\ \A i \in 1 .. Len(s) : \A k \in 1 .. Len(s[i].args) :
              s[i].args[k] # Null => s[i].args[k] \in DOMAIN h \ X
<1> DEFINE H == Held(s, T, R)
<1>1. \A p \in Places : Holding(s, T, R, p) # Null => Holding(s, T, R, p) \in DOMAIN h \ X
  BY HeldAt DEF Sound, Own
<1>2. /\ Len(s) \in Nat /\ Len(VarsOf(T)) \in Nat /\ Len(DimsOf(T)) \in Nat
      /\ \A i \in 1 .. Len(s) : Len(s[i].args) \in Nat
      /\ \A j \in 1 .. Len(DimsOf(T)) : Len(DimsOf(T)[j].str) \in Nat
  <2>1. s \in Seq(Frame) /\ VarsOf(T) \in Seq(Scalar) /\ DimsOf(T) \in Seq(Matrix)
    BY DEF Sound, Stacked, Tabled
  <2>2. ASSUME NEW i \in 1 .. Len(s) PROVE Len(s[i].args) \in Nat
    <3>1. s[i] \in Frame
      BY <2>1
    <3> QED BY <3>1, Fields
  <2>3. ASSUME NEW j \in 1 .. Len(DimsOf(T)) PROVE Len(DimsOf(T)[j].str) \in Nat
    <3>1. DimsOf(T)[j] \in Matrix
      BY <2>1
    <3> QED BY <3>1 DEF Matrix
  <2> QED BY <2>1, <2>2, <2>3
<1>3. ASSUME NEW k \in Kinds, NEW i \in Nat, NEW j \in Nat, Holding(s, T, R, <<k, i, j>>) # Null
      PROVE  Holding(s, T, R, <<k, i, j>>) \in DOMAIN h \ X
  BY <1>1, <1>3, PlaceOf
<1>4. /\ Holding(s, T, R, <<"vartable", 0, 0>>) = VarBlock(T)
      /\ Holding(s, T, R, <<"dimtable", 0, 0>>) = DimBlock(T)
      /\ Holding(s, T, R, <<"labels", 0, 0>>) = R[1]
      /\ Holding(s, T, R, <<"input", 0, 0>>) = R[3]
      /\ \A i \in 1 .. FATPTRNUM : Holding(s, T, R, <<"files", i, 0>>) = R[2][i].ptr
      /\ \A i \in 1 .. Len(VarsOf(T)) : Holding(s, T, R, <<"variables", i, 0>>) = VarsOf(T)[i].sval
      /\ \A i \in 1 .. Len(DimsOf(T)) : Holding(s, T, R, <<"arrays", i, 0>>) = DimsOf(T)[i].data
  BY DEF Holding
<1>5. \A j \in 1 .. Len(DimsOf(T)) : \A i \in 1 .. Len(DimsOf(T)[j].str) :
        <<j, i>> \notin Unborn(s) => Holding(s, T, R, <<"elements", j, i>>) = DimsOf(T)[j].str[i]
  BY DEF Holding
<1>6. \A i \in 1 .. Len(s) : \A k \in 1 .. Len(s[i].args) :
        Holding(s, T, R, <<"stack", i, k>>) = s[i].args[k]
  BY DEF Holding
<1>7. {"vartable", "dimtable", "labels", "input", "files", "variables", "arrays", "elements", "stack"} \subseteq Kinds
  BY DEF Kinds
<1>8. \A i \in 1 .. FATPTRNUM : i \in Nat
  BY MemoryAssumption
<1>9. ASSUME NEW i \in 1 .. Len(VarsOf(T)), VarsOf(T)[i].sval # Null PROVE VarsOf(T)[i].sval \in DOMAIN h \ X
  <2>1. i \in Nat
    BY <1>2
  <2> QED BY <1>3, <1>4, <1>7, <1>9, <2>1
<1>10. ASSUME NEW j \in 1 .. Len(DimsOf(T)), DimsOf(T)[j].data # Null PROVE DimsOf(T)[j].data \in DOMAIN h \ X
  <2>1. j \in Nat
    BY <1>2
  <2> QED BY <1>3, <1>4, <1>7, <1>10, <2>1
<1>11. \A i \in 1 .. FATPTRNUM : R[2][i].ptr # Null => R[2][i].ptr \in DOMAIN h \ X
  BY <1>3, <1>4, <1>7, <1>8
<1>12. ASSUME NEW j \in 1 .. Len(DimsOf(T)), NEW i \in 1 .. Len(DimsOf(T)[j].str),
              <<j, i>> \notin Unborn(s), DimsOf(T)[j].str[i] # Null
       PROVE  DimsOf(T)[j].str[i] \in DOMAIN h \ X
  <2>1. j \in Nat /\ i \in Nat
    BY <1>2
  <2> QED BY <1>3, <1>5, <1>7, <1>12, <2>1, ZenonT(40)
<1>13. ASSUME NEW i \in 1 .. Len(s), NEW k \in 1 .. Len(s[i].args), s[i].args[k] # Null
       PROVE  s[i].args[k] \in DOMAIN h \ X
  <2>1. k \in Nat /\ i \in Nat
    BY <1>2
  <2> QED BY <1>3, <1>6, <1>7, <1>13, <2>1, ZenonT(40)
<1>14. /\ VarBlock(T) # Null => VarBlock(T) \in DOMAIN h \ X
       /\ DimBlock(T) # Null => DimBlock(T) \in DOMAIN h \ X
       /\ R[1] # Null => R[1] \in DOMAIN h \ X
       /\ R[3] # Null => R[3] \in DOMAIN h \ X
  BY <1>3, <1>4, <1>7
<1> QED BY <1>9, <1>10, <1>11, <1>12, <1>13, <1>14

-----------------------------------------------------------------------------
(* The heap changes where nobody holds anything                            *)

LEMMA NoNull ==
  ASSUME NEW X, NEW h, Blocked(X, h)
  PROVE  Null \notin DOMAIN h /\ X \subseteq Blocks /\ Null \notin X
BY MemoryAssumption DEF Blocked

LEMMA HeapKeeps ==
  ASSUME NEW X, NEW s, NEW h, NEW T, NEW R, NEW g, Good(X, s, h, T, R, g),
         NEW X2, NEW h2, Blocked(X2, h2),
         DOMAIN h2 \ X2 = DOMAIN h \ X, \A b \in DOMAIN h \ X : h2[b] = h[b]
  PROVE  Good(X2, s, h2, T, R, g)
<1>0. Sound(X, s, h, T, R) /\ Shown(g, s, h, T)
  BY DEF Good
<1>1. /\ Blocked(X, h) /\ Tabled(h, T) /\ Filed(R) /\ Stacked(s, T)
      /\ Own(DOMAIN h \ X, Held(s, T, R))
  BY <1>0 DEF Sound
<1>2. Null \notin DOMAIN h /\ Null \notin DOMAIN h2
  BY <1>1, NoNull
<1>3. /\ VarBlock(T) # Null => VarBlock(T) \in DOMAIN h \ X
      /\ DimBlock(T) # Null => DimBlock(T) \in DOMAIN h \ X
      /\ \A i \in 1 .. Len(VarsOf(T)) :
           VarsOf(T)[i].sval # Null => VarsOf(T)[i].sval \in DOMAIN h \ X
      /\ \A j \in 1 .. Len(DimsOf(T)) :
           DimsOf(T)[j].data # Null => DimsOf(T)[j].data \in DOMAIN h \ X
      /\ \A j \in 1 .. Len(DimsOf(T)) : \A i \in 1 .. Len(DimsOf(T)[j].str) :
           <<j, i>> \notin Unborn(s) /\ DimsOf(T)[j].str[i] # Null => DimsOf(T)[j].str[i] \in DOMAIN h \ X
  BY <1>0, InUse
<1>4. \A b \in DOMAIN h \ X : b \in DOMAIN h2
  OBVIOUS
<1>5. Tabled(h2, T)
  <2>1. Roomy(h2, VarsOf(T), VarBlock(T)) /\ Roomy(h2, DimsOf(T), DimBlock(T))
    BY <1>1, <1>2, <1>3, <1>4 DEF Tabled, Roomy
  <2>2. \A j \in 1 .. Len(DimsOf(T)) : Sizable(h2, DimsOf(T)[j])
    BY <1>1, <1>2, <1>3, <1>4 DEF Tabled, Sizable
  <2> QED BY <1>1, <2>1, <2>2 DEF Tabled
<1>7. Shown(g, s, h2, T)
  <2>1. \A i \in 1 .. Len(VarsOf(T)) : Reads(h2, VarsOf(T)[i].sval) = Reads(h, VarsOf(T)[i].sval)
    BY <1>2, <1>3, <1>4 DEF Reads
  <2>2. \A j \in 1 .. Len(DimsOf(T)) : \A i \in 1 .. Len(DimsOf(T)[j].str) :
           <<j, i>> \notin Unborn(s) => Reads(h2, DimsOf(T)[j].str[i]) = Reads(h, DimsOf(T)[j].str[i])
    BY <1>2, <1>3, <1>4 DEF Reads
  <2>3. \A i \in 1 .. Len(VarsOf(T)) :
          VarsOf(T)[i].id \in StringNames => g[1][VarsOf(T)[i].id] = Reads(h2, VarsOf(T)[i].sval)
    BY <1>0, <2>1 DEF Shown
  <2>4. \A j \in 1 .. Len(DimsOf(T)) : DimsOf(T)[j].id \in StringArrays =>
          /\ DOMAIN g[2][DimsOf(T)[j].id] = 1 .. Len(DimsOf(T)[j].str)
          /\ \A i \in 1 .. Len(DimsOf(T)[j].str) : <<j, i>> \notin Unborn(s) =>
                g[2][DimsOf(T)[j].id][i] = Reads(h2, DimsOf(T)[j].str[i])
    BY <1>0, <2>2 DEF Shown
  <2> QED BY <1>0, <2>3, <2>4 DEF Shown
<1>8. Own(DOMAIN h2 \ X2, Held(s, T, R))
  BY <1>1
<1> QED BY <1>1, <1>5, <1>7, <1>8 DEF Good, Sound

(* A block is taken, changed, or given back.                               *)
LEMMA MallocKeeps ==
  ASSUME NEW X, NEW s, NEW h, NEW T, NEW R, NEW g, Good(X, s, h, T, R, g),
         NEW c \in Content, NEW m \in malloc(h, c)
  PROVE  /\ m.p \in Ptr /\ m.p \notin DOMAIN h
         /\ Good(X \union ({m.p} \ {Null}), s, m.h, T, R, g)
         /\ m.p = Null => m.h = h
         /\ m.p # Null => m.h = Put(h, m.p, c)
<1>0. Blocked(X, h)
  BY DEF Good, Sound
<1>1. CASE m = [p |-> Null, h |-> h]
  <2>1. X \union ({m.p} \ {Null}) = X /\ m.h = h /\ m.p = Null
    BY <1>1
  <2> QED BY <1>0, <2>1, NoNull DEF Ptr
<1>2. ASSUME NEW b \in Spare(h), m = [p |-> b, h |-> Put(h, b, c)]
      PROVE  /\ m.p \in Ptr /\ m.p \notin DOMAIN h
             /\ Good(X \union ({m.p} \ {Null}), s, m.h, T, R, g)
             /\ m.p = Null => m.h = h
             /\ m.p # Null => m.h = Put(h, m.p, c)
  <2>1. b \in Blocks /\ b \notin DOMAIN h
    BY DEF Spare
  <2>2. b # Null /\ m.p = b /\ m.h = Put(h, b, c)
    BY <1>2, <2>1, MemoryAssumption
  <2>3. /\ DOMAIN Put(h, b, c) = DOMAIN h \union {b}
        /\ \A d \in DOMAIN h : Put(h, b, c)[d] = h[d]
        /\ Put(h, b, c)[b] = c
    BY <2>1 DEF Put
  <2>4. Blocked(X \union {b}, Put(h, b, c))
    BY <1>0, <2>1, <2>3 DEF Blocked
  <2>5. DOMAIN Put(h, b, c) \ (X \union {b}) = DOMAIN h \ X
    BY <2>1, <2>3
  <2>6. Good(X \union {b}, s, Put(h, b, c), T, R, g)
    BY <2>3, <2>4, <2>5, HeapKeeps
  <2>7. X \union ({m.p} \ {Null}) = X \union {b}
    BY <2>2
  <2> QED BY <2>1, <2>2, <2>6, <2>7 DEF Ptr
<1> QED BY <1>1, <1>2 DEF malloc

LEMMA FreeKeeps ==
  ASSUME NEW X, NEW s, NEW h, NEW T, NEW R, NEW g, Good(X, s, h, T, R, g),
         NEW P, P \subseteq X \union {Null}
  PROVE  Good(X \ P, s, free(h, P), T, R, g)
<1>0. Blocked(X, h)
  BY DEF Good, Sound
<1>1. DOMAIN free(h, P) = DOMAIN h \ P /\ \A d \in DOMAIN h \ P : free(h, P)[d] = h[d]
  BY DEF free
<1>2. Blocked(X \ P, free(h, P))
  BY <1>0, <1>1 DEF Blocked
<1>3. DOMAIN free(h, P) \ (X \ P) = DOMAIN h \ X
  BY <1>0, <1>1, NoNull
<1>4. \A d \in DOMAIN h \ X : free(h, P)[d] = h[d]
  BY <1>0, <1>1, NoNull
<1> QED BY <1>2, <1>3, <1>4, HeapKeeps

LEMMA PutKeeps ==
  ASSUME NEW X, NEW s, NEW h, NEW T, NEW R, NEW g, Good(X, s, h, T, R, g),
         NEW c \in Content, NEW b \in X
  PROVE  Good(X, s, Put(h, b, c), T, R, g)
<1>0. Blocked(X, h)
  BY DEF Good, Sound
<1>1. b \in DOMAIN h /\ DOMAIN Put(h, b, c) = DOMAIN h
      /\ Put(h, b, c)[b] = c /\ \A d \in DOMAIN h : d # b => Put(h, b, c)[d] = h[d]
  BY <1>0 DEF Put, Blocked
<1>2. Blocked(X, Put(h, b, c))
  BY <1>0, <1>1 DEF Blocked
<1> QED BY <1>1, <1>2, HeapKeeps

(* realloc of a block nobody holds.                                        *)
LEMMA ReallocKeeps ==
  ASSUME NEW X, NEW s, NEW h, NEW T, NEW R, NEW g, Good(X, s, h, T, R, g),
         NEW c \in Content, NEW p \in X \union {Null}, NEW m \in realloc(h, p, c)
  PROVE  /\ m.p \in Ptr /\ m.p \notin DOMAIN h \ X
         /\ m.p = Null => m.h = h
         /\ m.p # Null => /\ Good((X \ {p}) \union {m.p}, s, m.h, T, R, g)
                          /\ m.p \in DOMAIN m.h /\ m.h[m.p] = c
<1>0. Blocked(X, h)
  BY DEF Good, Sound
<1>1. CASE p = Null
  <2>0. m \in malloc(h, c)
    BY <1>1 DEF realloc
  <2>1. /\ m.p \in Ptr /\ m.p \notin DOMAIN h
        /\ Good(X \union ({m.p} \ {Null}), s, m.h, T, R, g)
        /\ m.p = Null => m.h = h
        /\ m.p # Null => m.h = Put(h, m.p, c)
    BY <2>0, MallocKeeps
  <2>2. ASSUME m.p # Null PROVE X \union ({m.p} \ {Null}) = (X \ {p}) \union {m.p}
    BY <1>0, <1>1, <2>2, NoNull
  <2>3. m.p # Null => m.p \in DOMAIN m.h /\ m.h[m.p] = c
    BY <2>1 DEF Put
  <2> QED BY <2>1, <2>2, <2>3
<1>2. CASE p # Null
  <2>0. p \in X /\ p \in DOMAIN h /\ p \in Blocks
    BY <1>0, <1>2 DEF Blocked
  <2>1. CASE m = [p |-> Null, h |-> h]
    BY <1>0, <2>1, NoNull DEF Ptr
  <2>2. CASE m = [p |-> p, h |-> Put(h, p, c)]
    <3>1. m.p = p /\ m.h = Put(h, p, c)
      BY <2>2
    <3>2. (X \ {p}) \union {m.p} = X
      BY <2>0, <3>1
    <3>3. Good(X, s, Put(h, p, c), T, R, g)
      BY <2>0, PutKeeps
    <3>4. p \in DOMAIN Put(h, p, c) /\ Put(h, p, c)[p] = c
      BY DEF Put
    <3>5. Good((X \ {p}) \union {m.p}, s, m.h, T, R, g)
      BY <3>1, <3>2, <3>3
    <3>6. m.p \in Ptr /\ m.p \notin DOMAIN h \ X /\ m.p # Null
      BY <1>2, <2>0, <3>1 DEF Ptr
    <3> QED BY <3>1, <3>4, <3>5, <3>6
  <2>3. ASSUME NEW b \in Spare(h), m = [p |-> b, h |-> Put(free(h, {p}), b, c)]
        PROVE  /\ m.p \in Ptr /\ m.p \notin DOMAIN h \ X
               /\ m.p = Null => m.h = h
               /\ m.p # Null => /\ Good((X \ {p}) \union {m.p}, s, m.h, T, R, g)
                                /\ m.p \in DOMAIN m.h /\ m.h[m.p] = c
    <3>1. m.p = b /\ m.h = Put(free(h, {p}), b, c)
      BY <2>3
    <3>2. b \in Blocks /\ b \notin DOMAIN h /\ b # Null
      BY MemoryAssumption DEF Spare
    <3> DEFINE h1 == free(h, {p})
               h2 == Put(h1, b, c)
    <3>3. DOMAIN h1 = DOMAIN h \ {p} /\ \A d \in DOMAIN h \ {p} : h1[d] = h[d]
      BY DEF free
    <3>4. /\ DOMAIN h2 = DOMAIN h1 \union {b} /\ h2[b] = c
          /\ \A d \in DOMAIN h1 : d # b => h2[d] = h1[d]
      BY DEF Put
    <3>5. m.h = h2
      BY <3>1
    <3> HIDE DEF h1, h2
    <3>6. Blocked((X \ {p}) \union {b}, h2)
      BY <1>0, <3>2, <3>3, <3>4 DEF Blocked
    <3>7. DOMAIN h2 \ ((X \ {p}) \union {b}) = DOMAIN h \ X
      BY <1>0, <2>0, <3>2, <3>3, <3>4 DEF Blocked
    <3>8. \A d \in DOMAIN h \ X : h2[d] = h[d]
      BY <2>0, <3>2, <3>3, <3>4
    <3>9. Good((X \ {p}) \union {b}, s, h2, T, R, g)
      BY <3>6, <3>7, <3>8, HeapKeeps
    <3> QED BY <3>1, <3>2, <3>4, <3>5, <3>9 DEF Ptr
  <2> QED BY <1>2, <2>1, <2>2, <2>3 DEF realloc
<1> QED BY <1>1, <1>2

-----------------------------------------------------------------------------
(* The stack changes                                                       *)

(* What is in one place changes places with something nobody holds.        *)
LEMMA SwapKeeps ==
  ASSUME NEW X, NEW h, Blocked(X, h), NEW H, Own(DOMAIN h \ X, H), NEW H2 \in [Places -> Ptr],
         NEW q \in Places, NEW p \in X \union {Null},
         \A r \in Places : H2[r] = IF r = q THEN p ELSE H[r],
         NEW X2, X2 = (X \ {p}) \union ({H[q]} \ {Null})
  PROVE  Blocked(X2, h) /\ Own(DOMAIN h \ X2, H2)
<1> DEFINE D == DOMAIN h \ X
<1>1. X \subseteq DOMAIN h /\ DOMAIN h \subseteq Blocks /\ Null \notin DOMAIN h
  BY NoNull DEF Blocked
<1>2. p \in Ptr /\ p \notin D /\ Own(D, H)
  BY <1>1 DEF Ptr
<1>3. Own((D \ {H[q]}) \union ({p} \ {Null}), H2)
  <2> HIDE DEF D
  <2> QED BY <1>2, OwnSwap
<1>4. H[q] # Null => H[q] \in D
  BY DEF Own
<1>5. (D \ {H[q]}) \union ({p} \ {Null}) = DOMAIN h \ X2
  BY <1>1, <1>4
<1>6. Blocked(X2, h)
  BY <1>1, <1>4 DEF Blocked
<1> QED BY <1>3, <1>5, <1>6

(* A stack that holds p in a place that was empty.                         *)
LEMMA StackTakes ==
  ASSUME NEW X, NEW s, NEW h, NEW T, NEW R, NEW g, Good(X, s, h, T, R, g),
         NEW s2, Stacked(s2, T), Unborn(s2) = Unborn(s),
         NEW q \in Places, NEW p \in X \union {Null}, Holding(s, T, R, q) = Null,
         \A r \in Places : Holding(s2, T, R, r) = IF r = q THEN p ELSE Holding(s, T, R, r)
  PROVE  Good(X \ {p}, s2, h, T, R, g)
<1>1. Blocked(X, h) /\ Tabled(h, T) /\ Filed(R) /\ Own(DOMAIN h \ X, Held(s, T, R)) /\ Shown(g, s, h, T)
  BY DEF Good, Sound
<1> DEFINE H == Held(s, T, R)
           H2 == Held(s2, T, R)
           X2 == X \ {p}
<1>2. H2 \in [Places -> Ptr] /\ Own(DOMAIN h \ X, H)
  BY <1>1, HeldType DEF Stacked
<1>3. \A r \in Places : H2[r] = IF r = q THEN p ELSE H[r]
  BY HeldAt
<1>4. X2 = (X \ {p}) \union ({H[q]} \ {Null})
  BY HeldAt
<1>5. Blocked(X2, h) /\ Own(DOMAIN h \ X2, H2)
  <2> HIDE DEF H, H2, X2
  <2> QED BY <1>1, <1>2, <1>3, <1>4, SwapKeeps
<1>6. Shown(g, s2, h, T)
  BY <1>1 DEF Shown
<1> QED BY <1>1, <1>5, <1>6 DEF Good, Sound

Below(s) == SubSeq(s, 1, Len(s) - 1)

LEMMA BelowIs ==
  ASSUME NEW s \in Seq(Frame), s # <<>>
  PROVE  /\ Len(s) \in Nat /\ Len(s) >= 1 /\ s[Len(s)] \in Frame
         /\ Below(s) \in Seq(Frame) /\ Len(Below(s)) = Len(s) - 1
         /\ \A i \in 1 .. Len(s) - 1 : Below(s)[i] = s[i]
<1>1. Len(s) \in Nat /\ Len(s) >= 1 /\ s[Len(s)] \in Frame
  BY EmptySeq
<1>2. \A i \in 1 .. Len(s) - 1 : s[i] \in Frame
  BY <1>1
<1> DEFINE n == Len(s) - 1
<1>3. n \in Int /\ \A i \in 1 .. n : s[i] \in Frame
  BY <1>1, <1>2
<1>4. /\ SubSeq(s, 1, n) \in Seq(Frame)
      /\ Len(SubSeq(s, 1, n)) = IF 1 <= n THEN n - 1 + 1 ELSE 0
      /\ \A i \in 1 .. n - 1 + 1 : SubSeq(s, 1, n)[i] = s[1 + i - 1]
  <2> HIDE DEF n
  <2> QED BY <1>3, SubSeqProperties
<1>0. n \in Int /\ n >= 0
  BY <1>1
<1>5. n - 1 + 1 = n /\ (~(1 <= n) => n = 0) /\ \A i \in 1 .. n : 1 + i - 1 = i
  <2> HIDE DEF n
  <2> QED BY ONLY <1>0
<1>6. Below(s) = SubSeq(s, 1, n)
  BY DEF Below
<1> HIDE DEF n
<1>7. Len(SubSeq(s, 1, n)) = n /\ \A i \in 1 .. n : SubSeq(s, 1, n)[i] = s[i]
  BY <1>4, <1>5
<1> QED BY <1>1, <1>4, <1>6, <1>7 DEF n

(* The frame on top is done with; nobody holds its strings.                *)
LEMMA PopKeeps ==
  ASSUME NEW X, NEW s, NEW h, NEW T, NEW R, NEW g, Good(X, s, h, T, R, g),
         s # <<>>, s[Len(s)].fn # "DIM",
         NEW B, B = Pointers(s[Len(s)].args) \ {Null}
  PROVE  Good(X \union B, Below(s), h, T, R, g) /\ B \subseteq DOMAIN h \ X
<1>1. /\ Blocked(X, h) /\ Tabled(h, T) /\ Filed(R) /\ Stacked(s, T)
      /\ Own(DOMAIN h \ X, Held(s, T, R)) /\ Shown(g, s, h, T)
  BY DEF Good, Sound
<1>2. /\ s \in Seq(Frame) /\ Len(s) \in Nat /\ Len(s) >= 1 /\ s[Len(s)] \in Frame
      /\ Below(s) \in Seq(Frame) /\ Len(Below(s)) = Len(s) - 1
      /\ \A i \in 1 .. Len(s) - 1 : Below(s)[i] = s[i]
  BY <1>1, BelowIs DEF Stacked
<1> DEFINE a == s[Len(s)].args
           Q == {<<"stack", Len(s), k>> : k \in 1 .. Len(a)}
<1>3. a \in Seq(Ptr) /\ Len(a) \in Nat /\ DOMAIN a = 1 .. Len(a)
  <2>1. s[Len(s)].args \in Seq(Ptr)
    BY <1>2, Fields
  <2> QED BY <2>1
<1>4. B \subseteq DOMAIN h \ X
  <2>1. ASSUME NEW b \in B PROVE b \in DOMAIN h \ X
    <3>1. PICK k \in 1 .. Len(a) : b = a[k]
      BY <1>3 DEF Pointers
    <3>2. Len(s) \in 1 .. Len(s) /\ b # Null
      BY <1>2
    <3>3. Sound(X, s, h, T, R)
      BY DEF Good
    <3>4. \A i \in 1 .. Len(s) : \A n \in 1 .. Len(s[i].args) :
              s[i].args[n] # Null => s[i].args[n] \in DOMAIN h \ X
      BY ONLY <3>3, InUse
    <3> QED BY <3>1, <3>2, <3>4
  <2> QED BY <2>1
<1>5. Unborn(Below(s)) = Unborn(s)
  <2>1. {k \in 1 .. Len(Below(s)) : Below(s)[k].fn = "DIM"} = {k \in 1 .. Len(s) : s[k].fn = "DIM"}
    BY <1>2
  <2>2. \A k \in {n \in 1 .. Len(s) : s[n].fn = "DIM"} : Below(s)[k] = s[k]
    BY <1>2
  <2> QED BY <2>1, <2>2 DEF Unborn
<1>6. Stacked(Below(s), T)
  <2>1. Shaped(Below(s))
    <3>1. Shaped(s)
      BY <1>1 DEF Stacked
    <3> SUFFICES ASSUME NEW i \in 1 .. Len(Below(s))
                 PROVE  /\ s[i].fn \in Lines \union {"DOLINE"} => i = 1
                        /\ s[i].fn \notin Lines \union Parts => i = 1 \/ (i = 2 /\ Below(s)[1].fn \in Lines)
                        /\ s[i].fn \in Parts => i > 1
                        /\ s[i].fn \in {"PLUS", "$"} =>
                             Len(Below(s)[i - 1].args) < MaxArgs(Below(s)[i - 1].fn)
                        /\ s[i].fn \notin Lines => Len(s[i].args) <= MaxArgs(s[i].fn)
      BY <1>2 DEF Shaped
    <3>2. i \in 1 .. Len(s) /\ Below(s)[1] = s[1] /\ (i > 1 => Below(s)[i - 1] = s[i - 1])
      BY <1>2
    <3>3. s[i].fn \in {"PLUS", "$"} => i > 1
      BY <3>1, <3>2 DEF Shaped, Parts
    <3> QED BY <3>1, <3>2, <3>3 DEF Shaped
  <2>2. \A i \in 1 .. Len(Below(s)) : Aimed(Below(s)[i], T)
    BY <1>1, <1>2 DEF Stacked
  <2> QED BY <1>2, <2>1, <2>2 DEF Stacked
<1>7. ASSUME NEW q \in Places
      PROVE  Held(Below(s), T, R)[q] = IF q \in Q THEN Null ELSE Held(s, T, R)[q]
  <2>1. q[1] \in Kinds /\ q[2] \in Nat /\ q[3] \in Nat /\ q = <<q[1], q[2], q[3]>>
    BY PlaceIs
  <2>2. q \in Q <=> q[1] = "stack" /\ q[2] = Len(s) /\ q[3] \in 1 .. Len(a)
    BY <2>1
  <2> HIDE DEF Q
  <2>3. Holding(Below(s), T, R, q) = IF q \in Q THEN Null ELSE Holding(s, T, R, q)
    <3>1. CASE q[1] # "stack"
      BY <1>5, <2>2, <3>1 DEF Holding
    <3>2. CASE q[1] = "stack" /\ q[2] \in 1 .. Len(s) - 1
      BY <1>2, <2>1, <2>2, <3>2 DEF Holding
    <3>3. CASE q[1] = "stack" /\ q[2] \notin 1 .. Len(s) - 1
      BY <1>2, <2>1, <2>2, <3>3 DEF Holding
    <3> QED BY <3>1, <3>2, <3>3
  <2> QED BY <2>3, HeldAt
<1>8. Q \in SUBSET Places
  BY <1>2, <1>3, PlaceOf DEF Kinds
<1>9. ASSUME NEW k \in 1 .. Len(a) PROVE Held(s, T, R)[<<"stack", Len(s), k>>] = a[k]
  <2>1. <<"stack", Len(s), k>> \in Places
    BY <1>2, <1>3, PlaceOf DEF Kinds
  <2>2. Held(s, T, R)[<<"stack", Len(s), k>>] = Holding(s, T, R, <<"stack", Len(s), k>>)
    BY <2>1, HeldAt
  <2> QED BY <1>2, <1>3, <2>2 DEF Holding
<1>10. (\A b \in B : \E q \in Q : b = Held(s, T, R)[q]) /\ \A q \in Q : Held(s, T, R)[q] # Null => Held(s, T, R)[q] \in B
  BY <1>3, <1>9 DEF Pointers
<1>11. Held(Below(s), T, R) \in [Places -> Ptr]
  BY <1>1, <1>2, HeldType
<1>12. Own((DOMAIN h \ X) \ B, Held(Below(s), T, R))
  <2> HIDE DEF Q
  <2> QED BY <1>1, <1>7, <1>8, <1>10, <1>11, OwnDrop
<1>13. (DOMAIN h \ X) \ B = DOMAIN h \ (X \union B)
  OBVIOUS
<1>14. Blocked(X \union B, h)
  BY <1>1, <1>4 DEF Blocked
<1>15. Shown(g, Below(s), h, T)
  BY <1>1, <1>5 DEF Shown
<1> QED BY <1>1, <1>4, <1>6, <1>12, <1>13, <1>14, <1>15 DEF Good, Sound

(* Two frames that differ in their strings, or in that a line is done.     *)
Alike(f, f2) ==
  /\ f2 \in Frame /\ (f2.fn = f.fn \/ {f.fn, f2.fn} \subseteq Lines)
  /\ f.fn \in Assigning => f2.at = f.at /\ f2.old = f.old /\ f2.of = f.of
  /\ f.fn = "lvalue" => f2.at = f.at /\ f2.array = f.array
  /\ f.fn \in {"DIM", "DIM,"} => f2.at = f.at /\ f2.array = f.array /\ f2.i = f.i /\ f2.of = f.of

LEMMA AlikeAimed ==
  ASSUME NEW f, NEW f2, Alike(f, f2), NEW T, Aimed(f, T)
  PROVE  Aimed(f2, T)
BY DEF Alike, Aimed, AtScalar, AtElement, Assigning, Lines

With(f, a) == [f EXCEPT !.args = a]

LEMMA WithIs ==
  ASSUME NEW f \in Frame, NEW a \in Seq(Ptr)
  PROVE  With(f, a) \in Frame /\ With(f, a).fn = f.fn /\ With(f, a).args = a /\ Alike(f, With(f, a))
<1>1. CASE f \in Plain
  <2>1. With(f, a) \in Plain /\ With(f, a).fn = f.fn /\ With(f, a).args = a
    BY <1>1 DEF With, Plain
  <2>2. f.fn \notin Assigning \union {"lvalue", "DIM", "DIM,"}
    BY <1>1 DEF Plain, Assigning, Lines, Parts
  <2> QED BY <2>1, <2>2 DEF Alike, Frame
<1>2. CASE f \in Aiming
  <2>1. With(f, a) \in Aiming /\ With(f, a).fn = f.fn /\ With(f, a).args = a
        /\ With(f, a).at = f.at /\ With(f, a).old = f.old /\ With(f, a).of = f.of
    BY <1>2 DEF With, Aiming
  <2>2. f.fn \notin {"lvalue", "DIM", "DIM,"}
    BY <1>2 DEF Aiming, Assigning
  <2> QED BY <2>1, <2>2 DEF Alike, Frame
<1>3. CASE f \in Picking
  <2>1. With(f, a) \in Picking /\ With(f, a).fn = f.fn /\ With(f, a).args = a
        /\ With(f, a).at = f.at /\ With(f, a).array = f.array
    BY <1>3 DEF With, Picking
  <2>2. f.fn = "lvalue"
    BY <1>3 DEF Picking
  <2> QED BY <2>1, <2>2 DEF Alike, Frame, Assigning
<1>4. CASE f \in Filling
  <2>1. With(f, a) \in Filling /\ With(f, a).fn = f.fn /\ With(f, a).args = a
        /\ With(f, a).at = f.at /\ With(f, a).array = f.array /\ With(f, a).i = f.i /\ With(f, a).of = f.of
    BY <1>4 DEF With, Filling
  <2>2. f.fn \in {"DIM", "DIM,"}
    BY <1>4 DEF Filling
  <2> QED BY <2>1, <2>2 DEF Alike, Frame, Assigning
<1> QED BY <1>1, <1>2, <1>3, <1>4 DEF Frame

(* The expression of the frame on top has a string more.                   *)
LEMMA GiveIs ==
  ASSUME NEW s \in Seq(Frame), s # <<>>, NEW p \in Ptr
  PROVE  /\ Give(s, p) \in Seq(Frame) /\ Len(Give(s, p)) = Len(s)
         /\ \A i \in 1 .. Len(s) - 1 : Give(s, p)[i] = s[i]
         /\ Give(s, p)[Len(s)] = With(s[Len(s)], Append(s[Len(s)].args, p))
         /\ Append(s[Len(s)].args, p) \in Seq(Ptr)
<1>1. Len(s) \in Nat /\ Len(s) >= 1 /\ s[Len(s)] \in Frame /\ DOMAIN s = 1 .. Len(s)
  BY BelowIs
<1>2. s[Len(s)].args \in Seq(Ptr)
  BY <1>1, Fields
<1>3. Append(s[Len(s)].args, p) \in Seq(Ptr)
  BY <1>2
<1> DEFINE f2 == With(s[Len(s)], Append(s[Len(s)].args, p))
<1>4. f2 \in Frame
  BY <1>1, <1>3, WithIs
<1>5. Give(s, p) = [s EXCEPT ![Len(s)] = f2]
  BY DEF Give, With
<1> HIDE DEF f2
<1>6. [s EXCEPT ![Len(s)] = f2] \in Seq(Frame) /\ Len([s EXCEPT ![Len(s)] = f2]) = Len(s)
  BY <1>1, <1>4, ExceptSeq
<1>7. /\ \A i \in 1 .. Len(s) - 1 : [s EXCEPT ![Len(s)] = f2][i] = s[i]
      /\ [s EXCEPT ![Len(s)] = f2][Len(s)] = f2
  <2>1. ASSUME NEW m \in Nat, m >= 1 PROVE m \in 1 .. m /\ \A i \in 1 .. m - 1 : i \in 1 .. m /\ i # m
    <3>1. ASSUME NEW i \in 1 .. m - 1 PROVE i \in 1 .. m /\ i # m
      BY ONLY m \in Nat, i \in 1 .. m - 1
    <3>2. m \in 1 .. m
      BY ONLY m \in Nat, m >= 1
    <3> QED BY <3>1, <3>2
  <2>2. Len(s) \in DOMAIN s /\ \A i \in 1 .. Len(s) - 1 : i \in DOMAIN s /\ i # Len(s)
    BY <1>1, <2>1
  <2> QED BY <2>2
<1> QED BY <1>3, <1>5, <1>6, <1>7 DEF f2

Wanting(s) == s # <<>> /\ Len(s[Len(s)].args) < MaxArgs(s[Len(s)].fn)

LEMMA MaxArgsIs ==
  ASSUME NEW fn
  PROVE  /\ MaxArgs(fn) \in Nat /\ (fn \in Lines => MaxArgs(fn) = 0)
         /\ fn \in Parts => MaxArgs(fn) = 2
BY DEF MaxArgs, Lines, Parts

(* Which frames can be below which.                                        *)
LEMMA ShapeIs ==
  ASSUME NEW s, NEW T, Stacked(s, T), s # <<>>
  PROVE  /\ s[Len(s)].fn \in Lines \union {"DOLINE"} => Len(s) = 1
         /\ s[Len(s)].fn \notin Parts => Calm(Below(s))
         /\ s[Len(s)].fn \in {"PLUS", "$"} => Wanting(Below(s))
         /\ s[Len(s)].fn \in Parts => Below(s) # <<>>
<1>1. /\ s \in Seq(Frame) /\ Len(s) \in Nat /\ Len(s) >= 1
      /\ Below(s) \in Seq(Frame) /\ Len(Below(s)) = Len(s) - 1
      /\ \A i \in 1 .. Len(s) - 1 : Below(s)[i] = s[i]
  BY BelowIs DEF Stacked
<1>2. /\ s[Len(s)].fn \in Lines \union {"DOLINE"} => Len(s) = 1
      /\ s[Len(s)].fn \notin Lines \union Parts => Len(s) = 1 \/ (Len(s) = 2 /\ s[1].fn \in Lines)
      /\ s[Len(s)].fn \in Parts => Len(s) > 1
      /\ s[Len(s)].fn \in {"PLUS", "$"} => Len(s[Len(s) - 1].args) < MaxArgs(s[Len(s) - 1].fn)
  BY <1>1 DEF Stacked, Shaped
<1>3. ASSUME s[Len(s)].fn \notin Parts PROVE Calm(Below(s))
  <2>1. Len(s) = 1 \/ (Len(s) = 2 /\ s[1].fn \in Lines)
    BY <1>2, <1>3
  <2>2. CASE Len(s) = 1
    BY <1>1, <2>2 DEF Calm
  <2>3. CASE Len(s) = 2 /\ s[1].fn \in Lines
    <3>1. Len(Below(s)) = 1 /\ Below(s)[1].fn \in Lines
      BY <1>1, <2>3
    <3>2. \A i \in 1 .. 1 : i = 1
      OBVIOUS
    <3> QED BY <3>1, <3>2 DEF Calm
  <2> QED BY <2>1, <2>2, <2>3
<1>4. ASSUME s[Len(s)].fn \in Parts PROVE Below(s) # <<>>
  <2>1. Len(Below(s)) > 0
    BY <1>1, <1>2, <1>4
  <2> QED BY <2>1
<1>5. ASSUME s[Len(s)].fn \in {"PLUS", "$"} PROVE Wanting(Below(s))
  <2>1. Below(s) # <<>>
    BY <1>4, <1>5 DEF Parts
  <2>2. Below(s)[Len(Below(s))] = s[Len(s) - 1]
    <3>1. Len(s) > 1
      BY <1>2, <1>5 DEF Parts
    <3> QED BY <1>1, <3>1
  <2> QED BY <1>2, <1>5, <2>1, <2>2 DEF Wanting
<1> QED BY <1>2, <1>3, <1>4, <1>5

LEMMA CalmIs ==
  ASSUME NEW s, NEW T, Stacked(s, T), Calm(s)
  PROVE  /\ Len(s) \in {0, 1} /\ Unborn(s) = {}
         /\ \A T2 : Stacked(s, T2)
<1>1. s \in Seq(Frame) /\ Len(s) \in Nat /\ Shaped(s)
  BY DEF Stacked
<1>2. Len(s) \in {0, 1}
  <2>1. CASE Len(s) > 1
    <3>1. Len(s) \in 1 .. Len(s)
      BY <1>1, <2>1
    <3> QED BY <1>1, <2>1, <3>1 DEF Shaped, Calm
  <2>2. \A m \in Nat : m > 1 \/ m \in {0, 1}
    OBVIOUS
  <2> QED BY <1>1, <2>1, <2>2
<1>3. \A i \in 1 .. Len(s) : s[i].fn \notin Assigning \union {"lvalue", "DIM", "DIM,"}
  BY DEF Calm, Lines, Assigning
<1>4. Unborn(s) = {}
  BY <1>3 DEF Unborn
<1>5. ASSUME NEW T2 PROVE Stacked(s, T2)
  BY <1>1, <1>3 DEF Stacked, Aimed
<1> QED BY <1>2, <1>4, <1>5

LEMMA GiveKeeps ==
  ASSUME NEW X, NEW s, NEW h, NEW T, NEW R, NEW g, Good(X, s, h, T, R, g),
         Wanting(s), NEW p \in X \union {Null}
  PROVE  Good(X \ {p}, Give(s, p), h, T, R, g)
<1> DEFINE s2 == Give(s, p)
           n == Len(s)
           a == s[n].args
<1>1. Blocked(X, h) /\ Stacked(s, T) /\ s \in Seq(Frame) /\ s # <<>>
  BY DEF Good, Sound, Stacked, Wanting
<1>2. n \in Nat /\ n >= 1 /\ s[n] \in Frame
  BY <1>1, BelowIs
<1>3. p \in Ptr
  BY <1>1, NoNull DEF Ptr
<1>4. /\ s2 \in Seq(Frame) /\ Len(s2) = n
      /\ \A i \in 1 .. n - 1 : s2[i] = s[i]
      /\ s2[n] = With(s[n], Append(a, p))
      /\ Append(a, p) \in Seq(Ptr)
  BY <1>1, <1>3, GiveIs
<1>5. a \in Seq(Ptr) /\ Len(a) \in Nat /\ Len(a) < MaxArgs(s[n].fn)
  BY <1>2, Fields DEF Wanting
<1>6. s2[n] \in Frame /\ s2[n].fn = s[n].fn /\ s2[n].args = Append(a, p) /\ Alike(s[n], s2[n])
  <2> DEFINE b == Append(a, p)
             f == s[n]
  <2>1. b \in Seq(Ptr) /\ f \in Frame /\ s2[n] = With(f, b)
    BY <1>2, <1>4
  <2>2. f = s[n] /\ b = Append(a, p)
    OBVIOUS
  <2> HIDE DEF b, f, s2, n, a
  <2>3. With(f, b) \in Frame /\ With(f, b).fn = f.fn /\ With(f, b).args = b /\ Alike(f, With(f, b))
    BY <2>1, WithIs
  <2> QED BY <2>1, <2>2, <2>3
<1>7. /\ Len(Append(a, p)) = Len(a) + 1 /\ Append(a, p)[Len(a) + 1] = p
      /\ \A i \in 1 .. Len(a) : Append(a, p)[i] = a[i]
  BY <1>5
<1> HIDE DEF s2, n, a
<1>8. \A i \in 1 .. n : s2[i].fn = s[i].fn
  BY <1>2, <1>4, <1>6
<1>9. Stacked(s2, T)
  <2>0. Shaped(s)
    BY <1>1 DEF Stacked
  <2>1. Shaped(s2)
    <3>1. ASSUME NEW i \in 1 .. n, s[i].fn \in {"PLUS", "$"}
          PROVE  Len(s2[i - 1].args) < MaxArgs(s2[i - 1].fn)
      <4>1. i > 1 /\ Len(s[i - 1].args) < MaxArgs(s[i - 1].fn)
        BY <2>0, <3>1 DEF Shaped, Parts, n
      <4>2. i - 1 \in 1 .. n - 1
        BY <1>2, <4>1
      <4> QED BY <1>4, <4>1, <4>2
    <3>2. ASSUME NEW i \in 1 .. n, s2[i].fn \notin Lines PROVE Len(s2[i].args) <= MaxArgs(s2[i].fn)
      <4>1. CASE i = n
        BY <1>5, <1>6, <1>7, <4>1, MaxArgsIs
      <4>2. CASE i # n
        <5>1. s2[i] = s[i]
          BY <1>2, <1>4, <4>2
        <5> QED BY <2>0, <3>2, <5>1 DEF Shaped, n
      <4> QED BY <4>1, <4>2
    <3>3. 1 \in 1 .. n
      BY <1>2
    <3>4. Len(s) = n
      BY DEF n
    <3> QED BY <1>4, <1>8, <2>0, <3>1, <3>2, <3>3, <3>4 DEF Shaped
  <2>2. \A i \in 1 .. n : Aimed(s2[i], T)
    <3>1. \A i \in 1 .. n : Aimed(s[i], T)
      BY <1>1 DEF Stacked, n
    <3>2. Aimed(s2[n], T)
      <4>1. Aimed(s[n], T)
        BY <1>2, <3>1
      <4> QED BY <1>6, <4>1, AlikeAimed
    <3> QED BY <1>2, <1>4, <3>1, <3>2
  <2> QED BY <1>4, <2>1, <2>2 DEF Stacked
<1>10. Unborn(s2) = Unborn(s)
  <2>1. {k \in 1 .. Len(s2) : s2[k].fn = "DIM"} = {k \in 1 .. Len(s) : s[k].fn = "DIM"}
    BY <1>4, <1>8 DEF n
  <2>2. \A k \in 1 .. n : s[k].fn = "DIM" => s2[k].at = s[k].at /\ s2[k].i = s[k].i
    <3>1. s[n].fn = "DIM" => s2[n].at = s[n].at /\ s2[n].i = s[n].i
      BY <1>6 DEF Alike
    <3>2. \A k \in 1 .. n : k # n => s2[k] = s[k]
      BY <1>2, <1>4
    <3> QED BY <3>1, <3>2
  <2>3. \A k \in {m \in 1 .. Len(s) : s[m].fn = "DIM"} : s2[k].at = s[k].at /\ s2[k].i = s[k].i
    BY <2>2 DEF n
  <2> QED BY <2>1, <2>3 DEF Unborn
<1> DEFINE q == <<"stack", n, Len(a) + 1>>
<1>11. q \in Places /\ Holding(s, T, R, q) = Null
  <2>1. q \in Places
    BY <1>2, <1>5, PlaceOf DEF Kinds
  <2>2. ~(Len(a) + 1 \in 1 .. Len(s[n].args))
    BY <1>5 DEF a
  <2> QED BY <2>1, <2>2 DEF Holding
<1>12. ASSUME NEW r \in Places
       PROVE  Holding(s2, T, R, r) = IF r = q THEN p ELSE Holding(s, T, R, r)
  <2>1. r[1] \in Kinds /\ r[2] \in Nat /\ r[3] \in Nat /\ r = <<r[1], r[2], r[3]>>
    BY PlaceIs
  <2>2. r = q <=> r[1] = "stack" /\ r[2] = n /\ r[3] = Len(a) + 1
    BY <2>1
  <2>0. Len(s) = n /\ a = s[n].args
    BY DEF n, a
  <2> HIDE DEF q
  <2>3. CASE r[1] # "stack"
    BY <1>10, <2>2, <2>3 DEF Holding
  <2>4. CASE r[1] = "stack" /\ r[2] \notin 1 .. n
    BY <1>2, <1>4, <2>0, <2>2, <2>4 DEF Holding
  <2>5. CASE r[1] = "stack" /\ r[2] \in 1 .. n /\ r[2] # n
    <3>1. s2[r[2]] = s[r[2]]
      BY <1>2, <1>4, <2>5
    <3> QED BY <1>4, <2>0, <2>2, <2>5, <3>1 DEF Holding
  <2>6. CASE r[1] = "stack" /\ r[2] \in 1 .. n /\ r[2] = n
    <3>1. /\ Holding(s2, T, R, r) = IF r[3] \in 1 .. Len(a) + 1 THEN Append(a, p)[r[3]] ELSE Null
          /\ Holding(s, T, R, r) = IF r[3] \in 1 .. Len(a) THEN a[r[3]] ELSE Null
      BY <1>4, <1>6, <1>7, <2>0, <2>6 DEF Holding
    <3> QED BY <1>5, <1>7, <2>1, <2>2, <2>6, <3>1
  <2> QED BY <2>3, <2>4, <2>5, <2>6
<1>13. Good(X \ {p}, s2, h, T, R, g)
  <2> HIDE DEF q
  <2> QED BY <1>9, <1>10, <1>11, <1>12, StackTakes
<1> QED BY <1>13 DEF s2

(* A statement or a function begins to evaluate.                           *)
Fresh(s, f) ==
  /\ f \in Frame /\ f.fn # "DIM"
  /\ f.fn \in Lines \union {"DOLINE"} => s = <<>>
  /\ f.fn \notin Lines \union Parts => Calm(s)
  /\ f.fn \in Parts => s # <<>>
  /\ f.fn \in {"PLUS", "$"} => Wanting(s)

LEMMA PushKeeps ==
  ASSUME NEW X, NEW s, NEW h, NEW T, NEW R, NEW g, Good(X, s, h, T, R, g),
         NEW f, Fresh(s, f), Aimed(f, T), NEW p \in X \union {Null},
         (f.args = <<>> /\ p = Null) \/ (f.args = <<p>> /\ f.fn \in Lines \union Parts)
  PROVE  Good(X \ {p}, Append(s, f), h, T, R, g)
<1> DEFINE s2 == Append(s, f)
           n == Len(s)
<1>1. Blocked(X, h) /\ Stacked(s, T) /\ s \in Seq(Frame) /\ f \in Frame
  BY DEF Good, Sound, Stacked, Fresh
<1>2. n \in Nat /\ s2 \in Seq(Frame) /\ Len(s2) = n + 1 /\ s2[n + 1] = f /\ \A i \in 1 .. n : s2[i] = s[i]
  BY <1>1
<1>3. p \in Ptr
  BY <1>1, NoNull DEF Ptr
<1>4. s = <<>> => n = 0
  OBVIOUS
<1>5. /\ (Len(f.args) = 0 /\ p = Null) \/ (Len(f.args) = 1 /\ f.args[1] = p)
      /\ f.fn \in Parts \/ f.fn \in Lines => Len(f.args) \in {0, 1}
      /\ f.fn \notin Parts /\ f.fn \notin Lines => Len(f.args) = 0
  <2>1. CASE f.args = <<>> /\ p = Null
    <3>1. Len(f.args) = 0
      BY <2>1
    <3> QED BY <2>1, <3>1
  <2>2. CASE f.args = <<p>> /\ f.fn \in Lines \union Parts
    <3>1. Len(f.args) = 1 /\ f.args[1] = p
      BY <2>2
    <3> QED BY <2>2, <3>1
  <2> QED BY <2>1, <2>2
<1>6. s # <<>> => n >= 1
  BY <1>1, BelowIs
<1> HIDE DEF s2
<1>7. Stacked(s2, T)
  <2>0. Shaped(s)
    BY <1>1 DEF Stacked
  <2>1. Shaped(s2)
    <3>1. ASSUME NEW i \in 1 .. n
          PROVE  /\ s2[i].fn \in Lines \union {"DOLINE"} => i = 1
                 /\ s2[i].fn \notin Lines \union Parts => i = 1 \/ (i = 2 /\ s2[1].fn \in Lines)
                 /\ s2[i].fn \in Parts => i > 1
                 /\ s2[i].fn \in {"PLUS", "$"} => Len(s2[i - 1].args) < MaxArgs(s2[i - 1].fn)
                 /\ s2[i].fn \notin Lines => Len(s2[i].args) <= MaxArgs(s2[i].fn)
      <4>1. s2[i] = s[i] /\ s2[1] = s[1]
        BY <1>2
      <4>2. i > 1 => s2[i - 1] = s[i - 1]
        BY <1>2
      <4>3. s[i].fn \in {"PLUS", "$"} => i > 1
        BY <2>0 DEF Shaped, Parts
      <4> QED BY <2>0, <4>1, <4>2, <4>3 DEF Shaped
    <3>2. /\ f.fn \in Lines \union {"DOLINE"} => n + 1 = 1
          /\ f.fn \in Parts => n + 1 > 1
          /\ f.fn \notin Lines => Len(f.args) <= MaxArgs(f.fn)
      <4>1. f.fn \in Lines \union {"DOLINE"} => n + 1 = 1
        BY <1>4 DEF Fresh
      <4>2. f.fn \in Parts => n + 1 > 1
        BY <1>2, <1>6 DEF Fresh
      <4>3. MaxArgs(f.fn) \in Nat /\ (f.fn \in Parts => MaxArgs(f.fn) = 2)
        BY MaxArgsIs
      <4>4. f.fn \notin Lines => Len(f.args) <= MaxArgs(f.fn)
        <5>1. CASE f.fn \in Parts
          BY <1>5, <4>3, <5>1
        <5>2. CASE f.fn \notin Parts
          BY <1>5, <4>3, <5>2
        <5> QED BY <5>1, <5>2
      <4> QED BY <4>1, <4>2, <4>4
    <3>3. f.fn \notin Lines \union Parts => n + 1 = 1 \/ (n + 1 = 2 /\ s2[1].fn \in Lines)
      <4>1. ASSUME Calm(s) PROVE n + 1 = 1 \/ (n + 1 = 2 /\ s2[1].fn \in Lines)
        <5>1. n \in {0, 1}
          BY <1>1, <4>1, CalmIs
        <5>2. n = 1 => s2[1] = s[1] /\ s[1].fn \in Lines
          BY <1>2, <4>1 DEF Calm
        <5>3. n = 0 => n + 1 = 1
          OBVIOUS
        <5>4. n = 1 => n + 1 = 2
          OBVIOUS
        <5> HIDE DEF n
        <5> QED BY <5>1, <5>2, <5>3, <5>4
      <4> QED BY <4>1 DEF Fresh
    <3>4. f.fn \in {"PLUS", "$"} => Len(s2[n + 1 - 1].args) < MaxArgs(s2[n + 1 - 1].fn)
      <4>1. s # <<>> => s2[n + 1 - 1] = s[Len(s)]
        BY <1>2, <1>6
      <4> QED BY <4>1 DEF Fresh, Wanting
    <3> QED BY <1>2, <3>1, <3>2, <3>3, <3>4 DEF Shaped
  <2>2. \A i \in 1 .. n + 1 : Aimed(s2[i], T)
    BY <1>1, <1>2 DEF Stacked
  <2> QED BY <1>2, <2>1, <2>2 DEF Stacked
<1>8. Unborn(s2) = Unborn(s)
  <2>1. {k \in 1 .. Len(s2) : s2[k].fn = "DIM"} = {k \in 1 .. Len(s) : s[k].fn = "DIM"}
    BY <1>2 DEF Fresh
  <2>2. \A k \in {m \in 1 .. Len(s) : s[m].fn = "DIM"} : s2[k] = s[k]
    BY <1>2
  <2> QED BY <2>1, <2>2 DEF Unborn
<1> DEFINE q == <<"stack", n + 1, 1>>
<1>9. q \in Places /\ Holding(s, T, R, q) = Null
  <2>1. q \in Places
    BY <1>2, PlaceOf DEF Kinds
  <2>2. ~(n + 1 \in 1 .. Len(s))
    BY <1>2
  <2> QED BY <2>1, <2>2 DEF Holding
<1>10. ASSUME NEW r \in Places
       PROVE  Holding(s2, T, R, r) = IF r = q THEN p ELSE Holding(s, T, R, r)
  <2>1. r[1] \in Kinds /\ r[2] \in Nat /\ r[3] \in Nat /\ r = <<r[1], r[2], r[3]>>
    BY PlaceIs
  <2>2. r = q <=> r[1] = "stack" /\ r[2] = n + 1 /\ r[3] = 1
    BY <2>1
  <2>0. Len(s) = n
    OBVIOUS
  <2> HIDE DEF q, n
  <2>3. CASE r[1] # "stack"
    BY <1>8, <2>2, <2>3 DEF Holding
  <2>4. CASE r[1] = "stack" /\ r[2] \notin 1 .. n + 1
    BY <1>2, <2>0, <2>2, <2>4 DEF Holding
  <2>5. CASE r[1] = "stack" /\ r[2] \in 1 .. n
    <3>1. s2[r[2]] = s[r[2]] /\ r[2] \in 1 .. n + 1 /\ r[2] # n + 1
      BY <1>2, <2>5
    <3> QED BY <1>2, <2>0, <2>2, <2>5, <3>1 DEF Holding
  <2>6. CASE r[1] = "stack" /\ r[2] = n + 1
    <3>1. /\ Holding(s2, T, R, r) = IF r[3] \in 1 .. Len(f.args) THEN f.args[r[3]] ELSE Null
          /\ Holding(s, T, R, r) = Null
      BY <1>2, <2>0, <2>6 DEF Holding
    <3> QED BY <1>5, <2>1, <2>2, <2>6, <3>1
  <2>7. r[2] \in 1 .. n \/ r[2] = n + 1 \/ r[2] \notin 1 .. n + 1
    BY <1>2
  <2> QED BY <2>3, <2>4, <2>5, <2>6, <2>7
<1>11. Good(X \ {p}, s2, h, T, R, g)
  <2> HIDE DEF q
  <2> QED BY <1>7, <1>8, <1>9, <1>10, StackTakes
<1> QED BY <1>11 DEF s2

(* A frame that waits for nothing gives way to one with the same strings.  *)
LEMMA DoneKeeps ==
  ASSUME NEW X, NEW s, NEW h, NEW T, NEW R, NEW g, Good(X, s, h, T, R, g)
  PROVE  Good(X, Done(s), h, T, R, g)
<1>1. Blocked(X, h) /\ Stacked(s, T) /\ s \in Seq(Frame)
  BY DEF Good, Sound, Stacked
<1>2. CASE s = <<>> \/ s[Len(s)].fn # "line"
  BY <1>2 DEF Done
<1>3. CASE ~(s = <<>> \/ s[Len(s)].fn # "line")
  <2> DEFINE f == s[Len(s)]
             f2 == [f EXCEPT !.fn = "line done"]
             s2 == [s EXCEPT ![Len(s)] = f2]
  <2>1. Len(s) = 1 /\ f \in Frame /\ f.fn = "line"
    BY <1>1, <1>3, ShapeIs, BelowIs DEF Lines
  <2>2. f \in Plain
    BY <2>1, Fields DEF Assigning
  <2>3. f2 \in Plain /\ f2.fn = "line done" /\ f2.args = f.args
    BY <2>2 DEF Plain, Lines
  <2>4. f2 \in Frame
    BY <2>3 DEF Frame
  <2>5. Done(s) = s2
    BY <1>3 DEF Done
  <2>6. s2 \in Seq(Frame) /\ Len(s2) = 1 /\ s2[1] = f2 /\ f = s[1]
    <3> HIDE DEF f, f2
    <3>1. s2 \in Seq(Frame) /\ Len(s2) = Len(s)
      BY <1>1, <2>1, <2>4, ExceptSeq
    <3>2. s2[1] = f2
      BY <1>1, <2>1
    <3> QED BY <2>1, <3>1, <3>2 DEF f
  <2> HIDE DEF f, f2, s2
  <2>7. \A i \in 1 .. 1 : i = 1
    OBVIOUS
  <2>8. Stacked(s2, T)
    <3>1. Shaped(s2)
      BY <2>3, <2>6, <2>7 DEF Shaped, Lines, Parts
    <3>2. Aimed(f2, T)
      BY <2>3 DEF Aimed, Assigning
    <3> QED BY <2>6, <2>7, <3>1, <3>2 DEF Stacked
  <2>9. Calm(s) /\ Calm(s2)
    BY <2>1, <2>3, <2>6, <2>7 DEF Calm, Lines
  <2>10. Unborn(s2) = Unborn(s)
    BY <1>1, <2>8, <2>9, CalmIs
  <2>11. \A r \in Places : Holding(s2, T, R, r) = Holding(s, T, R, r)
    <3> SUFFICES ASSUME NEW r \in Places PROVE Holding(s2, T, R, r) = Holding(s, T, R, r)
      OBVIOUS
    <3>1. CASE r[1] # "stack"
      BY <2>10, <3>1 DEF Holding
    <3>2. CASE r[1] = "stack" /\ r[2] \in 1 .. 1
      <4>1. r[2] = 1
        BY <2>7, <3>2
      <4>2. s2[r[2]].args = s[r[2]].args
        BY <2>3, <2>6, <4>1
      <4> QED BY <2>1, <2>6, <3>2, <4>2 DEF Holding
    <3>3. CASE r[1] = "stack" /\ r[2] \notin 1 .. 1
      BY <2>1, <2>6, <3>3 DEF Holding
    <3> QED BY <3>1, <3>2, <3>3
  <2> DEFINE q == <<"labels", 1, 0>>
  <2>12. q \in Places /\ Holding(s, T, R, q) = Null
    BY PlaceOf DEF Kinds, Holding
  <2>13. Good(X \ {Null}, s2, h, T, R, g)
    <3> HIDE DEF q
    <3>1. \A r \in Places : Holding(s2, T, R, r) = IF r = q THEN Null ELSE Holding(s, T, R, r)
      BY <2>11, <2>12
    <3> QED BY <2>8, <2>10, <2>12, <3>1, StackTakes
  <2>14. X \ {Null} = X
    BY <1>1, NoNull
  <2> QED BY <2>5, <2>13, <2>14
<1> QED BY <1>2, <1>3

-----------------------------------------------------------------------------
(* Steps that leave the tables alone                                       *)

Here(g) == Good(lost, stack, heap, tables, rest, g)
There(g) == Good(lost', stack', heap', tables', rest', g) /\ outcome' # "idle"

(* What malloc may return for whatever there is to put there.              *)
Makes(h) == UNION {malloc(h, c) : c \in Content}

LEMMA MakesAll ==
  ASSUME NEW h
  PROVE  /\ createstringarray(h) \subseteq Makes(h)
         /\ malloc(h, Other) \subseteq Makes(h)
         /\ [p |-> Null, h |-> h] \in Makes(h)
         /\ \A X, p : Blocked(X, h) => stringarraydup(h, p) \subseteq Makes(h)
<1>1. Other \in Content /\ \A t \in Texts : Text(t) \in Content
  BY DEF Content, Other, Text
<1>2. createstringarray(h) \subseteq Makes(h)
  BY <1>1 DEF createstringarray, Makes
<1>3. malloc(h, Other) \subseteq Makes(h)
  BY <1>1 DEF Makes
<1>4. [p |-> Null, h |-> h] \in Makes(h)
  BY <1>3 DEF malloc
<1>5. ASSUME NEW X, NEW p, Blocked(X, h) PROVE stringarraydup(h, p) \subseteq Makes(h)
  <2>1. CASE IsText(h, p)
    <3>1. h[p] \in Content
      BY <1>5, <2>1 DEF IsText, Blocked
    <3> QED BY <2>1, <3>1 DEF stringarraydup, Makes
  <2>2. CASE ~IsText(h, p)
    BY <1>2, <2>2 DEF stringarraydup
  <2> QED BY <2>1, <2>2
<1> QED BY <1>2, <1>3, <1>4, <1>5

LEMMA MakeKeeps ==
  ASSUME NEW X, NEW s, NEW h, NEW T, NEW R, NEW g, Good(X, s, h, T, R, g), NEW m \in Makes(h)
  PROVE  /\ m.p \in Ptr /\ m.p \notin DOMAIN h /\ m.p \notin X
         /\ Good(X \union ({m.p} \ {Null}), s, m.h, T, R, g)
<1>1. PICK c \in Content : m \in malloc(h, c)
  BY DEF Makes
<1>2. m.p \in Ptr /\ m.p \notin DOMAIN h /\ Good(X \union ({m.p} \ {Null}), s, m.h, T, R, g)
  BY <1>1, MallocKeeps
<1>3. X \subseteq DOMAIN h
  BY DEF Good, Sound, Blocked
<1> QED BY <1>2, <1>3

LEMMA AnswerKeeps ==
  ASSUME NEW X, NEW s, NEW h, NEW g, Good(X, s, h, tables, rest, g), Wanting(s),
         NEW p \in X \union {Null}, NEW e, Answer(s, p, h, e)
  PROVE  Good(X \ {p}, stack', heap', tables', rest', g) /\ UNCHANGED <<tables, system>>
<1>1. heap' = h /\ tables' = tables /\ rest' = rest /\ UNCHANGED <<tables, system>>
  BY DEF Answer, tables, rest, system
<1>2. Good(X \ {p}, Give(s, p), h, tables, rest, g)
  BY GiveKeeps
<1>3. CASE stack' = Give(s, p)
  BY <1>1, <1>2, <1>3
<1>4. CASE p # Null /\ stack' = Append(s, Call("PLUS", <<p>>))
  <2> DEFINE f == Call("PLUS", <<p>>)
  <2>1. p \in Ptr
    BY NoNull DEF Good, Sound, Ptr
  <2>2. f.fn = "PLUS" /\ f.args = <<p>> /\ f \in Plain
    BY <2>1 DEF Call, Plain, Parts
  <2> HIDE DEF f
  <2>3. Aimed(f, tables) /\ Fresh(s, f) /\ f.fn \in Lines \union Parts
    BY <2>2 DEF Aimed, Assigning, Fresh, Frame, Lines, Parts, Wanting
  <2>4. Good(X \ {p}, Append(s, f), h, tables, rest, g)
    BY <2>2, <2>3, PushKeeps
  <2> QED BY <1>1, <1>4, <2>4 DEF f
<1>5. stack' = Give(s, p) \/ (p # Null /\ stack' = Append(s, Call("PLUS", <<p>>)))
  BY DEF Answer
<1> QED BY <1>1, <1>3, <1>4, <1>5

LEMMA OperandStep ==
  ASSUME NEW g, Here(g), Wants, NEW m \in Makes(heap), NEW e, Answer(stack, m.p, m.h, e)
  PROVE  There(g)
<1>1. /\ m.p \in Ptr /\ m.p \notin lost
      /\ Good(lost \union ({m.p} \ {Null}), stack, m.h, tables, rest, g)
  BY MakeKeeps DEF Here
<1>2. Wanting(stack) /\ outcome = "running"
  BY DEF Wants, Wanting, Top
<1>3. /\ Good((lost \union ({m.p} \ {Null})) \ {m.p}, stack', heap', tables', rest', g)
      /\ UNCHANGED <<tables, system>>
  BY <1>1, <1>2, AnswerKeeps
<1>4. (lost \union ({m.p} \ {Null})) \ {m.p} = lost
  BY <1>1
<1> QED BY <1>2, <1>3, <1>4 DEF There, system

LEMMA OperandKeeps ==
  ASSUME NEW g, Here(g), Operand
  PROVE  There(g)
<1>1. ASSUME Wants, NEW m \in Makes(heap), NEW e, Answer(stack, m.p, m.h, e) PROVE There(g)
  BY <1>1, OperandStep
<1>2. Blocked(lost, heap)
  BY DEF Here, Good, Sound
<1>3. CASE stringliteral
  BY <1>1, <1>3, MakesAll DEF stringliteral
<1>4. CASE chrstring
  BY <1>1, <1>4, MakesAll DEF chrstring
<1>5. CASE screadstring
  <2> DEFINE m == [p |-> Null, h |-> heap]
  <2>1. m \in Makes(heap) /\ m.p = Null /\ m.h = heap
    BY MakesAll
  <2> HIDE DEF m
  <2>2. CASE Answer(stack, Null, heap, NoError)
    BY <1>1, <1>5, <2>1, <2>2 DEF screadstring
  <2>3. CASE \E n \in createstringarray(heap) : Answer(stack, n.p, n.h, NoError)
    BY <1>1, <1>5, <2>3, MakesAll DEF screadstring
  <2> QED BY <1>5, <2>2, <2>3 DEF screadstring
<1>6. CASE stringvar
  <2>1. PICK n \in StringNames :
          /\ Wants
          /\ \/ \E m \in stringarraydup(heap, variables[findvariable(variables, n).at].sval) :
                  Answer(stack, m.p, m.h, NoError)
             \/ \E m \in createstringarray(heap) : Answer(stack, m.p, m.h, "error")
    BY <1>6 DEF stringvar
  <2> QED BY <1>1, <1>2, <2>1, MakesAll
<1>7. CASE stringdimvar
  <2>1. \E q : /\ Wants
               /\ \E m \in createstringarray(heap) \union stringarraydup(heap, q) : \E e :
                    Answer(stack, m.p, m.h, e)
    <3>0. PICK a \in StringArrays : \E i \in Subscripts(a) :
            LET v == finddimvar(a)
                there == i # Outside
                p == IF there /\ Serrorflag = NoError THEN dimvariables[v.at].str[i] ELSE Null
            IN  /\ Wants
                /\ \E m \in IF p = Null THEN createstringarray(heap) ELSE stringarraydup(heap, p) :
                     Answer(stack, m.p, m.h, IF there THEN NoError ELSE "error")
      BY <1>7 DEF stringdimvar
    <3>1. PICK i \in Subscripts(a) :
            LET v == finddimvar(a)
                there == i # Outside
                p == IF there /\ Serrorflag = NoError THEN dimvariables[v.at].str[i] ELSE Null
            IN  /\ Wants
                /\ \E m \in IF p = Null THEN createstringarray(heap) ELSE stringarraydup(heap, p) :
                     Answer(stack, m.p, m.h, IF there THEN NoError ELSE "error")
      BY <3>0
    <3> DEFINE q == IF i # Outside /\ Serrorflag = NoError
                    THEN dimvariables[finddimvar(a).at].str[i] ELSE Null
               f == IF i # Outside THEN NoError ELSE "error"
    <3>2. Wants /\ \E m \in IF q = Null THEN createstringarray(heap) ELSE stringarraydup(heap, q) :
                     Answer(stack, m.p, m.h, f)
      BY <3>1
    <3> HIDE DEF q, f
    <3> QED BY <3>2
  <2> QED BY <1>1, <1>2, <2>1, MakesAll
<1>8. CASE notastring
  <2>1. PICK m \in createstringarray(heap) : stack' = Give(stack, m.p) /\ heap' = m.h
    BY <1>8 DEF notastring
  <2>2. /\ Wants /\ tables' = tables /\ rest' = rest /\ lost' = lost /\ outcome' = outcome
    BY <1>8 DEF notastring, tables, rest, system
  <2>3. m \in Makes(heap)
    BY <2>1, MakesAll
  <2>4. /\ m.p \in Ptr /\ m.p \notin lost
        /\ Good(lost \union ({m.p} \ {Null}), stack, m.h, tables, rest, g)
    BY <2>3, MakeKeeps DEF Here
  <2>5. Wanting(stack) /\ outcome = "running"
    BY <2>2 DEF Wants, Wanting, Top
  <2>6. Good((lost \union ({m.p} \ {Null})) \ {m.p}, Give(stack, m.p), m.h, tables, rest, g)
    BY <2>4, <2>5, GiveKeeps
  <2>7. (lost \union ({m.p} \ {Null})) \ {m.p} = lost
    BY <2>4
  <2> QED BY <2>1, <2>2, <2>5, <2>6, <2>7 DEF There
<1> QED BY <1>3, <1>4, <1>5, <1>6, <1>7, <1>8 DEF Operand

(* No string is held twice.                                                *)
LEMMA Apart ==
  ASSUME NEW X, NEW s, NEW h, NEW T, NEW R, NEW g, Good(X, s, h, T, R, g),
         NEW n \in 1 .. Len(s), NEW i \in 1 .. Len(s[n].args), NEW k \in 1 .. Len(s[n].args),
         s[n].args[i] = s[n].args[k], s[n].args[i] # Null
  PROVE  i = k
<1> DEFINE p == <<"stack", n, i>>
           q == <<"stack", n, k>>
<1>1. Own(DOMAIN h \ X, Held(s, T, R)) /\ s \in Seq(Frame)
  BY DEF Good, Sound, Stacked
<1>2. s[n] \in Frame /\ n \in Nat
  BY <1>1
<1>3. Len(s[n].args) \in Nat
  BY <1>2, Fields
<1>4. p \in Places /\ q \in Places
  BY <1>2, <1>3, PlaceOf DEF Kinds
<1>5. Holding(s, T, R, p) = s[n].args[i] /\ Holding(s, T, R, q) = s[n].args[k]
  BY DEF Holding
<1>6. Held(s, T, R)[p] = Held(s, T, R)[q] /\ Held(s, T, R)[p] # Null
  BY <1>4, <1>5, HeldAt
<1>7. p = q => i = k
  OBVIOUS
<1> HIDE DEF p, q
<1> QED BY <1>1, <1>4, <1>6, <1>7 DEF Own

LEMMA TopIs ==
  ASSUME NEW g, Here(g), stack # <<>>
  PROVE  /\ Top = stack[Len(stack)] /\ Top \in Frame /\ Under = Below(stack)
         /\ Good(lost, stack, heap, tables, rest, g)
         /\ arg \in Seq(Ptr) /\ Len(arg) \in Nat /\ DOMAIN arg = 1 .. Len(arg)
         /\ Pointers(arg) \ {Null} \subseteq DOMAIN heap \ lost
         /\ Null \notin lost /\ lost \subseteq DOMAIN heap /\ Stacked(stack, tables)
         /\ Len(arg) = 0 => Pointers(arg) = {}
         /\ Len(arg) = 1 => Pointers(arg) = {arg[1]}
         /\ Len(arg) = 2 => /\ Pointers(arg) = {arg[1], arg[2]}
                            /\ arg[1] = arg[2] => arg[1] = Null
<1>1. Good(lost, stack, heap, tables, rest, g) /\ Stacked(stack, tables) /\ Blocked(lost, heap)
  BY DEF Here, Good, Sound
<1>2. Top = stack[Len(stack)] /\ Top \in Frame /\ Under = Below(stack) /\ Len(stack) \in 1 .. Len(stack)
  BY <1>1, BelowIs DEF Stacked, Top, Under, Below
<1>3. arg \in Seq(Ptr) /\ Len(arg) \in Nat /\ DOMAIN arg = 1 .. Len(arg)
  <2>1. arg \in Seq(Ptr)
    BY <1>2, Fields DEF arg
  <2> QED BY <2>1
<1>4. Pointers(arg) \ {Null} \subseteq DOMAIN heap \ lost
  <2>1. Sound(lost, stack, heap, tables, rest)
    BY <1>1 DEF Good
  <2>2. \A i \in 1 .. Len(stack) : \A k \in 1 .. Len(stack[i].args) :
              stack[i].args[k] # Null => stack[i].args[k] \in DOMAIN heap \ lost
    BY ONLY <2>1, InUse
  <2> QED BY <1>2, <1>3, <2>2 DEF Pointers, arg
<1>5. Null \notin lost /\ lost \subseteq DOMAIN heap
  BY <1>1, NoNull DEF Blocked
<1>6. Len(arg) = 0 => Pointers(arg) = {}
  BY <1>3 DEF Pointers
<1>7. ASSUME Len(arg) = 1 PROVE Pointers(arg) = {arg[1]}
  <2>1. \A i \in 1 .. 1 : i = 1
    OBVIOUS
  <2> QED BY <1>3, <1>7, <2>1 DEF Pointers
<1>8. ASSUME Len(arg) = 2
      PROVE  Pointers(arg) = {arg[1], arg[2]} /\ (arg[1] = arg[2] => arg[1] = Null)
  <2>1. \A i \in 1 .. 2 : i = 1 \/ i = 2
    OBVIOUS
  <2>2. Pointers(arg) = {arg[1], arg[2]}
    BY <1>3, <1>8, <2>1 DEF Pointers
  <2>3. 1 \in 1 .. Len(stack[Len(stack)].args) /\ 2 \in 1 .. Len(stack[Len(stack)].args)
    BY <1>2, <1>8 DEF arg
  <2>4. ASSUME arg[1] = arg[2], arg[1] # Null PROVE FALSE
    <3>1. stack[Len(stack)].args[1] = stack[Len(stack)].args[2] /\ stack[Len(stack)].args[1] # Null
      BY <1>2, <2>4 DEF arg
    <3>2. 1 = 2
      BY <1>1, <1>2, <2>3, <3>1, Apart
    <3> QED BY <3>2
  <2> QED BY <2>2, <2>4
<1> QED BY <1>1, <1>2, <1>3, <1>4, <1>5, <1>6, <1>7, <1>8

(* A function of strings is done: it has r, and frees F.                   *)
LEMMA EndsKeeps ==
  ASSUME NEW g, Here(g), stack # <<>>, Top.fn \in {"PLUS", "$"}, NEW m \in Makes(heap),
         NEW r, NEW F, r \in Pointers(arg) \union {m.p}, F \subseteq Pointers(arg) \union {Null},
         (F \union {r}) \ {Null} = (Pointers(arg) \union {m.p}) \ {Null}, r \in F => r = Null
  PROVE  /\ Wanting(Under) /\ r \notin lost
         /\ Good(lost \union ({r} \ {Null}), Under, free(m.h, F), tables, rest, g)
<1> DEFINE B == Pointers(arg) \ {Null}
<1>1. /\ Top = stack[Len(stack)] /\ Under = Below(stack)
      /\ Good(lost, stack, heap, tables, rest, g)
      /\ B \subseteq DOMAIN heap \ lost
      /\ Null \notin lost /\ lost \subseteq DOMAIN heap /\ Stacked(stack, tables)
  BY TopIs
<1>2. B = Pointers(stack[Len(stack)].args) \ {Null}
  BY <1>1 DEF arg
<1> HIDE DEF B
<1>3. Good(lost \union B, Under, heap, tables, rest, g)
  BY <1>1, <1>2, PopKeeps
<1>4. Wanting(Under)
  BY <1>1, ShapeIs
<1> DEFINE X == (lost \union B) \union ({m.p} \ {Null})
<1>5. m.p \in Ptr /\ m.p \notin DOMAIN heap /\ Good(X, Under, m.h, tables, rest, g)
  BY <1>3, MakeKeeps
<1>6. F \subseteq X \union {Null}
  BY DEF B
<1>7. X \ F = lost \union ({r} \ {Null})
  BY <1>1, <1>5 DEF B
<1>8. r \notin lost
  BY <1>1, <1>5 DEF B
<1> HIDE DEF X
<1>9. Good(X \ F, Under, free(m.h, F), tables, rest, g)
  BY <1>5, <1>6, FreeKeeps
<1> QED BY <1>4, <1>7, <1>8, <1>9

LEMMA AnswerEnds ==
  ASSUME NEW g, Here(g), outcome = "running", stack # <<>>, Top.fn \in {"PLUS", "$"},
         NEW m \in Makes(heap),
         NEW r, NEW F, r \in Pointers(arg) \union {m.p}, F \subseteq Pointers(arg) \union {Null},
         (F \union {r}) \ {Null} = (Pointers(arg) \union {m.p}) \ {Null}, r \in F => r = Null,
         NEW e, Answer(Under, r, free(m.h, F), e)
  PROVE  There(g)
<1>1. /\ Wanting(Under) /\ r \notin lost
      /\ Good(lost \union ({r} \ {Null}), Under, free(m.h, F), tables, rest, g)
  BY EndsKeeps
<1> DEFINE X == lost \union ({r} \ {Null})
           h == free(m.h, F)
<1>0. r \in X \union {Null} /\ Answer(Under, r, h, e) /\ Good(X, Under, h, tables, rest, g)
  BY <1>1
<1>2. Good(X \ {r}, stack', heap', tables', rest', g) /\ UNCHANGED <<tables, system>>
  <2> HIDE DEF X, h
  <2> QED BY <1>0, <1>1, AnswerKeeps
<1>3. (lost \union ({r} \ {Null})) \ {r} = lost
  BY <1>1
<1> QED BY <1>2, <1>3 DEF There, system

(* A number is done, and frees F.                                          *)
LEMMA ReturnKeeps ==
  ASSUME NEW g, Here(g), stack # <<>>, Top.fn # "DIM", NEW F \in SUBSET Pointers(arg)
  PROVE  Good(lost \union ((Pointers(arg) \ F) \ {Null}), Under, free(heap, F), tables, rest, g)
<1> DEFINE B == Pointers(arg) \ {Null}
<1>1. /\ Top = stack[Len(stack)] /\ Under = Below(stack)
      /\ Good(lost, stack, heap, tables, rest, g)
      /\ B \subseteq DOMAIN heap \ lost /\ Null \notin lost
  BY TopIs
<1>2. B = Pointers(stack[Len(stack)].args) \ {Null}
  BY <1>1 DEF arg
<1>3. F \subseteq (lost \union B) \union {Null}
  OBVIOUS
<1>4. (lost \union B) \ F = lost \union ((Pointers(arg) \ F) \ {Null})
  BY <1>1
<1> HIDE DEF B
<1>5. Good(lost \union B, Under, heap, tables, rest, g)
  BY <1>1, <1>2, PopKeeps
<1>6. Good((lost \union B) \ F, Under, free(heap, F), tables, rest, g)
  BY <1>3, <1>5, FreeKeeps
<1> QED BY <1>4, <1>6

LEMMA ReturnsKeeps ==
  ASSUME NEW g, Here(g), outcome = "running", stack # <<>>, Top.fn # "DIM",
         Returns(Pointers(arg)), rest' = rest, outcome' = outcome, lost' = lost
  PROVE  There(g)
<1>1. Good(lost \union ((Pointers(arg) \ Pointers(arg)) \ {Null}), Under, free(heap, Pointers(arg)), tables, rest, g)
  BY ReturnKeeps
<1>2. lost \union ((Pointers(arg) \ Pointers(arg)) \ {Null}) = lost
  OBVIOUS
<1>3. stack' = Under /\ heap' = free(heap, Pointers(arg)) /\ tables' = tables
  BY DEF Returns
<1> QED BY <1>1, <1>2, <1>3 DEF There

(* What the files, the labels and INPUT hold.                              *)
LEMMA RestKeeps ==
  ASSUME NEW X, NEW s, NEW h, NEW T, NEW R, NEW g, Good(X, s, h, T, R, g),
         NEW R2, Filed(R2), NEW q \in Places, NEW p \in X \union {Null},
         \A r \in Places : Holding(s, T, R2, r) = IF r = q THEN p ELSE Holding(s, T, R, r)
  PROVE  Good((X \ {p}) \union ({Holding(s, T, R, q)} \ {Null}), s, h, T, R2, g)
<1>1. /\ Blocked(X, h) /\ Tabled(h, T) /\ Filed(R) /\ Own(DOMAIN h \ X, Held(s, T, R))
      /\ Shown(g, s, h, T) /\ Stacked(s, T)
  BY DEF Good, Sound
<1> DEFINE H == Held(s, T, R)
           H2 == Held(s, T, R2)
           X2 == (X \ {p}) \union ({H[q]} \ {Null})
<1>2. H2 \in [Places -> Ptr] /\ Own(DOMAIN h \ X, H)
  BY <1>1, HeldType DEF Stacked
<1>3. (\A r \in Places : H2[r] = IF r = q THEN p ELSE H[r]) /\ H[q] = Holding(s, T, R, q)
  BY HeldAt
<1>4. Blocked(X2, h) /\ Own(DOMAIN h \ X2, H2)
  <2>1. X2 = (X \ {p}) \union ({H[q]} \ {Null})
    OBVIOUS
  <2> HIDE DEF H, H2, X2
  <2> QED BY <1>1, <1>2, <1>3, <2>1, SwapKeeps
<1>5. X2 = (X \ {p}) \union ({Holding(s, T, R, q)} \ {Null})
  BY <1>3
<1> QED BY <1>1, <1>4, <1>5 DEF Good, Sound

LEMMA FileKeeps ==
  ASSUME NEW X, NEW s, NEW h, NEW T, NEW R, NEW g, Good(X, s, h, T, R, g),
         NEW i \in 1 .. FATPTRNUM, NEW p \in X \union {Null}, NEW f \in File, f.ptr = p,
         NEW R2, R2 = <<R[1], [R[2] EXCEPT ![i] = f], R[3]>>
  PROVE  Good((X \ {p}) \union ({R[2][i].ptr} \ {Null}), s, h, T, R2, g)
<1>1. Filed(R)
  BY DEF Good, Sound
<1>2. R2[1] = R[1] /\ R2[3] = R[3] /\ R2[2] = [R[2] EXCEPT ![i] = f] /\ R[2] \in [1 .. FATPTRNUM -> File]
  BY <1>1 DEF Filed
<1>3. R2[2][i] = f /\ \A k \in 1 .. FATPTRNUM : k # i => R2[2][k] = R[2][k]
  BY <1>2
<1>4. Filed(R2)
  BY <1>1, <1>2 DEF Filed
<1> DEFINE q == <<"files", i, 0>>
<1>5. q \in Places /\ Holding(s, T, R, q) = R[2][i].ptr
  BY MemoryAssumption, PlaceOf DEF Kinds, Holding
<1>6. ASSUME NEW r \in Places
      PROVE  Holding(s, T, R2, r) = IF r = q THEN p ELSE Holding(s, T, R, r)
  <2>1. r[1] \in Kinds /\ r[2] \in Nat /\ r[3] \in Nat /\ r = <<r[1], r[2], r[3]>>
    BY PlaceIs
  <2>2. r = q <=> r[1] = "files" /\ r[2] = i /\ r[3] = 0
    BY <2>1
  <2> HIDE DEF q
  <2>3. CASE r[1] # "files"
    BY <1>2, <2>2, <2>3 DEF Holding
  <2>4. CASE r[1] = "files"
    BY <1>3, <2>2, <2>4 DEF Holding
  <2> QED BY <2>3, <2>4
<1> HIDE DEF q
<1>7. Good((X \ {p}) \union ({Holding(s, T, R, q)} \ {Null}), s, h, T, R2, g)
  BY <1>4, <1>5, <1>6, RestKeeps
<1> QED BY <1>5, <1>7

LEMMA LabelsKeeps ==
  ASSUME NEW X, NEW s, NEW h, NEW T, NEW R, NEW g, Good(X, s, h, T, R, g),
         NEW p \in X \union {Null}, NEW R2, R2 = <<p, R[2], R[3]>>
  PROVE  Good((X \ {p}) \union ({R[1]} \ {Null}), s, h, T, R2, g)
<1>1. Filed(R) /\ p \in Ptr
  BY NoNull DEF Good, Sound, Ptr
<1>2. R2[1] = p /\ R2[2] = R[2] /\ R2[3] = R[3]
  OBVIOUS
<1>3. Filed(R2)
  BY <1>1, <1>2 DEF Filed
<1> DEFINE q == <<"labels", 0, 0>>
<1>5. q \in Places /\ Holding(s, T, R, q) = R[1]
  BY PlaceOf DEF Kinds, Holding
<1>6. ASSUME NEW r \in Places
      PROVE  Holding(s, T, R2, r) = IF r = q THEN p ELSE Holding(s, T, R, r)
  <2>1. r[1] \in Kinds /\ r[2] \in Nat /\ r[3] \in Nat /\ r = <<r[1], r[2], r[3]>>
    BY PlaceIs
  <2>2. r = q <=> r[1] = "labels" /\ r[2] = 0 /\ r[3] = 0
    BY <2>1
  <2> HIDE DEF q
  <2> QED BY <1>2, <2>2 DEF Holding
<1> HIDE DEF q
<1>7. Good((X \ {p}) \union ({Holding(s, T, R, q)} \ {Null}), s, h, T, R2, g)
  BY <1>3, <1>5, <1>6, RestKeeps
<1> QED BY <1>5, <1>7

LEMMA InputKeeps ==
  ASSUME NEW X, NEW s, NEW h, NEW T, NEW R, NEW g, Good(X, s, h, T, R, g),
         NEW p \in X \union {Null}, NEW R2, R2 = <<R[1], R[2], p>>
  PROVE  Good((X \ {p}) \union ({R[3]} \ {Null}), s, h, T, R2, g)
<1>1. Filed(R) /\ p \in Ptr
  BY NoNull DEF Good, Sound, Ptr
<1>2. R2[1] = R[1] /\ R2[2] = R[2] /\ R2[3] = p
  OBVIOUS
<1>3. Filed(R2)
  BY <1>1, <1>2 DEF Filed
<1> DEFINE q == <<"input", 0, 0>>
<1>5. q \in Places /\ Holding(s, T, R, q) = R[3]
  BY PlaceOf DEF Kinds, Holding
<1>6. ASSUME NEW r \in Places
      PROVE  Holding(s, T, R2, r) = IF r = q THEN p ELSE Holding(s, T, R, r)
  <2>1. r[1] \in Kinds /\ r[2] \in Nat /\ r[3] \in Nat /\ r = <<r[1], r[2], r[3]>>
    BY PlaceIs
  <2>2. r = q <=> r[1] = "input" /\ r[2] = 0 /\ r[3] = 0
    BY <2>1
  <2> HIDE DEF q
  <2> QED BY <1>2, <2>2 DEF Holding
<1> HIDE DEF q
<1>7. Good((X \ {p}) \union ({Holding(s, T, R, q)} \ {Null}), s, h, T, R2, g)
  BY <1>3, <1>5, <1>6, RestKeeps
<1> QED BY <1>5, <1>7

LEMMA GiveEnds ==
  ASSUME NEW g, Here(g), outcome' = "running", stack # <<>>, Top.fn \in {"PLUS", "$"},
         NEW m \in Makes(heap),
         NEW r, NEW F, r \in Pointers(arg) \union {m.p}, F \subseteq Pointers(arg) \union {Null},
         (F \union {r}) \ {Null} = (Pointers(arg) \union {m.p}) \ {Null}, r \in F => r = Null,
         stack' = Give(Under, r), heap' = free(m.h, F), tables' = tables, rest' = rest, lost' = lost
  PROVE  There(g)
<1>1. /\ Wanting(Under) /\ r \notin lost
      /\ Good(lost \union ({r} \ {Null}), Under, free(m.h, F), tables, rest, g)
  BY EndsKeeps
<1> DEFINE X == lost \union ({r} \ {Null})
           h == free(m.h, F)
<1>2. r \in X \union {Null} /\ Good(X, Under, h, tables, rest, g) /\ X \ {r} = lost
  BY <1>1
<1>3. Good(X \ {r}, Give(Under, r), h, tables, rest, g)
  <2> HIDE DEF X, h
  <2> QED BY <1>1, <1>2, GiveKeeps
<1> QED BY <1>2, <1>3 DEF There

LEMMA ConcatKeeps ==
  ASSUME NEW g, Here(g), concat PROVE There(g)
<1>1. /\ Has("PLUS", 2) /\ outcome = "running" /\ stack # <<>> /\ Top.fn = "PLUS" /\ Len(arg) = 2
      /\ tables' = tables /\ rest' = rest /\ lost' = lost /\ outcome' = "running"
  BY DEF concat, Has, In, tables, system, rest, arg
<1>2. /\ Pointers(arg) = {arg[1], arg[2]} /\ (arg[1] = arg[2] => arg[1] = Null)
      /\ Pointers(arg) \ {Null} \subseteq DOMAIN heap \ lost
      /\ Good(lost, stack, heap, tables, rest, g)
  BY <1>1, TopIs
<1>3. PICK m \in IF arg[2] = Null THEN {[p |-> Null, h |-> heap]} ELSE createstringarray(heap) :
       IF m.p = Null
       THEN stack' = Give(Under, arg[1]) /\ heap' = free(m.h, {arg[2]})
       ELSE stack' = Give(Under, m.p) /\ heap' = free(m.h, {arg[1], arg[2]})
  BY DEF concat
<1>4. m \in Makes(heap)
  BY <1>3, MakesAll
<1>5. m.p \notin DOMAIN heap
  BY <1>2, <1>4, MakeKeeps
<1>6. CASE m.p = Null
  <2> DEFINE r == arg[1]
             F == {arg[2]}
  <2>1. /\ r \in Pointers(arg) \union {m.p} /\ F \subseteq Pointers(arg) \union {Null}
        /\ (F \union {r}) \ {Null} = (Pointers(arg) \union {m.p}) \ {Null} /\ (r \in F => r = Null)
        /\ stack' = Give(Under, r) /\ heap' = free(m.h, F)
    BY <1>2, <1>3, <1>6
  <2> HIDE DEF r, F
  <2> QED BY <1>1, <1>4, <2>1, GiveEnds
<1>7. CASE m.p # Null
  <2> DEFINE r == m.p
             F == {arg[1], arg[2]}
  <2>1. /\ r \in Pointers(arg) \union {m.p} /\ F \subseteq Pointers(arg) \union {Null}
        /\ (F \union {r}) \ {Null} = (Pointers(arg) \union {m.p}) \ {Null} /\ (r \in F => r = Null)
        /\ stack' = Give(Under, r) /\ heap' = free(m.h, F)
    BY <1>2, <1>3, <1>5, <1>7
  <2> HIDE DEF r, F
  <2> QED BY <1>1, <1>4, <2>1, GiveEnds
<1> QED BY <1>6, <1>7

LEMMA CallsKeep ==
  ASSUME NEW g, Here(g), calls PROVE There(g)
<1>1. PICK f \in {"$", "#"} :
        /\ Evaluates /\ (f = "$" => Wants) /\ stack' = Append(stack, Call(f, <<>>))
        /\ tables' = tables /\ rest' = rest /\ heap' = heap /\ lost' = lost /\ outcome' = outcome
  BY DEF calls, tables, rest, system
<1>2. outcome = "running" /\ stack # <<>> /\ (f = "$" => Wanting(stack))
  BY <1>1 DEF Evaluates, Wants, Wanting, Top
<1> DEFINE c == Call(f, <<>>)
<1>3. c.fn = f /\ c.args = <<>> /\ c \in Plain
  BY DEF Call, Plain, Parts
<1> HIDE DEF c
<1>4. Fresh(stack, c) /\ Aimed(c, tables)
  BY <1>2, <1>3 DEF Aimed, Assigning, Fresh, Frame, Lines, Parts
<1>5. Good(lost, stack, heap, tables, rest, g) /\ Null \in lost \union {Null}
  BY DEF Here
<1>6. Good(lost \ {Null}, Append(stack, c), heap, tables, rest, g)
  BY <1>3, <1>4, <1>5, PushKeeps
<1>7. lost \ {Null} = lost
  BY <1>2, TopIs
<1> QED BY <1>1, <1>2, <1>6, <1>7 DEF There, c

LEMMA TrimKeeps ==
  ASSUME NEW g, Here(g), trimstring PROVE There(g)
<1>1. outcome = "running" /\ stack # <<>> /\ Top.fn = "$" /\ Len(arg) = 1
  BY DEF trimstring, Has, In, arg
<1>2. /\ Pointers(arg) = {arg[1]} /\ Pointers(arg) \ {Null} \subseteq DOMAIN heap \ lost
      /\ Good(lost, stack, heap, tables, rest, g) /\ Stacked(stack, tables)
      /\ Top = stack[Len(stack)] /\ Under = Below(stack) /\ Null \notin lost
  BY <1>1, TopIs
<1>3. CASE arg[1] = Null /\ Answer(Under, Null, heap, NoError)
  <2>1. {} = Pointers(stack[Len(stack)].args) \ {Null}
    BY <1>2, <1>3 DEF arg
  <2>2. Good(lost \union {}, Under, heap, tables, rest, g)
    BY <1>1, <1>2, <2>1, PopKeeps
  <2>3. Good(lost, Under, heap, tables, rest, g)
    BY <2>2
  <2>4. Wanting(Under)
    BY <1>1, <1>2, ShapeIs
  <2>5. Null \in lost \union {Null} /\ lost \ {Null} = lost
    BY <1>2
  <2>6. Good(lost \ {Null}, stack', heap', tables', rest', g) /\ UNCHANGED <<tables, system>>
    BY <1>3, <2>3, <2>4, <2>5, AnswerKeeps
  <2> QED BY <1>1, <2>5, <2>6 DEF There, system
<1>4. CASE \E m \in createstringarray(heap) : Answer(Under, m.p, free(m.h, {arg[1]}), NoError)
  <2>1. PICK m \in createstringarray(heap) : Answer(Under, m.p, free(m.h, {arg[1]}), NoError)
    BY <1>4
  <2>2. m \in Makes(heap)
    BY MakesAll
  <2>3. m.p \notin DOMAIN heap
    BY <1>2, <2>2, MakeKeeps
  <2> DEFINE r == m.p
             F == {arg[1]}
  <2>4. /\ r \in Pointers(arg) \union {m.p} /\ F \subseteq Pointers(arg) \union {Null}
        /\ (F \union {r}) \ {Null} = (Pointers(arg) \union {m.p}) \ {Null} /\ (r \in F => r = Null)
        /\ Answer(Under, r, free(m.h, F), NoError)
    BY <1>2, <2>1, <2>3
  <2> HIDE DEF r, F
  <2> QED BY <1>1, <2>2, <2>4, AnswerEnds
<1> QED BY <1>3, <1>4 DEF trimstring

LEMMA PairKeeps ==
  ASSUME NEW g, Here(g), iistring \/ webfrmstring PROVE There(g)
<1>1. outcome = "running" /\ stack # <<>> /\ Top.fn = "$" /\ Top.fn \in {"PLUS", "$"} /\ Len(arg) = 2
  BY DEF iistring, webfrmstring, Has, In, arg
<1>2. /\ Pointers(arg) = {arg[1], arg[2]} /\ (arg[1] = arg[2] => arg[1] = Null)
      /\ Pointers(arg) \ {Null} \subseteq DOMAIN heap \ lost
      /\ Good(lost, stack, heap, tables, rest, g)
  BY <1>1, TopIs
<1> DEFINE o == [p |-> Null, h |-> heap]
<1>3. o \in Makes(heap) /\ o.p = Null /\ o.h = heap
  BY MakesAll
<1> HIDE DEF o
<1>4. CASE Null \in Pointers(arg) /\ Answer(Under, Null, free(heap, Pointers(arg)), NoError)
  <2> DEFINE F == Pointers(arg)
  <2>1. /\ Null \in Pointers(arg) \union {o.p} /\ F \subseteq Pointers(arg) \union {Null}
        /\ (F \union {Null}) \ {Null} = (Pointers(arg) \union {o.p}) \ {Null} /\ (Null \in F => Null = Null)
        /\ Answer(Under, Null, free(o.h, F), NoError)
    BY <1>3, <1>4
  <2> HIDE DEF F
  <2> QED BY <1>1, <1>3, <2>1, AnswerEnds
<1>5. CASE \E i \in {1, 2} : Answer(Under, arg[i], free(heap, {arg[3 - i]}), NoError)
  <2>1. ASSUME NEW r, NEW q, {r, q} = Pointers(arg), r = q => r = Null, Answer(Under, r, free(heap, {q}), NoError)
        PROVE  There(g)
    <3> DEFINE F == {q}
    <3>1. /\ r \in Pointers(arg) \union {o.p} /\ F \subseteq Pointers(arg) \union {Null}
          /\ (F \union {r}) \ {Null} = (Pointers(arg) \union {o.p}) \ {Null} /\ (r \in F => r = Null)
          /\ Answer(Under, r, free(o.h, F), NoError)
      BY <1>3, <2>1
    <3> HIDE DEF F
    <3> QED BY <1>1, <1>3, <3>1, AnswerEnds
  <2>2. CASE Answer(Under, arg[1], free(heap, {arg[3 - 1]}), NoError)
    <3>1. Answer(Under, arg[1], free(heap, {arg[2]}), NoError)
      BY <2>2, 3 - 1 = 2
    <3>2. {arg[1], arg[2]} = Pointers(arg) /\ (arg[1] = arg[2] => arg[1] = Null)
      BY <1>2
    <3> QED BY <2>1, <3>1, <3>2
  <2>3. CASE Answer(Under, arg[2], free(heap, {arg[3 - 2]}), NoError)
    <3>1. Answer(Under, arg[2], free(heap, {arg[1]}), NoError)
      BY <2>3, 3 - 2 = 1
    <3>2. {arg[2], arg[1]} = Pointers(arg) /\ (arg[2] = arg[1] => arg[2] = Null)
      BY <1>2
    <3> QED BY <2>1, <3>1, <3>2
  <2> QED BY <1>5, <2>2, <2>3
<1>6. CASE \E m \in IF Null \in Pointers(arg) THEN {[p |-> Null, h |-> heap]}
                    ELSE createstringarray(heap) : Answer(Under, m.p, free(m.h, Pointers(arg)), NoError)
  <2>1. PICK m \in IF Null \in Pointers(arg) THEN {[p |-> Null, h |-> heap]} ELSE createstringarray(heap) :
          Answer(Under, m.p, free(m.h, Pointers(arg)), NoError)
    BY <1>6
  <2>2. m \in Makes(heap)
    BY <2>1, MakesAll
  <2>3. m.p \notin DOMAIN heap
    BY <1>2, <2>2, MakeKeeps
  <2> DEFINE r == m.p
             F == Pointers(arg)
  <2>4. /\ r \in Pointers(arg) \union {m.p} /\ F \subseteq Pointers(arg) \union {Null}
        /\ (F \union {r}) \ {Null} = (Pointers(arg) \union {m.p}) \ {Null} /\ (r \in F => r = Null)
        /\ Answer(Under, r, free(m.h, F), NoError)
    BY <1>2, <2>1, <2>3
  <2> HIDE DEF r, F
  <2> QED BY <1>1, <2>2, <2>4, AnswerEnds
<1> QED BY <1>4, <1>5, <1>6 DEF iistring, webfrmstring

LEMMA NumberKeeps ==
  ASSUME NEW g, Here(g), num_len \/ instr \/ term1 \/ bfdel PROVE There(g)
<1>1. /\ outcome = "running" /\ stack # <<>> /\ Top.fn # "DIM" /\ Returns(Pointers(arg))
      /\ rest' = rest /\ outcome' = outcome /\ lost' = lost
  BY DEF num_len, instr, term1, bfdel, Has, In, rest, system
<1> QED BY <1>1, ReturnsKeeps

LEMMA SeroutKeeps ==
  ASSUME NEW g, Here(g), num_serout PROVE There(g)
<1>1. /\ outcome = "running" /\ stack # <<>> /\ Top.fn # "DIM"
      /\ rest' = rest /\ outcome' = outcome
  BY DEF num_serout, Has, In, rest
<1>2. CASE Returns(Pointers(arg)) /\ UNCHANGED lost
  BY <1>1, <1>2, ReturnsKeeps
<1>3. CASE Returns({}) /\ lost' = lost \union (Pointers(arg) \ {Null})
  <2>1. {} \in SUBSET Pointers(arg)
    OBVIOUS
  <2>2. Good(lost \union ((Pointers(arg) \ {}) \ {Null}), Under, free(heap, {}), tables, rest, g)
    BY <1>1, <2>1, ReturnKeeps
  <2>3. lost \union ((Pointers(arg) \ {}) \ {Null}) = lost'
    BY <1>3
  <2> QED BY <1>1, <1>3, <2>2, <2>3 DEF There, Returns
<1> QED BY <1>2, <1>3 DEF num_serout

LEMMA OpensKeeps ==
  ASSUME NEW g, Here(g), bfopen \/ bfdirop PROVE There(g)
<1>1. PICK type \in {"file", "dir"} : Opens(type)
  BY DEF bfopen, bfdirop
<1>2. /\ outcome = "running" /\ stack # <<>> /\ Top.fn # "DIM"
      /\ outcome' = outcome /\ stack' = Under /\ tables' = tables /\ lost' = lost
      /\ labels' = labels /\ curinputptr' = curinputptr
  BY <1>1 DEF bfopen, bfdirop, Opens, Has, In, tables
<1>3. CASE files' = files /\ heap' = free(heap, Pointers(arg))
  BY <1>2, <1>3, ReturnsKeeps DEF Returns, rest, tables
<1>4. CASE \E i \in 1 .. FATPTRNUM : \E m \in malloc(heap, Other) :
             /\ files[i].ptr = Null
             /\ files' = [files EXCEPT ![i] = [ftype |-> type, ptr |-> m.p]]
             /\ heap' = free(m.h, Pointers(arg))
  <2>1. PICK i \in 1 .. FATPTRNUM : \E m \in malloc(heap, Other) :
             /\ files[i].ptr = Null
             /\ files' = [files EXCEPT ![i] = [ftype |-> type, ptr |-> m.p]]
             /\ heap' = free(m.h, Pointers(arg))
    BY <1>4
  <2>2. PICK m \in malloc(heap, Other) :
             /\ files[i].ptr = Null
             /\ files' = [files EXCEPT ![i] = [ftype |-> type, ptr |-> m.p]]
             /\ heap' = free(m.h, Pointers(arg))
    BY <2>1
  <2> DEFINE B == Pointers(arg) \ {Null}
             f == [ftype |-> type, ptr |-> m.p]
             X == (lost \union B) \union ({m.p} \ {Null})
  <2>3. /\ Top = stack[Len(stack)] /\ Under = Below(stack)
        /\ Good(lost, stack, heap, tables, rest, g)
        /\ B \subseteq DOMAIN heap \ lost /\ Null \notin lost /\ lost \subseteq DOMAIN heap
    BY <1>2, TopIs
  <2>4. B = Pointers(stack[Len(stack)].args) \ {Null}
    BY <2>3 DEF arg
  <2>5. m \in Makes(heap)
    BY MakesAll
  <2>6. Good(lost \union B, Under, heap, tables, rest, g)
    <3> HIDE DEF B
    <3> QED BY <1>2, <2>3, <2>4, PopKeeps
  <2>7. m.p \in Ptr /\ m.p \notin DOMAIN heap /\ Good(X, Under, m.h, tables, rest, g)
    <3> HIDE DEF B
    <3> QED BY <2>5, <2>6, MakeKeeps
  <2>8. f \in File /\ f.ptr = m.p /\ m.p \in X \union {Null}
    BY <2>7 DEF File
  <2>9. rest' = <<rest[1], [rest[2] EXCEPT ![i] = f], rest[3]>> /\ rest[2][i].ptr = Null
    BY <1>2, <2>2 DEF rest
  <2> HIDE DEF X, f, B
  <2>10. Good((X \ {m.p}) \union ({rest[2][i].ptr} \ {Null}), Under, m.h, tables, rest', g)
    BY <2>7, <2>8, <2>9, FileKeeps
  <2>11. (X \ {m.p}) \union ({rest[2][i].ptr} \ {Null}) = lost \union B
    BY <2>3, <2>7, <2>9 DEF X, B
  <2>12. Pointers(arg) \subseteq (lost \union B) \union {Null} /\ (lost \union B) \ Pointers(arg) = lost
    BY <2>3 DEF B
  <2>13. Good((lost \union B) \ Pointers(arg), Under, free(m.h, Pointers(arg)), tables, rest', g)
    BY <2>10, <2>11, <2>12, FreeKeeps
  <2> QED BY <1>2, <2>2, <2>12, <2>13 DEF There
<1>5. files \in [1 .. FATPTRNUM -> File]
  BY DEF Here, Good, Sound, Filed, rest
<1>6. ASSUME NEW i, i = CHOOSE n \in {k \in DOMAIN files : files[k].ptr = Null} :
                        \A j \in {k \in DOMAIN files : files[k].ptr = Null} : n <= j,
             {k \in DOMAIN files : files[k].ptr = Null} # {}
      PROVE  i \in 1 .. FATPTRNUM /\ files[i].ptr = Null
  <2> DEFINE S == {k \in DOMAIN files : files[k].ptr = Null}
  <2>1. S \subseteq Nat /\ S # {}
    BY <1>5, <1>6, MemoryAssumption
  <2>2. i = CHOOSE x \in S : \A y \in S : x <= y
    BY <1>6
  <2>3. i \in S
    <3> HIDE DEF S
    <3>1. \E x \in S : \A y \in S : x <= y
      BY <2>1, Least
    <3> QED BY <2>2, <3>1
  <2> QED BY <1>5, <2>3
<1>7. (files' = files /\ heap' = free(heap, Pointers(arg))) \/
      \E i \in 1 .. FATPTRNUM : \E m \in malloc(heap, Other) :
             /\ files[i].ptr = Null
             /\ files' = [files EXCEPT ![i] = [ftype |-> type, ptr |-> m.p]]
             /\ heap' = free(m.h, Pointers(arg))
  BY <1>1, <1>6 DEF Opens
<1> QED BY <1>3, <1>4, <1>7

LEMMA ClosesKeeps ==
  ASSUME NEW g, Here(g), bfclose \/ bfdircl PROVE There(g)
<1>1. PICK i \in DOMAIN files :
        /\ Evaluates /\ files[i].ptr # Null
        /\ heap' = free(heap, {files[i].ptr})
        /\ files' = [files EXCEPT ![i] = NoFile]
        /\ tables' = tables /\ outcome' = outcome /\ labels' = labels
        /\ curinputptr' = curinputptr /\ lost' = lost /\ stack' = stack
  BY DEF bfclose, bfdircl, Closes, tables
<1>2. Good(lost, stack, heap, tables, rest, g) /\ Blocked(lost, heap) /\ Filed(rest)
      /\ Sound(lost, stack, heap, tables, rest)
  BY DEF Here, Good, Sound
<1>3. i \in 1 .. FATPTRNUM /\ outcome = "running" /\ rest[2][i].ptr = files[i].ptr
  BY <1>1, <1>2 DEF Filed, rest, Evaluates
<1>4. rest' = <<rest[1], [rest[2] EXCEPT ![i] = NoFile], rest[3]>>
  BY <1>1 DEF rest
<1>5. NoFile \in File /\ NoFile.ptr = Null /\ Null \in lost \union {Null}
  BY DEF NoFile, File, Ptr
<1>6. Good((lost \ {Null}) \union ({rest[2][i].ptr} \ {Null}), stack, heap, tables, rest', g)
  BY <1>2, <1>3, <1>4, <1>5, FileKeeps
<1>7. rest[2][i].ptr # Null => rest[2][i].ptr \in DOMAIN heap \ lost
  BY <1>2, <1>3, InUse
<1>8. (lost \ {Null}) \union ({rest[2][i].ptr} \ {Null}) = lost \union {files[i].ptr}
  BY <1>1, <1>2, <1>3, NoNull
<1>9. {files[i].ptr} \subseteq (lost \union {files[i].ptr}) \union {Null}
  OBVIOUS
<1>10. Good((lost \union {files[i].ptr}) \ {files[i].ptr}, stack, free(heap, {files[i].ptr}), tables, rest', g)
  BY <1>6, <1>8, <1>9, FreeKeeps
<1>11. (lost \union {files[i].ptr}) \ {files[i].ptr} = lost
  BY <1>1, <1>3, <1>7
<1> QED BY <1>1, <1>3, <1>10, <1>11 DEF There

LEMMA InplenKeeps ==
  ASSUME NEW g, Here(g), num_inplen PROVE There(g)
<1>1. /\ Evaluates /\ curinputptr # Null
      /\ heap' = free(heap, {curinputptr}) /\ curinputptr' = Null
      /\ tables' = tables /\ outcome' = outcome /\ labels' = labels /\ files' = files
      /\ lost' = lost /\ stack' = stack
  BY DEF num_inplen, tables
<1>2. Good(lost, stack, heap, tables, rest, g) /\ Blocked(lost, heap)
      /\ Sound(lost, stack, heap, tables, rest)
  BY DEF Here, Good, Sound
<1>3. rest[3] = curinputptr /\ rest' = <<rest[1], rest[2], Null>> /\ Null \in lost \union {Null}
      /\ outcome = "running"
  BY <1>1 DEF rest, Evaluates
<1>4. Good((lost \ {Null}) \union ({rest[3]} \ {Null}), stack, heap, tables, rest', g)
  BY <1>2, <1>3, InputKeeps
<1>5. rest[3] # Null => rest[3] \in DOMAIN heap \ lost
  BY <1>2, InUse
<1>6. (lost \ {Null}) \union ({rest[3]} \ {Null}) = lost \union {curinputptr}
  BY <1>1, <1>2, <1>3, NoNull
<1>7. {curinputptr} \subseteq (lost \union {curinputptr}) \union {Null}
  OBVIOUS
<1>8. Good((lost \union {curinputptr}) \ {curinputptr}, stack, free(heap, {curinputptr}), tables, rest', g)
  BY <1>4, <1>6, <1>7, FreeKeeps
<1>9. (lost \union {curinputptr}) \ {curinputptr} = lost
  BY <1>1, <1>3, <1>5
<1> QED BY <1>1, <1>3, <1>8, <1>9 DEF There

LEMMA FunctionKeeps ==
  ASSUME NEW g, Here(g), Function PROVE There(g)
<1>1. CASE expr
  <2>1. /\ outcome' = "running" /\ tables' = tables /\ rest' = rest /\ lost' = lost /\ heap' = heap /\ stack' = stack
    BY <1>1 DEF expr, Evaluates, tables, rest, system
  <2> QED BY <2>1 DEF Here, There
<1> QED BY <1>1, ConcatKeeps, CallsKeep, TrimKeeps, PairKeeps, NumberKeeps, SeroutKeeps, OpensKeeps,
           ClosesKeeps, InplenKeeps DEF Function

-----------------------------------------------------------------------------
(* What the search finds in a sorted table.                                *)
LEMMA FindsIs ==
  ASSUME NEW s, NEW id \in Nat, Ordered(s), NEW v, v = findvariable(s, id)
  PROVE  /\ IsAt(s, id, v.at)
         /\ v.found => v.at \in 1 .. Len(s) /\ s[v.at].id = id
         /\ ~v.found => \A i \in 1 .. Len(s) : s[i].id # id
         /\ \A i \in 1 .. Len(s) : s[i].id = id => v.found /\ v.at = i
<1>1. PICK p : IsAt(s, id, p)
  BY Placed
<1>2. v = IF p <= Len(s) /\ s[p].id = id THEN [found |-> TRUE, at |-> p] ELSE [found |-> FALSE, at |-> p]
  BY <1>1, Found
<1>3. p \in 1 .. Len(s) + 1 /\ Len(s) \in Nat
  BY <1>1 DEF IsAt, Ordered
<1>4. ASSUME NEW i \in 1 .. Len(s), s[i].id = id PROVE p <= Len(s) /\ p = i
  <2>1. i >= p
    BY <1>1, <1>3, <1>4 DEF IsAt
  <2>2. p \in 1 .. Len(s) /\ s[p].id >= id /\ s[p].id \in Nat
    BY <1>1, <1>3, <2>1 DEF IsAt, Ordered
  <2>3. ASSUME p < i PROVE FALSE
    <3>1. s[p].id < s[i].id
      BY <2>2, <2>3 DEF Ordered
    <3> QED BY <1>4, <2>2, <3>1
  <2> QED BY <1>3, <2>1, <2>2, <2>3
<1>5. CASE p <= Len(s) /\ s[p].id = id
  <2>1. v.found = TRUE /\ v.at = p
    BY <1>2, <1>5
  <2> QED BY <1>1, <1>3, <1>4, <1>5, <2>1
<1>6. CASE ~(p <= Len(s) /\ s[p].id = id)
  <2>1. v.found = FALSE /\ v.at = p
    BY <1>2, <1>6
  <2>2. \A i \in 1 .. Len(s) : s[i].id # id
    BY <1>4, <1>6
  <2> QED BY <1>1, <2>1, <2>2
<1> QED BY <1>5, <1>6

(* A statement begins where no other waits.                                *)
LEMMA BeginsCalm ==
  ASSUME NEW g, Here(g), Begins \/ InProgram
  PROVE  Calm(stack) /\ outcome = "running" /\ (InProgram => stack = <<>>)
<1>1. Stacked(stack, tables)
  BY DEF Here, Good, Sound
<1>2. CASE InProgram
  BY <1>2 DEF InProgram, Calm
<1>3. CASE InLine
  <2>1. stack # <<>> /\ Top.fn = "line" /\ outcome = "running"
    BY <1>3 DEF InLine, In
  <2>2. Len(stack) = 1 /\ stack[1].fn = "line"
    BY <1>1, <2>1, ShapeIs DEF Top, Lines
  <2>3. \A i \in 1 .. 1 : i = 1
    OBVIOUS
  <2> QED BY <2>1, <2>2, <2>3 DEF Calm, Lines, InProgram
<1> QED BY <1>2, <1>3 DEF Begins

LEMMA MayAssignCalm ==
  ASSUME NEW g, Here(g), NEW fn, MayAssign(fn)
  PROVE  Calm(stack) /\ outcome = "running"
BY BeginsCalm DEF MayAssign

LEMMA PrintFresh ==
  ASSUME NEW X, NEW s, NEW h, NEW T, NEW R, NEW g, Good(X, s, h, T, R, g), Calm(s)
  PROVE  Good(X, Append(s, Call("PRINT", <<>>)), h, T, R, g)
<1> DEFINE f == Call("PRINT", <<>>)
<1>1. f \in Plain /\ f.fn = "PRINT" /\ f.args = <<>>
  BY DEF Call, Plain
<1> HIDE DEF f
<1>2. Fresh(s, f) /\ Aimed(f, T)
  BY <1>1 DEF Fresh, Frame, Lines, Parts, Aimed, Assigning
<1>3. Good(X \ {Null}, Append(s, f), h, T, R, g)
  BY <1>1, <1>2, PushKeeps
<1>4. X \ {Null} = X
  BY NoNull DEF Good, Sound
<1> QED BY <1>3, <1>4 DEF f

(* A statement is over: its frame is gone, with F freed and the rest of    *)
(* its strings nobody's.                                                   *)
LEMMA ProceedKeeps ==
  ASSUME NEW g, Here(g), stack # <<>>, Top.fn # "DIM", NEW F \in SUBSET Pointers(arg)
  PROVE  /\ Good(lost \union ((Pointers(arg) \ F) \ {Null}), Done(Under), free(heap, F), tables, rest, g)
         /\ Top.fn \notin Lines => Len(arg) <= MaxArgs(Top.fn)
         /\ Top.fn \notin Parts => Calm(Under)
<1>1. Good(lost \union ((Pointers(arg) \ F) \ {Null}), Done(Under), free(heap, F), tables, rest, g)
  BY ReturnKeeps, DoneKeeps
<1>2. Top = stack[Len(stack)] /\ Under = Below(stack) /\ Stacked(stack, tables)
  BY TopIs
<1>3. Top.fn \notin Parts => Calm(Under)
  BY <1>2, ShapeIs
<1>4. Top.fn \notin Lines => Len(arg) <= MaxArgs(Top.fn)
  <2>1. Len(stack) \in 1 .. Len(stack)
    BY <1>2, BelowIs DEF Stacked
  <2> QED BY <1>2, <2>1 DEF Stacked, Shaped, arg
<1> QED BY <1>1, <1>3, <1>4

(* One that holds nothing.                                                 *)
LEMMA ProceedsKeep ==
  ASSUME NEW g, Here(g), stack # <<>>, Top.fn # "DIM", Len(arg) = 0
  PROVE  Good(lost, Done(Under), heap, tables, rest, g) /\ Good(lost, Under, heap, tables, rest, g)
<1>1. /\ Top = stack[Len(stack)] /\ Under = Below(stack) /\ Pointers(arg) = {}
      /\ Good(lost, stack, heap, tables, rest, g)
  BY TopIs
<1>2. {} = Pointers(stack[Len(stack)].args) \ {Null}
  BY <1>1 DEF arg
<1>3. Good(lost \union {}, Under, heap, tables, rest, g)
  BY <1>1, <1>2, PopKeeps
<1>4. Good(lost, Under, heap, tables, rest, g)
  BY <1>3
<1> QED BY <1>4, DoneKeeps

LEMMA PrintKeeps ==
  ASSUME NEW g, Here(g), doprint \/ Prints \/ Printed PROVE There(g)
<1>0. tables' = tables /\ rest' = rest /\ lost' = lost /\ outcome' = outcome
  BY DEF doprint, Prints, Printed, tables, rest, system
<1>1. CASE doprint
  <2>1. Begins /\ stack' = Append(stack, Call("PRINT", <<>>)) /\ heap' = heap
    BY <1>1 DEF doprint
  <2>2. Calm(stack) /\ outcome = "running"
    BY <2>1, BeginsCalm
  <2>3. Good(lost, Append(stack, Call("PRINT", <<>>)), heap, tables, rest, g)
    BY <2>2, PrintFresh DEF Here
  <2> QED BY <1>0, <2>1, <2>2, <2>3 DEF There
<1>2. CASE Prints
  <2>1. /\ outcome = "running" /\ stack # <<>> /\ Top.fn = "PRINT" /\ heap' = free(heap, Pointers(arg))
        /\ stack' = Append(Under, Call("PRINT", <<>>))
    BY <1>2 DEF Prints, Has, In
  <2>2. Good(lost \union ((Pointers(arg) \ Pointers(arg)) \ {Null}), Under, free(heap, Pointers(arg)), tables, rest, g)
    BY <2>1, ReturnKeeps
  <2>3. lost \union ((Pointers(arg) \ Pointers(arg)) \ {Null}) = lost
    OBVIOUS
  <2>4. Calm(Under)
    BY <2>1, ProceedKeeps DEF Parts
  <2>5. Good(lost, Append(Under, Call("PRINT", <<>>)), free(heap, Pointers(arg)), tables, rest, g)
    BY <2>2, <2>3, <2>4, PrintFresh
  <2> QED BY <1>0, <2>1, <2>5 DEF There
<1>3. CASE Printed
  <2>1. /\ outcome = "running" /\ stack # <<>> /\ Top.fn = "PRINT" /\ heap' = heap
        /\ stack' = Done(Under) /\ Len(arg) = 0
    BY <1>3 DEF Printed, In, Proceed
  <2>2. Good(lost, Done(Under), heap, tables, rest, g)
    BY <2>1, ProceedsKeep
  <2> QED BY <1>0, <2>1, <2>2 DEF There
<1> QED BY <1>1, <1>2, <1>3

LEMMA DimdoneKeeps ==
  ASSUME NEW g, Here(g), dimdone PROVE There(g)
<1>1. /\ tables' = tables /\ rest' = rest /\ lost' = lost /\ outcome' = outcome /\ heap' = heap
      /\ outcome = "running" /\ stack # <<>> /\ Top.fn = "DIM," /\ stack' = Done(Under)
  BY DEF dimdone, tables, rest, system, In, Proceed
<1>2. Len(arg) <= MaxArgs(Top.fn) /\ Len(arg) \in Nat
  <2>1. {} \in SUBSET Pointers(arg)
    OBVIOUS
  <2>2. Top.fn # "DIM" /\ Top.fn \notin Lines
    BY <1>1 DEF Lines
  <2>3. Len(arg) \in Nat
    BY <1>1, TopIs
  <2> QED BY <1>1, <2>1, <2>2, <2>3, ProceedKeeps
<1>3. Len(arg) = 0
  <2>1. MaxArgs("DIM,") = 0
    BY DEF MaxArgs
  <2>2. MaxArgs(Top.fn) = 0
    BY <1>1, <2>1
  <2>3. \A m \in Nat : m <= 0 => m = 0
    OBVIOUS
  <2> QED BY <1>2, <2>2, <2>3
<1>4. Good(lost, Done(Under), heap, tables, rest, g)
  BY <1>1, <1>3, ProceedsKeep
<1> QED BY <1>1, <1>4 DEF There

LEMMA InputbeginsKeeps ==
  ASSUME NEW g, Here(g), inputbegins PROVE There(g)
<1>1. PICK m \in malloc(heap, Other) : heap' = m.h /\ curinputptr' = m.p
  BY DEF inputbegins
<1>2. /\ tables' = tables /\ outcome' = "running" /\ labels' = labels /\ files' = files
      /\ lost' = lost /\ stack' = stack /\ curinputptr = Null
  BY DEF inputbegins, InProgram, tables
<1>3. Good(lost, stack, heap, tables, rest, g) /\ m \in Makes(heap) /\ Blocked(lost, heap)
  BY MakesAll DEF Here, Good, Sound
<1> DEFINE X == lost \union ({m.p} \ {Null})
<1>4. m.p \notin lost /\ Good(X, stack, m.h, tables, rest, g)
  BY <1>3, MakeKeeps
<1>5. m.p \in X \union {Null} /\ rest' = <<rest[1], rest[2], m.p>> /\ rest[3] = Null
  BY <1>1, <1>2 DEF rest
<1>6. (X \ {m.p}) \union ({rest[3]} \ {Null}) = lost
  BY <1>4, <1>5
<1> HIDE DEF X
<1>7. Good((X \ {m.p}) \union ({rest[3]} \ {Null}), stack, m.h, tables, rest', g)
  BY <1>4, <1>5, InputKeeps
<1> QED BY <1>1, <1>2, <1>6, <1>7 DEF There

LEMMA DolineKeeps ==
  ASSUME NEW g, Here(g), doline PROVE There(g)
<1>1. /\ tables' = tables /\ rest' = rest /\ lost' = lost /\ outcome' = "running" /\ heap' = heap
      /\ stack = <<>> /\ stack' = <<Call("DOLINE", <<>>)>>
  BY DEF doline, InProgram, tables, rest, system
<1> DEFINE f == Call("DOLINE", <<>>)
<1>2. f \in Plain /\ f.fn = "DOLINE" /\ f.args = <<>> /\ stack' = Append(stack, f)
  BY <1>1 DEF Call, Plain
<1> HIDE DEF f
<1>3. Calm(stack)
  BY <1>1 DEF Calm
<1>4. Fresh(stack, f) /\ Aimed(f, tables)
  BY <1>1, <1>2, <1>3 DEF Fresh, Frame, Lines, Parts, Aimed, Assigning
<1>5. Good(lost, stack, heap, tables, rest, g)
  BY DEF Here
<1>6. Good(lost \ {Null}, Append(stack, f), heap, tables, rest, g)
  BY <1>2, <1>4, <1>5, PushKeeps
<1>7. lost \ {Null} = lost
  BY <1>5, NoNull DEF Good, Sound
<1> QED BY <1>1, <1>2, <1>6, <1>7 DEF There

LEMMA ReallocNew ==
  ASSUME NEW h, NEW p, NEW c, NEW m \in realloc(h, p, c)
  PROVE  /\ m.p = Null \/ m.p = p \/ m.p \notin DOMAIN h
         /\ m.p = Null => m.h = h
<1>0. \A b \in Spare(h) : b # Null /\ b \notin DOMAIN h
  BY MemoryAssumption DEF Spare
<1>1. ASSUME m \in malloc(h, c)
      PROVE  (m.p = Null \/ m.p = p \/ m.p \notin DOMAIN h) /\ (m.p = Null => m.h = h)
  BY <1>0, <1>1 DEF malloc
<1>2. CASE p = Null
  BY <1>1, <1>2 DEF realloc
<1>3. CASE p # Null
  BY <1>0, <1>3 DEF realloc
<1> QED BY <1>2, <1>3

LEMMA MallocGrows ==
  ASSUME NEW h, NEW c, NEW m \in malloc(h, c) PROVE DOMAIN h \subseteq DOMAIN m.h
<1>1. CASE m = [p |-> Null, h |-> h]
  BY <1>1
<1>2. ASSUME NEW b, m = [p |-> b, h |-> Put(h, b, c)] PROVE DOMAIN h \subseteq DOMAIN m.h
  <2>1. m.h = Put(h, b, c)
    BY <1>2
  <2> QED BY <2>1 DEF Put
<1> QED BY <1>1, <1>2 DEF malloc

LEMMA DolinetokensKeeps ==
  ASSUME NEW g, Here(g), dolinetokens PROVE There(g)
<1>1. /\ tables' = tables /\ rest' = rest /\ lost' = lost /\ outcome' = "running"
      /\ stack # <<>> /\ Top.fn = "DOLINE" /\ Len(arg) = 1
  BY DEF dolinetokens, Has, In, tables, rest, system, arg
<1>2. /\ Pointers(arg) = {arg[1]} /\ Pointers(arg) \ {Null} \subseteq DOMAIN heap \ lost
      /\ Good(lost, stack, heap, tables, rest, g) /\ Stacked(stack, tables)
      /\ Top = stack[Len(stack)] /\ Under = Below(stack) /\ Null \notin lost /\ lost \subseteq DOMAIN heap
  BY <1>1, TopIs
<1>3. CASE stack' = Done(Under) /\ heap' = free(heap, Pointers(arg))
  <2>1. Good(lost \union ((Pointers(arg) \ Pointers(arg)) \ {Null}), Done(Under), free(heap, Pointers(arg)), tables, rest, g)
    BY <1>1, ProceedKeeps
  <2>2. lost \union ((Pointers(arg) \ Pointers(arg)) \ {Null}) = lost
    OBVIOUS
  <2> QED BY <1>1, <1>3, <2>1, <2>2 DEF There
<1>4. CASE \E m \in malloc(heap, Other) :
           \E r \in IF m.p = Null THEN {m} ELSE realloc(m.h, m.p, Other) :
             IF r.p = Null THEN stack' = Done(Under) /\ heap' = free(r.h, {arg[1], m.p})
             ELSE heap' = free(r.h, {arg[1]}) /\ stack' = <<Call("line", <<r.p>>)>>
  <2>1. PICK m \in malloc(heap, Other) :
           \E r \in IF m.p = Null THEN {m} ELSE realloc(m.h, m.p, Other) :
             IF r.p = Null THEN stack' = Done(Under) /\ heap' = free(r.h, {arg[1], m.p})
             ELSE heap' = free(r.h, {arg[1]}) /\ stack' = <<Call("line", <<r.p>>)>>
    BY <1>4
  <2>2. PICK r \in IF m.p = Null THEN {m} ELSE realloc(m.h, m.p, Other) :
             IF r.p = Null THEN stack' = Done(Under) /\ heap' = free(r.h, {arg[1], m.p})
             ELSE heap' = free(r.h, {arg[1]}) /\ stack' = <<Call("line", <<r.p>>)>>
    BY <2>1
  <2> DEFINE B == Pointers(arg) \ {Null}
             X == (lost \union B) \union ({m.p} \ {Null})
  <2>3. B = Pointers(stack[Len(stack)].args) \ {Null}
    BY <1>2 DEF arg
  <2>4. Good(lost \union B, Under, heap, tables, rest, g)
    <3> HIDE DEF B
    <3> QED BY <1>1, <1>2, <2>3, PopKeeps
  <2>5. m.p \in Ptr /\ m.p \notin DOMAIN heap /\ Good(X, Under, m.h, tables, rest, g)
    <3> HIDE DEF B
    <3> QED BY <2>4, MakesAll, MakeKeeps
  <2>6. Other \in Content /\ m.p \in X \union {Null}
    BY DEF Other, Content
  <2>7. Calm(Under)
    BY <1>1, <1>2, ShapeIs DEF Parts
  <2>8. CASE r.p = Null
    <3>1. r.h = m.h
      <4>1. CASE m.p = Null
        BY <2>2, <4>1
      <4>2. CASE m.p # Null
        <5>1. r \in realloc(m.h, m.p, Other)
          BY <2>2, <4>2
        <5> HIDE DEF X
        <5> QED BY <2>8, <5>1, ReallocNew
      <4> QED BY <4>1, <4>2
    <3>2. {arg[1], m.p} \subseteq X \union {Null} /\ X \ {arg[1], m.p} = lost
      BY <1>2, <2>5
    <3> HIDE DEF X
    <3>3. Good(X \ {arg[1], m.p}, Under, free(m.h, {arg[1], m.p}), tables, rest, g)
      BY <2>5, <3>2, FreeKeeps
    <3>4. Good(lost, Done(Under), free(m.h, {arg[1], m.p}), tables, rest, g)
      BY <3>2, <3>3, DoneKeeps
    <3> QED BY <1>1, <2>2, <2>8, <3>1, <3>4 DEF There
  <2>9. CASE r.p # Null
    <3>1. m.p # Null /\ r \in realloc(m.h, m.p, Other)
      BY <2>2, <2>9
    <3> DEFINE Y == (X \ {m.p}) \union {r.p}
    <3>2. r.p \in Ptr /\ Good(Y, Under, r.h, tables, rest, g)
      <4> HIDE DEF X
      <4> QED BY <2>5, <2>6, <2>9, <3>1, ReallocKeeps
    <3>3. r.p = m.p \/ r.p \notin DOMAIN m.h
      BY <2>9, <3>1, ReallocNew
    <3>4. DOMAIN heap \subseteq DOMAIN m.h
      BY MallocGrows
    <3>5. {arg[1]} \subseteq Y \union {Null} /\ Y \ {arg[1]} = lost \union {r.p} /\ r.p \notin lost
      BY <1>2, <2>5, <2>9, <3>1, <3>3, <3>4
    <3> HIDE DEF X, Y
    <3>6. Good(Y \ {arg[1]}, Under, free(r.h, {arg[1]}), tables, rest, g)
      BY <3>2, <3>5, FreeKeeps
    <3>7. Good(lost \union {r.p}, Under, free(r.h, {arg[1]}), tables, rest, g)
      BY <3>5, <3>6
    <3>8. Under = <<>>
      <4>1. Len(stack) = 1
        BY <1>1, <1>2, ShapeIs
      <4>2. Under \in Seq(Frame) /\ Len(Under) = 0
        BY <1>1, <1>2, <4>1, BelowIs DEF Stacked
      <4> QED BY <4>2, EmptySeq
    <3> DEFINE f == Call("line", <<r.p>>)
    <3>9. f \in Plain /\ f.fn = "line" /\ f.args = <<r.p>> /\ <<f>> = Append(Under, f)
      BY <3>2, <3>8 DEF Call, Plain, Lines
    <3> HIDE DEF f
    <3>10. Fresh(Under, f) /\ Aimed(f, tables) /\ f.fn \in Lines \union Parts
      BY <3>8, <3>9 DEF Fresh, Frame, Lines, Parts, Aimed, Assigning
    <3>11. r.p \in (lost \union {r.p}) \union {Null} /\ (lost \union {r.p}) \ {r.p} = lost
      BY <3>5
    <3>12. Good((lost \union {r.p}) \ {r.p}, Append(Under, f), free(r.h, {arg[1]}), tables, rest, g)
      BY <3>7, <3>9, <3>10, <3>11, PushKeeps
    <3> QED BY <1>1, <2>2, <2>9, <3>9, <3>11, <3>12 DEF There, f
  <2> QED BY <2>8, <2>9
<1> QED BY <1>1, <1>2, <1>3, <1>4 DEF dolinetokens, Proceed

(* LET, MID$ = and INPUT have been told where to write.                    *)
LEMMA AssignsKeeps ==
  ASSUME NEW X, NEW s, NEW h, NEW T, NEW R, NEW g, Good(X, s, h, T, R, g), Calm(s),
         NEW fn \in Assigning, NEW at \in Address, NEW old \in Ptr, NEW of \in SUBSET Naming,
         NEW f, f = To(fn, at, old, of),
         at # NoAddress => AtScalar(f, T) \/ \E j \in 1 .. Len(DimsOf(T)) : AtElement(f, T, j)
  PROVE  Good(X, IF at = NoAddress /\ fn = "LET" THEN Done(s) ELSE Append(s, f), h, T, R, g)
<1>1. /\ f.fn = fn /\ f.args = <<>> /\ f.at = at /\ f.old = old /\ f.of = of /\ f \in Aiming
  BY DEF To, Aiming
<1>2. CASE at = NoAddress /\ fn = "LET"
  BY <1>2, DoneKeeps
<1>3. CASE ~(at = NoAddress /\ fn = "LET")
  <2>1. f.fn \in {"LET", "MID", "INPUT"}
    BY <1>1 DEF Assigning
  <2>2. Fresh(s, f)
    BY <1>1, <2>1 DEF Fresh, Frame, Lines, Parts
  <2>3. Aimed(f, T)
    <3>1. f.fn \in Assigning => IF f.at = NoAddress THEN f.fn # "LET"
             ELSE AtScalar(f, T) \/ \E j \in 1 .. Len(DimsOf(T)) : AtElement(f, T, j)
      BY <1>1, <1>3
    <3>2. f.fn \notin {"lvalue", "DIM", "DIM,"}
      BY <2>1
    <3> QED BY <3>1, <3>2 DEF Aimed
  <2>4. Good(X \ {Null}, Append(s, f), h, T, R, g)
    BY <1>1, <2>2, <2>3, PushKeeps
  <2>5. X \ {Null} = X
    BY NoNull DEF Good, Sound
  <2> QED BY <1>3, <2>4, <2>5
<1> QED BY <1>2, <1>3

LEMMA NowhereKeeps ==
  ASSUME NEW X, NEW s, NEW h, NEW T, NEW R, NEW g, Good(X, s, h, T, R, g), Calm(s),
         NEW fn \in Assigning
  PROVE  Good(X, IF fn = "LET" THEN Done(s) ELSE Append(s, To(fn, NoAddress, Null, {})), h, T, R, g)
<1> DEFINE f == To(fn, NoAddress, Null, {})
<1>1. NoAddress \in Address /\ Null \in Ptr /\ {} \in SUBSET Naming
  BY DEF NoAddress, Address, Ptr
<1>2. f = To(fn, NoAddress, Null, {})
  OBVIOUS
<1> HIDE DEF f
<1>3. Good(X, IF NoAddress = NoAddress /\ fn = "LET" THEN Done(s) ELSE Append(s, f), h, T, R, g)
  BY <1>1, <1>2, AssignsKeeps
<1> QED BY <1>2, <1>3

(* The table of arrays, as a step meets it.                                *)
LEMMA DimsAre ==
  ASSUME NEW g, Here(g)
  PROVE  /\ dimvariables \in Seq(Matrix) /\ Ordered(dimvariables) /\ dimtable \in Ptr
         /\ DimsOf(tables) = dimvariables /\ DimBlock(tables) = dimtable
         /\ variables \in Seq(Scalar) /\ Ordered(variables) /\ vartable \in Ptr
         /\ VarsOf(tables) = variables /\ VarBlock(tables) = vartable
<1>1. Tabled(heap, tables)
  BY DEF Here, Good, Sound
<1>2. DimsOf(tables) = dimvariables /\ DimBlock(tables) = dimtable
      /\ VarsOf(tables) = variables /\ VarBlock(tables) = vartable
  BY DEF DimsOf, DimBlock, VarsOf, VarBlock, tables
<1> QED BY <1>1, <1>2 DEF Tabled

LEMMA LvaluedimKeeps ==
  ASSUME NEW g, Here(g), lvaluedim PROVE There(g)
<1>1. PICK fn \in Assigning, a \in StringArrays :
        /\ MayAssign(fn)
        /\ IF finddimvar(a).found
           THEN stack' = Append(stack,
                   [fn |-> "lvalue", args |-> <<>>, for |-> fn, array |-> a,
                    at |-> [block |-> dimtable, index |-> finddimvar(a).at]])
           ELSE Assigns(stack, fn, NoAddress, Null, {})
  BY DEF lvaluedim
<1>2. tables' = tables /\ rest' = rest /\ lost' = lost /\ outcome' = outcome /\ heap' = heap
  BY DEF lvaluedim, tables, rest, system
<1>3. Calm(stack) /\ outcome = "running"
  BY <1>1, MayAssignCalm
<1>4. Good(lost, stack, heap, tables, rest, g)
  BY DEF Here
<1>5. CASE finddimvar(a).found
  <2> DEFINE i == finddimvar(a).at
             f == [fn |-> "lvalue", args |-> <<>>, for |-> fn, array |-> a,
                   at |-> [block |-> dimtable, index |-> i]]
  <2>1. stack' = Append(stack, f)
    BY <1>1, <1>5
  <2>2. i \in 1 .. Len(dimvariables) /\ dimvariables[i].id = a
    <3>1. a \in Nat /\ Ordered(dimvariables) /\ finddimvar(a) = findvariable(dimvariables, a)
      BY NamesAssumption, DimsAre DEF finddimvar
    <3> QED BY <1>5, <3>1, FindsIs
  <2> HIDE DEF i
  <2>3. i \in Nat
    BY <2>2, DimsAre
  <2>4. /\ f.fn = "lvalue" /\ f.args = <<>> /\ f.array = a /\ f.at.block = dimtable /\ f.at.index = i
        /\ f \in Picking
    BY <2>3, DimsAre DEF Picking, Address
  <2> HIDE DEF f
  <2>5. Fresh(stack, f)
    BY <1>3, <2>4 DEF Fresh, Frame, Lines, Parts
  <2>6. Aimed(f, tables)
    BY <2>2, <2>4, DimsAre DEF Aimed, Assigning
  <2>7. Good(lost \ {Null}, Append(stack, f), heap, tables, rest, g)
    BY <1>4, <2>4, <2>5, <2>6, PushKeeps
  <2>8. lost \ {Null} = lost
    BY <1>4, NoNull DEF Good, Sound
  <2> QED BY <1>2, <1>3, <2>1, <2>7, <2>8 DEF There
<1>6. CASE ~finddimvar(a).found
  <2>1. stack' = IF fn = "LET" THEN Done(stack) ELSE Append(stack, To(fn, NoAddress, Null, {}))
    BY <1>1, <1>6 DEF Assigns
  <2>2. Good(lost, stack', heap, tables, rest, g)
    BY <1>3, <1>4, <2>1, NowhereKeeps
  <2> QED BY <1>2, <1>3, <2>2 DEF There
<1> QED BY <1>5, <1>6

LEMMA GetdimvarKeeps ==
  ASSUME NEW g, Here(g), getdimvar PROVE There(g)
<1> DEFINE a == Top.array
           j == Top.at.index
           d == dimvariables[j]
<1>1. PICK i \in Subscripts(a) :
        IF Serrorflag = NoError /\ i # Outside
        THEN Assigns(Under, Top.for, [block |-> d.data, index |-> i], d.str[i], {[array |-> a, index |-> i]})
        ELSE Assigns(Under, Top.for, NoAddress, Null, {})
  BY DEF getdimvar
<1>2. /\ tables' = tables /\ rest' = rest /\ lost' = lost /\ outcome' = outcome /\ heap' = heap
      /\ outcome = "running" /\ stack # <<>> /\ Top.fn = "lvalue"
  BY DEF getdimvar, In, tables, rest, system
<1>3. Top = stack[Len(stack)] /\ Top \in Frame /\ Under = Below(stack) /\ Stacked(stack, tables)
      /\ Len(arg) \in Nat
  BY <1>2, TopIs
<1>4. Len(arg) = 0 /\ Calm(Under)
  <2>1. {} \in SUBSET Pointers(arg)
    OBVIOUS
  <2>2. Top.fn # "DIM" /\ Top.fn \notin Lines /\ Top.fn \notin Parts
    BY <1>2 DEF Lines, Parts
  <2>3. Len(arg) <= MaxArgs(Top.fn) /\ Calm(Under)
    BY <1>2, <2>1, <2>2, ProceedKeeps
  <2>4. MaxArgs(Top.fn) = 0
    BY <1>2 DEF MaxArgs
  <2>5. \A m \in Nat : m <= 0 => m = 0
    OBVIOUS
  <2> QED BY <1>3, <2>3, <2>4, <2>5
<1>5. Good(lost, Under, heap, tables, rest, g)
  BY <1>2, <1>4, ProceedsKeep
<1>6. Top \in Picking
  BY <1>2, <1>3, Fields
<1>7. a \in StringArrays /\ Top.for \in Assigning
  BY <1>6 DEF Picking
<1>8. Aimed(Top, tables)
  <2>1. Len(stack) \in 1 .. Len(stack)
    BY <1>2, <1>3, BelowIs DEF Stacked
  <2> QED BY <1>3, <2>1 DEF Stacked
<1>9. j \in 1 .. Len(dimvariables) /\ d.id = a
  BY <1>2, <1>8, DimsAre DEF Aimed
<1>10. d \in Matrix
  BY <1>9, DimsAre
<1>11. i = Outside \/ i \in DOMAIN d.str
  <2>1. a \in Nat /\ Ordered(dimvariables) /\ finddimvar(a) = findvariable(dimvariables, a)
    BY <1>7, NamesAssumption, DimsAre DEF finddimvar
  <2>2. finddimvar(a).at = j
    BY <1>9, <2>1, FindsIs
  <2> QED BY <1>1, <2>2 DEF Subscripts
<1> HIDE DEF a, j, d
<1>12. CASE Serrorflag = NoError /\ i # Outside
  <2> DEFINE at == [block |-> d.data, index |-> i]
             old == d.str[i]
             of == {[array |-> a, index |-> i]}
             f == To(Top.for, at, old, of)
  <2>1. d.str \in Seq(Ptr) /\ d.data \in Ptr
    BY <1>10 DEF Matrix
  <2>2. i \in 1 .. Len(d.str) /\ i \in Nat /\ i # 0 /\ old \in Ptr
    BY <1>11, <1>12, <2>1
  <2>3. at \in Address /\ at # NoAddress /\ at.block = d.data /\ at.index = i
    BY <2>1, <2>2 DEF Address, NoAddress
  <2>4. of \in SUBSET Naming
    BY <1>7, <2>2 DEF Naming
  <2>5. f.at = at /\ f.of = of /\ f.old = old /\ f = To(Top.for, at, old, of)
    BY DEF To
  <2> HIDE DEF f
  <2>6. AtElement(f, tables, j)
    BY <1>7, <1>9, <2>2, <2>3, <2>5, DimsAre DEF AtElement, d
  <2>7. stack' = IF at = NoAddress /\ Top.for = "LET" THEN Done(Under) ELSE Append(Under, f)
    BY <1>1, <1>12, <2>5 DEF Assigns
  <2>8. j \in 1 .. Len(DimsOf(tables))
    BY <1>9, DimsAre
  <2> HIDE DEF at, old, of
  <2>9. Good(lost, IF at = NoAddress /\ Top.for = "LET" THEN Done(Under) ELSE Append(Under, f), heap, tables, rest, g)
    BY <1>4, <1>5, <1>7, <2>2, <2>3, <2>4, <2>5, <2>6, <2>8, AssignsKeeps
  <2> QED BY <1>2, <2>7, <2>9 DEF There
<1>13. CASE ~(Serrorflag = NoError /\ i # Outside)
  <2>1. stack' = IF Top.for = "LET" THEN Done(Under) ELSE Append(Under, To(Top.for, NoAddress, Null, {}))
    BY <1>1, <1>13 DEF Assigns
  <2>2. Good(lost, stack', heap, tables, rest, g)
    BY <1>4, <1>5, <1>7, <2>1, NowhereKeeps
  <2> QED BY <1>2, <2>2 DEF There
<1> QED BY <1>12, <1>13

-----------------------------------------------------------------------------
(* A table gets an entry more                                              *)

LEMMA Room1 ==
  ASSUME NEW n \in Nat
  PROVE  nextlargest(n) \in Nat /\ n <= nextlargest(n)
<1> DEFINE q == (n + Chunk - 1) \div Chunk
           r == (n + Chunk - 1) % Chunk
<1>1. Chunk \in Nat /\ Chunk >= 1 /\ n + Chunk - 1 \in Nat
  BY MemoryAssumption
<1>2. q \in Nat /\ r \in Nat /\ r < Chunk /\ n + Chunk - 1 = Chunk * q + r
  BY <1>1
<1>3. Chunk * q = q * Chunk /\ q * Chunk \in Nat
  BY <1>1, <1>2
<1> HIDE DEF q, r
<1> QED BY <1>1, <1>2, <1>3 DEF nextlargest, q

LEMMA Room0 == nextlargest(0) = 0
<1>1. Chunk \in Nat /\ Chunk >= 1
  BY MemoryAssumption
<1>2. \A c \in Nat : c >= 1 => (0 + c - 1) \div c = 0
  OBVIOUS
<1> QED BY <1>1, <1>2 DEF nextlargest

LEMMA InsertIs ==
  ASSUME NEW S, NEW s \in Seq(S), NEW e \in S, NEW p \in 1 .. Len(s) + 1,
         NEW t, t = InsertAt(s, p, e)
  PROVE  /\ t \in Seq(S) /\ Len(t) = Len(s) + 1
         /\ \A i \in 1 .. Len(s) + 1 : t[i] = IF i < p THEN s[i] ELSE IF i = p THEN e ELSE s[i - 1]
<1> DEFINE a == SubSeq(s, 1, p - 1)
           b == SubSeq(s, p, Len(s))
           n == Len(s)
<1>0. n \in Nat /\ p \in Int /\ 1 <= p /\ p <= n + 1
  OBVIOUS
<1>1. a \in Seq(S) /\ Len(a) = p - 1 /\ \A i \in 1 .. p - 1 : a[i] = s[i]
  <2>1. \A i \in 1 .. p - 1 : s[i] \in S
    OBVIOUS
  <2>2. /\ SubSeq(s, 1, p - 1) \in Seq(S)
        /\ Len(SubSeq(s, 1, p - 1)) = IF 1 <= p - 1 THEN p - 1 - 1 + 1 ELSE 0
        /\ \A i \in 1 .. p - 1 - 1 + 1 : SubSeq(s, 1, p - 1)[i] = s[1 + i - 1]
    BY <1>0, <2>1, SubSeqProperties
  <2>3. p - 1 - 1 + 1 = p - 1 /\ (~(1 <= p - 1) => p - 1 = 0) /\ \A i \in 1 .. p - 1 : 1 + i - 1 = i
    BY <1>0
  <2> QED BY <2>2, <2>3
<1>2. b \in Seq(S) /\ Len(b) = n - p + 1 /\ \A i \in 1 .. n - p + 1 : b[i] = s[p + i - 1]
  <2>1. \A i \in p .. n : s[i] \in S
    OBVIOUS
  <2>2. /\ SubSeq(s, p, n) \in Seq(S)
        /\ Len(SubSeq(s, p, n)) = IF p <= n THEN n - p + 1 ELSE 0
        /\ \A i \in 1 .. n - p + 1 : SubSeq(s, p, n)[i] = s[p + i - 1]
    BY <1>0, <2>1, SubSeqProperties
  <2>3. ~(p <= n) => n - p + 1 = 0
    BY <1>0
  <2> QED BY <2>2, <2>3
<1>3. t = (a \o <<e>>) \o b
  BY DEF InsertAt
<1> HIDE DEF a, b, n
<1>4. <<e>> \in Seq(S) /\ Len(<<e>>) = 1 /\ <<e>>[1] = e
  OBVIOUS
<1> DEFINE c == a \o <<e>>
<1>5. c \in Seq(S) /\ Len(c) = p /\ \A i \in 1 .. p : c[i] = IF i < p THEN a[i] ELSE e
  <2>1. c \in Seq(S) /\ Len(c) = Len(a) + 1
        /\ \A i \in 1 .. Len(a) + 1 : c[i] = IF i <= Len(a) THEN a[i] ELSE <<e>>[i - Len(a)]
    BY <1>1, <1>4, ConcatProperties
  <2> HIDE DEF c
  <2>2. \A i \in 1 .. p : (i <= Len(a) <=> i < p) /\ (~(i < p) => i - Len(a) = 1)
    BY <1>0, <1>1
  <2>3. Len(a) + 1 = p
    BY <1>0, <1>1
  <2> QED BY <1>4, <2>1, <2>2, <2>3
<1>6. /\ t \in Seq(S) /\ Len(t) = Len(c) + Len(b)
      /\ \A i \in 1 .. Len(c) + Len(b) : t[i] = IF i <= Len(c) THEN c[i] ELSE b[i - Len(c)]
  <2>1. t = c \o b
    BY <1>3
  <2> HIDE DEF c
  <2>2. /\ c \o b \in Seq(S) /\ Len(c \o b) = Len(c) + Len(b)
        /\ \A i \in 1 .. Len(c) + Len(b) : (c \o b)[i] = IF i <= Len(c) THEN c[i] ELSE b[i - Len(c)]
    BY <1>2, <1>5, ConcatProperties
  <2> QED BY <2>1, <2>2
<1> HIDE DEF c
<1>7. Len(c) + Len(b) = n + 1 /\ Len(c) = p
  BY <1>0, <1>2, <1>5
<1>8. ASSUME NEW i \in 1 .. n + 1 PROVE t[i] = IF i < p THEN s[i] ELSE IF i = p THEN e ELSE s[i - 1]
  <2>1. t[i] = IF i <= p THEN c[i] ELSE b[i - p]
    BY <1>6, <1>7
  <2>2. CASE i < p
    <3>1. i \in 1 .. p /\ i \in 1 .. p - 1 /\ i <= p
      BY <1>0, <2>2
    <3> QED BY <1>1, <1>5, <2>1, <2>2, <3>1
  <2>3. CASE i = p
    <3>1. i \in 1 .. p /\ ~(i < p) /\ i <= p
      BY <1>0, <2>3
    <3> QED BY <1>5, <2>1, <2>3, <3>1
  <2>4. CASE i > p
    <3>1. i - p \in 1 .. n - p + 1 /\ ~(i <= p) /\ ~(i < p) /\ i # p /\ p + (i - p) - 1 = i - 1
      BY <1>0, <2>4
    <3>2. b[i - p] = s[p + (i - p) - 1]
      BY <1>2, <3>1
    <3> QED BY <2>1, <3>1, <3>2
  <2>5. i < p \/ i = p \/ i > p
    BY <1>0
  <2> QED BY <2>2, <2>3, <2>4, <2>5
<1> QED BY <1>6, <1>7, <1>8 DEF n

(* What it is: s with e at p, the entries from p on one further.           *)
Spread(s, p, e, t) ==
  /\ Len(t) = Len(s) + 1
  /\ \A i \in 1 .. Len(s) + 1 : t[i] = IF i < p THEN s[i] ELSE IF i = p THEN e ELSE s[i - 1]

LEMMA SpreadOrdered ==
  ASSUME NEW s, NEW e, NEW p, NEW t, Ordered(s), e.id \in Nat, IsAt(s, e.id, p),
         \A i \in 1 .. Len(s) : s[i].id # e.id, Spread(s, p, e, t)
  PROVE  Ordered(t)
<1> DEFINE n == Len(s)
<1>1. n \in Nat /\ p \in 1 .. n + 1 /\ Len(t) = n + 1
  BY DEF Ordered, IsAt, Spread
<1>2. \A i \in 1 .. n : s[i].id \in Nat /\ \A j \in 1 .. n : i < j => s[i].id < s[j].id
  BY DEF Ordered
<1>3. \A i \in 1 .. n : (i < p => s[i].id < e.id) /\ (i >= p => s[i].id > e.id)
  BY <1>2 DEF IsAt
<1>4. \A i \in 1 .. n + 1 : t[i] = IF i < p THEN s[i] ELSE IF i = p THEN e ELSE s[i - 1]
  BY DEF Spread
<1> HIDE DEF n
<1>5. \A i \in 1 .. n + 1 : (i < p => i \in 1 .. n) /\ (i > p => i - 1 \in 1 .. n)
  BY <1>1
<1>6. ASSUME NEW i \in 1 .. n + 1 PROVE t[i].id \in Nat
  <2>1. CASE i < p
    BY <1>2, <1>4, <1>5, <2>1
  <2>2. CASE i = p
    BY <1>1, <1>4, <2>2
  <2>3. CASE i > p
    BY <1>1, <1>2, <1>4, <1>5, <2>3
  <2> QED BY <1>1, <2>1, <2>2, <2>3
<1>7. ASSUME NEW i \in 1 .. n + 1, NEW j \in 1 .. n + 1, i < j PROVE t[i].id < t[j].id
  <2>1. CASE j < p
    <3>1. i < p /\ t[i] = s[i] /\ t[j] = s[j] /\ i \in 1 .. n /\ j \in 1 .. n
      BY <1>1, <1>4, <1>5, <1>7, <2>1
    <3> QED BY <1>2, <1>7, <3>1
  <2>2. CASE j = p
    <3>1. i < p /\ t[i] = s[i] /\ t[j] = e /\ i \in 1 .. n
      BY <1>1, <1>4, <1>5, <1>7, <2>2
    <3> QED BY <1>3, <3>1
  <2>3. CASE j > p /\ i < p
    <3>1. t[i] = s[i] /\ t[j] = s[j - 1] /\ i \in 1 .. n /\ j - 1 \in 1 .. n /\ i < j - 1
      BY <1>1, <1>4, <1>5, <1>7, <2>3
    <3> QED BY <1>2, <3>1
  <2>4. CASE j > p /\ i = p
    <3>1. t[i] = e /\ t[j] = s[j - 1] /\ j - 1 \in 1 .. n /\ j - 1 >= p
      BY <1>1, <1>4, <1>5, <1>7, <2>4
    <3> QED BY <1>2, <1>3, <3>1
  <2>5. CASE j > p /\ i > p
    <3>1. t[i] = s[i - 1] /\ t[j] = s[j - 1] /\ i - 1 \in 1 .. n /\ j - 1 \in 1 .. n /\ i - 1 < j - 1
      BY <1>1, <1>4, <1>5, <1>7, <2>5
    <3> QED BY <1>2, <3>1
  <2>6. j < p \/ j = p \/ (j > p /\ (i < p \/ i = p \/ i > p))
    BY <1>1
  <2> QED BY <2>1, <2>2, <2>3, <2>4, <2>5, <2>6
<1> QED BY <1>1, <1>6, <1>7 DEF Ordered

(* What realloc may return, and the heap it leaves.                        *)
LEMMA ReallocIs ==
  ASSUME NEW h, NEW p, p = Null \/ p \in DOMAIN h, DOMAIN h \subseteq Blocks,
         NEW c, NEW m \in realloc(h, p, c), m.p # Null
  PROVE  /\ DOMAIN m.h = (DOMAIN h \ {p}) \union {m.p} /\ m.h[m.p] = c
         /\ \A d \in DOMAIN h \ {p} : d \in DOMAIN m.h /\ (d # m.p => m.h[d] = h[d])
         /\ m.p \in Blocks /\ (m.p = p \/ m.p \notin DOMAIN h)
<1>0. \A b \in Spare(h) : b # Null /\ b \notin DOMAIN h /\ b \in Blocks
  BY MemoryAssumption DEF Spare
<1>n. Null \notin DOMAIN h
  BY MemoryAssumption
<1>1. CASE p = Null
  <2>1. PICK b \in Spare(h) : m = [p |-> b, h |-> Put(h, b, c)]
    BY <1>1 DEF realloc, malloc
  <2>2. m.p = b /\ m.h = Put(h, b, c)
    BY <2>1
  <2>3. DOMAIN Put(h, b, c) = DOMAIN h \union {b} /\ Put(h, b, c)[b] = c
        /\ \A d \in DOMAIN h : d # b => Put(h, b, c)[d] = h[d]
    BY DEF Put
  <2> QED BY <1>0, <1>n, <1>1, <2>2, <2>3
<1>2. CASE p # Null /\ m = [p |-> p, h |-> Put(h, p, c)]
  <2>2. m.p = p /\ m.h = Put(h, p, c)
    BY <1>2
  <2>3. DOMAIN Put(h, p, c) = DOMAIN h \union {p} /\ Put(h, p, c)[p] = c
        /\ \A d \in DOMAIN h : d # p => Put(h, p, c)[d] = h[d]
    BY DEF Put
  <2> QED BY <1>2, <2>2, <2>3
<1>3. ASSUME p # Null, NEW b \in Spare(h), m = [p |-> b, h |-> Put(free(h, {p}), b, c)]
      PROVE  /\ DOMAIN m.h = (DOMAIN h \ {p}) \union {m.p} /\ m.h[m.p] = c
             /\ \A d \in DOMAIN h \ {p} : d \in DOMAIN m.h /\ (d # m.p => m.h[d] = h[d])
             /\ m.p \in Blocks /\ (m.p = p \/ m.p \notin DOMAIN h)
  <2> DEFINE h1 == free(h, {p})
  <2>2. m.p = b /\ m.h = Put(h1, b, c)
    BY <1>3
  <2>3. DOMAIN h1 = DOMAIN h \ {p} /\ \A d \in DOMAIN h \ {p} : h1[d] = h[d]
    BY DEF free
  <2> HIDE DEF h1
  <2>4. DOMAIN Put(h1, b, c) = DOMAIN h1 \union {b} /\ Put(h1, b, c)[b] = c
        /\ \A d \in DOMAIN h1 : d # b => Put(h1, b, c)[d] = h1[d]
    BY DEF Put
  <2> QED BY <1>0, <1>3, <2>2, <2>3, <2>4
<1> QED BY <1>1, <1>2, <1>3 DEF realloc

(* A table moves into a block of n entries.                                *)
Moved(H, q, b) == [r \in Places |-> IF r = q THEN b ELSE H[r]]

(* What is left of a heap when a table, held at q, has moved: all but its  *)
(* block is where it was.                                                  *)
Added(X, h, H, q, H1, h1) ==
  /\ H1 \in [Places -> Ptr] /\ Blocked(X, h1) /\ Own(DOMAIN h1 \ X, H1)
  /\ \A r \in Places : r # q => H1[r] = H[r]
  /\ \A b \in DOMAIN h \ X : b # H[q] => b \in DOMAIN h1 /\ h1[b] = h[b]

LEMMA TableMoves ==
  ASSUME NEW X, NEW h, Blocked(X, h), NEW H, Own(DOMAIN h \ X, H), NEW q \in Places, NEW n \in Nat,
         NEW t, t = H[q], NEW m \in realloc(h, t, Table(n)), m.p # Null
  PROVE  /\ Added(X, h, H, q, Moved(H, q, m.p), m.h) /\ Moved(H, q, m.p)[q] = m.p
         /\ m.p \in DOMAIN m.h \ X /\ m.h[m.p] = Table(n) /\ m.p \in Ptr
<1> DEFINE D == DOMAIN h \ X
           p == H[q]
           H2 == Moved(H, q, m.p)
<1>1. X \subseteq DOMAIN h /\ DOMAIN h \subseteq Blocks /\ Null \notin DOMAIN h
      /\ \A b \in DOMAIN h : h[b] \in Content
  BY NoNull DEF Blocked
<1>2. H \in [Places -> Ptr] /\ (p = Null \/ p \in D)
  BY DEF Own
<1>3. /\ DOMAIN m.h = (DOMAIN h \ {p}) \union {m.p} /\ m.h[m.p] = Table(n)
      /\ \A d \in DOMAIN h \ {p} : d \in DOMAIN m.h /\ (d # m.p => m.h[d] = h[d])
      /\ m.p \in Blocks /\ (m.p = p \/ m.p \notin DOMAIN h)
  <2>1. p = Null \/ p \in DOMAIN h
    BY <1>2
  <2>2. m \in realloc(h, p, Table(n))
    OBVIOUS
  <2> HIDE DEF p
  <2> QED BY <1>1, <2>1, <2>2, ReallocIs
<1>4. m.p \in Ptr /\ H2 \in [Places -> Ptr]
  BY <1>2, <1>3 DEF Ptr, Moved
<1>5. Table(n) = [room |-> n] /\ Table(n) \in Content
  BY DEF Table, Content
<1>6. Blocked(X, m.h)
  <2>1. X \subseteq DOMAIN m.h
    BY <1>1, <1>2, <1>3
  <2>2. DOMAIN m.h \subseteq Blocks
    BY <1>1, <1>3
  <2>3. ASSUME NEW b \in DOMAIN m.h PROVE m.h[b] \in Content
    BY <1>1, <1>3, <1>5
  <2> QED BY <2>1, <2>2, <2>3 DEF Blocked
<1>7. Own(DOMAIN m.h \ X, H2)
  <2>1. CASE m.p = p
    <3>1. H2 = H
      BY <1>2, <2>1 DEF Moved
    <3>2. DOMAIN m.h \ X = D
      BY <1>2, <1>3, <2>1
    <3> QED BY <3>1, <3>2
  <2>2. CASE m.p \notin DOMAIN h
    <3>0. m.p \notin D /\ Own(D, H)
      BY <2>2
    <3>1. \A r \in Places : H2[r] = IF r = q THEN m.p ELSE H[r]
      BY DEF Moved
    <3>2. Own((D \ {H[q]}) \union ({m.p} \ {Null}), H2)
      <4> HIDE DEF D
      <4> QED BY <1>4, <3>0, <3>1, OwnSwap
    <3>3. (D \ {H[q]}) \union ({m.p} \ {Null}) = DOMAIN m.h \ X
      BY <1>1, <1>3, <2>2
    <3> QED BY <3>2, <3>3
  <2> QED BY <1>3, <2>1, <2>2
<1>8. m.p \in DOMAIN m.h \ X
  BY <1>1, <1>2, <1>3
<1>9. \A b \in DOMAIN h \ X : b # H[q] => b \in DOMAIN m.h /\ m.h[b] = h[b]
  BY <1>3
<1>10. H2[q] = m.p /\ \A r \in Places : r # q => H2[r] = H[r]
  BY DEF Moved
<1> QED BY <1>3, <1>4, <1>6, <1>7, <1>8, <1>9, <1>10 DEF Added

(* What is held, place by place.                                           *)
Tells(H, s, T) ==
  /\ <<"vartable", 0, 0>> \in Places /\ H[<<"vartable", 0, 0>>] = VarBlock(T)
  /\ <<"dimtable", 0, 0>> \in Places /\ H[<<"dimtable", 0, 0>>] = DimBlock(T)
  /\ \A i \in 1 .. Len(VarsOf(T)) :
       <<"variables", i, 0>> \in Places /\ H[<<"variables", i, 0>>] = VarsOf(T)[i].sval
  /\ \A j \in 1 .. Len(DimsOf(T)) :
       <<"arrays", j, 0>> \in Places /\ H[<<"arrays", j, 0>>] = DimsOf(T)[j].data
  /\ \A j \in 1 .. Len(DimsOf(T)) : \A i \in 1 .. Len(DimsOf(T)[j].str) :
       <<j, i>> \notin Unborn(s) =>
         <<"elements", j, i>> \in Places /\ H[<<"elements", j, i>>] = DimsOf(T)[j].str[i]

LEMMA HeldThere ==
  ASSUME NEW s, NEW h, NEW T, NEW R, Tabled(h, T)
  PROVE  Tells(Held(s, T, R), s, T)
<1>1. Len(VarsOf(T)) \in Nat /\ Len(DimsOf(T)) \in Nat
  BY DEF Tabled
<1>2. ASSUME NEW j \in 1 .. Len(DimsOf(T)) PROVE Len(DimsOf(T)[j].str) \in Nat
  <2>1. DimsOf(T)[j] \in Matrix
    BY DEF Tabled
  <2> QED BY <2>1 DEF Matrix
<1>3. /\ <<"vartable", 0, 0>> \in Places /\ <<"dimtable", 0, 0>> \in Places
      /\ \A i \in 1 .. Len(VarsOf(T)) : <<"variables", i, 0>> \in Places
      /\ \A j \in 1 .. Len(DimsOf(T)) : <<"arrays", j, 0>> \in Places
      /\ \A j \in 1 .. Len(DimsOf(T)) : \A i \in 1 .. Len(DimsOf(T)[j].str) : <<"elements", j, i>> \in Places
  BY <1>1, <1>2 DEF Places, Kinds
<1>4. Held(s, T, R)[<<"vartable", 0, 0>>] = VarBlock(T) /\ Held(s, T, R)[<<"dimtable", 0, 0>>] = DimBlock(T)
  BY <1>3 DEF Held, Holding
<1>5. \A i \in 1 .. Len(VarsOf(T)) : Held(s, T, R)[<<"variables", i, 0>>] = VarsOf(T)[i].sval
  BY <1>3 DEF Held, Holding
<1>6. \A j \in 1 .. Len(DimsOf(T)) : Held(s, T, R)[<<"arrays", j, 0>>] = DimsOf(T)[j].data
  BY <1>3 DEF Held, Holding
<1>7. \A j \in 1 .. Len(DimsOf(T)) : \A i \in 1 .. Len(DimsOf(T)[j].str) :
        <<j, i>> \notin Unborn(s) => Held(s, T, R)[<<"elements", j, i>>] = DimsOf(T)[j].str[i]
  BY <1>3 DEF Held, Holding
<1> QED BY <1>3, <1>4, <1>5, <1>6, <1>7 DEF Tells

(* The other tables and all strings stay what they are when the block of   *)
(* one table, at q, does not.                                              *)
Unmoved(q, s, h, h1, T) ==
  /\ q # <<"vartable", 0, 0>> => Roomy(h1, VarsOf(T), VarBlock(T))
  /\ q # <<"dimtable", 0, 0>> => Roomy(h1, DimsOf(T), DimBlock(T))
  /\ \A i \in 1 .. Len(VarsOf(T)) : Reads(h1, VarsOf(T)[i].sval) = Reads(h, VarsOf(T)[i].sval)
  /\ \A j \in 1 .. Len(DimsOf(T)) : q # <<"arrays", j, 0>> => Sizable(h1, DimsOf(T)[j])
  /\ \A j \in 1 .. Len(DimsOf(T)) : \A i \in 1 .. Len(DimsOf(T)[j].str) :
       <<j, i>> \notin Unborn(s) => Reads(h1, DimsOf(T)[j].str[i]) = Reads(h, DimsOf(T)[j].str[i])

LEMMA Elsewhere ==
  ASSUME NEW X, NEW s, NEW h, NEW T, NEW R, Sound(X, s, h, T, R),
         NEW q \in Places, q[1] \notin {"variables", "elements"},
         NEW h1, Null \notin DOMAIN h1,
         \A b \in DOMAIN h \ X : b # Held(s, T, R)[q] => b \in DOMAIN h1 /\ h1[b] = h[b]
  PROVE  Unmoved(q, s, h, h1, T)
<1> DEFINE H == Held(s, T, R)
<1>1. /\ Blocked(X, h) /\ Tabled(h, T) /\ Own(DOMAIN h \ X, H) /\ Null \notin DOMAIN h
  BY NoNull DEF Sound
<1>2. ASSUME NEW r \in Places, r # q, H[r] # Null
      PROVE  H[r] \in DOMAIN h /\ H[r] \in DOMAIN h1 /\ h1[H[r]] = h[H[r]]
  <2>1. H[r] \in DOMAIN h \ X /\ H[r] # H[q]
    BY <1>1, <1>2 DEF Own
  <2> QED BY <2>1
<1>0. Tells(H, s, T)
  BY <1>1, HeldThere
<1> HIDE DEF H
<1>3. /\ <<"vartable", 0, 0>> \in Places /\ H[<<"vartable", 0, 0>>] = VarBlock(T)
      /\ <<"dimtable", 0, 0>> \in Places /\ H[<<"dimtable", 0, 0>>] = DimBlock(T)
      /\ \A i \in 1 .. Len(VarsOf(T)) :
           <<"variables", i, 0>> \in Places /\ H[<<"variables", i, 0>>] = VarsOf(T)[i].sval
      /\ \A j \in 1 .. Len(DimsOf(T)) :
           <<"arrays", j, 0>> \in Places /\ H[<<"arrays", j, 0>>] = DimsOf(T)[j].data
      /\ \A j \in 1 .. Len(DimsOf(T)) : \A i \in 1 .. Len(DimsOf(T)[j].str) :
           <<j, i>> \notin Unborn(s) =>
             <<"elements", j, i>> \in Places /\ H[<<"elements", j, i>>] = DimsOf(T)[j].str[i]
  BY <1>0 DEF Tells
<1>4. ASSUME q # <<"vartable", 0, 0>> PROVE Roomy(h1, VarsOf(T), VarBlock(T))
  <2>1. Roomy(h, VarsOf(T), VarBlock(T))
    BY <1>1 DEF Tabled
  <2> QED BY <1>1, <1>2, <1>3, <1>4, <2>1 DEF Roomy
<1>5. ASSUME q # <<"dimtable", 0, 0>> PROVE Roomy(h1, DimsOf(T), DimBlock(T))
  <2>1. Roomy(h, DimsOf(T), DimBlock(T))
    BY <1>1 DEF Tabled
  <2> QED BY <1>1, <1>2, <1>3, <1>5, <2>1 DEF Roomy
<1>6. ASSUME NEW r \in Places, r # q PROVE Reads(h1, H[r]) = Reads(h, H[r])
  BY <1>1, <1>2, <1>6 DEF Reads
<1>7. ASSUME NEW i \in 1 .. Len(VarsOf(T)) PROVE Reads(h1, VarsOf(T)[i].sval) = Reads(h, VarsOf(T)[i].sval)
  <2>1. <<"variables", i, 0>> # q
    BY DEF Places
  <2> QED BY <1>3, <1>6, <2>1, ZenonT(40)
<1>8. ASSUME NEW j \in 1 .. Len(DimsOf(T)), q # <<"arrays", j, 0>> PROVE Sizable(h1, DimsOf(T)[j])
  <2>1. Sizable(h, DimsOf(T)[j])
    BY <1>1 DEF Tabled
  <2>2. CASE DimsOf(T)[j].str = <<>>
    BY <2>2 DEF Sizable
  <2>3. CASE DimsOf(T)[j].str # <<>>
    <3>1. /\ DimsOf(T)[j].data \in DOMAIN h /\ h[DimsOf(T)[j].data] \in [room : Nat]
          /\ Len(DimsOf(T)[j].str) <= h[DimsOf(T)[j].data].room
      BY <2>1, <2>3 DEF Sizable
    <3>2. <<"arrays", j, 0>> \in Places /\ H[<<"arrays", j, 0>>] = DimsOf(T)[j].data
      BY <1>3
    <3>3. DimsOf(T)[j].data \in DOMAIN h1 /\ h1[DimsOf(T)[j].data] = h[DimsOf(T)[j].data]
      BY <1>1, <1>2, <1>8, <3>1, <3>2
    <3> QED BY <3>1, <3>3 DEF Sizable
  <2> QED BY <2>2, <2>3
<1>9. ASSUME NEW j \in 1 .. Len(DimsOf(T)), NEW i \in 1 .. Len(DimsOf(T)[j].str), <<j, i>> \notin Unborn(s)
      PROVE  Reads(h1, DimsOf(T)[j].str[i]) = Reads(h, DimsOf(T)[j].str[i])
  <2>1. <<"elements", j, i>> # q
    BY DEF Places
  <2>2. <<"elements", j, i>> \in Places /\ H[<<"elements", j, i>>] = DimsOf(T)[j].str[i]
    BY <1>3, <1>9
  <2>3. Reads(h1, H[<<"elements", j, i>>]) = Reads(h, H[<<"elements", j, i>>])
    BY <1>6, <2>1, <2>2
  <2> QED BY <2>2, <2>3
<1> QED BY <1>4, <1>5, <1>7, <1>8, <1>9 DEF Unmoved

(* The table of variables, with one more that has no string yet.           *)
VarAdded(T, T2, e, p) ==
  /\ e \in Scalar /\ e.sval = Null /\ IsAt(VarsOf(T), e.id, p)
  /\ \A i \in 1 .. Len(VarsOf(T)) : VarsOf(T)[i].id # e.id
  /\ VarsOf(T2) \in Seq(Scalar) /\ Spread(VarsOf(T), p, e, VarsOf(T2))
  /\ DimsOf(T2) = DimsOf(T) /\ DimBlock(T2) = DimBlock(T)

LEMMA VarInserts ==
  ASSUME NEW X, NEW s, NEW h, NEW T, NEW R, NEW g, Good(X, s, h, T, R, g), Calm(s),
         NEW q, q = <<"vartable", 0, 0>>, NEW h1, NEW H1, Added(X, h, Held(s, T, R), q, H1, h1),
         NEW e, NEW p, NEW T2, VarAdded(T, T2, e, p),
         VarBlock(T2) = H1[q], Roomy(h1, VarsOf(T2), VarBlock(T2))
  PROVE  Good(X, s, h1, T2, R, g)
<1> DEFINE v == VarsOf(T)
           w == VarsOf(T2)
           n == Len(v)
           H == Held(s, T, R)
           H2 == Held(s, T2, R)
<1>a. /\ Blocked(X, h1) /\ H1 \in [Places -> Ptr] /\ Own(DOMAIN h1 \ X, H1)
      /\ \A r \in Places : r # q => H1[r] = H[r]
      /\ \A b \in DOMAIN h \ X : b # H[q] => b \in DOMAIN h1 /\ h1[b] = h[b]
  BY DEF Added
<1>b. VarAdded(T, T2, e, p)
  OBVIOUS
<1> USE <1>a
<1> USE <1>b DEF VarAdded
<1>1. /\ Blocked(X, h) /\ Tabled(h, T) /\ Filed(R) /\ Stacked(s, T) /\ Sound(X, s, h, T, R)
      /\ Own(DOMAIN h \ X, H) /\ Shown(g, s, h, T) /\ s \in Seq(Frame)
  BY DEF Good, Sound, Stacked
<1>2. Unborn(s) = {} /\ Stacked(s, T2)
  BY <1>1, CalmIs
<1>3. q \in Places /\ q[1] \notin {"variables", "elements"} /\ Null \notin DOMAIN h1
  BY NoNull, PlaceOf DEF Kinds
<1>4. /\ Roomy(h1, DimsOf(T), DimBlock(T))
      /\ \A i \in 1 .. n : Reads(h1, v[i].sval) = Reads(h, v[i].sval)
      /\ \A j \in 1 .. Len(DimsOf(T)) : Sizable(h1, DimsOf(T)[j])
      /\ \A j \in 1 .. Len(DimsOf(T)) : \A i \in 1 .. Len(DimsOf(T)[j].str) :
           <<j, i>> \notin Unborn(s) => Reads(h1, DimsOf(T)[j].str[i]) = Reads(h, DimsOf(T)[j].str[i])
  <2>1. q # <<"dimtable", 0, 0>> /\ \A j : q # <<"arrays", j, 0>>
    OBVIOUS
  <2>2. Unmoved(q, s, h, h1, T)
    BY <1>1, <1>3, Elsewhere
  <2> QED BY <2>1, <2>2 DEF Unmoved
<1>5. v \in Seq(Scalar) /\ n \in Nat /\ p \in 1 .. n + 1 /\ Ordered(v)
  BY <1>1 DEF Tabled, IsAt
<1>6. Len(w) = n + 1 /\ \A i \in 1 .. n + 1 : w[i] = IF i < p THEN v[i] ELSE IF i = p THEN e ELSE v[i - 1]
  BY DEF Spread
<1>7. e.id \in Names /\ e.id \in Nat
  BY NamesAssumption DEF Scalar
<1>8. Ordered(w)
  BY <1>5, <1>7, SpreadOrdered
<1>9. Tabled(h1, T2)
  <2>1. VarBlock(T2) \in Ptr
    BY <1>3
  <2> QED BY <1>1, <1>4, <1>8, <2>1 DEF Tabled
<1> HIDE DEF v, w, n
<1>10. \A i \in 1 .. n + 1 : (i < p => i \in 1 .. n) /\ (i > p => i - 1 \in 1 .. n)
  BY <1>5
<1>11. Shown(g, s, h1, T2)
  <2>0. Reads(h1, Null) = Unset
    BY <1>3 DEF Reads
  <2>1. ASSUME NEW i \in 1 .. n + 1, w[i].id \in StringNames PROVE g[1][w[i].id] = Reads(h1, w[i].sval)
    <3>0. \A k \in 1 .. n : v[k].id \in StringNames => g[1][v[k].id] = Reads(h1, v[k].sval)
      BY <1>1, <1>4 DEF Shown, v, n
    <3>1. CASE i < p
      BY <1>6, <1>10, <2>1, <3>0, <3>1
    <3>2. CASE i = p
      <4>1. w[i] = e
        BY <1>5, <1>6, <3>2
      <4>2. \A k \in 1 .. Len(VarsOf(T)) : VarsOf(T)[k].id # e.id
        OBVIOUS
      <4>3. g[1][e.id] = Unset
        BY <1>1, <2>1, <4>1, <4>2 DEF Shown
      <4> QED BY <2>0, <4>1, <4>3
    <3>3. CASE i > p
      <4>1. w[i] = v[i - 1] /\ i - 1 \in 1 .. n
        BY <1>5, <1>6, <1>10, <3>3
      <4> QED BY <2>1, <3>0, <4>1
    <3>4. i < p \/ i = p \/ i > p
      BY <1>5
    <3> QED BY <3>1, <3>2, <3>3, <3>4
  <2>2. ASSUME NEW a \in StringNames, \A i \in 1 .. n + 1 : w[i].id # a PROVE g[1][a] = Unset
    <3>1. ASSUME NEW i \in 1 .. n PROVE v[i].id # a
      <4>1. CASE i < p
        <5>1. i \in 1 .. n + 1 /\ w[i] = v[i]
          BY <1>5, <1>6, <4>1
        <5> QED BY <2>2, <5>1
      <4>2. CASE i >= p
        <5>0. n \in Nat /\ i \in 1 .. n /\ p \in Nat /\ i >= p
          BY <1>5, <4>2
        <5>1. i + 1 \in 1 .. n + 1 /\ ~(i + 1 < p) /\ i + 1 # p /\ (i + 1) - 1 = i
          BY ONLY <5>0
        <5>2. w[i + 1] = v[(i + 1) - 1]
          BY <1>6, <5>1
        <5> QED BY <2>2, <5>1, <5>2
      <4> QED BY <1>5, <4>1, <4>2
    <3>2. \A i \in 1 .. Len(VarsOf(T)) : VarsOf(T)[i].id # a
      BY <3>1 DEF v, n
    <3> QED BY <1>1, <3>2 DEF Shown
  <2>3. \A j \in 1 .. Len(DimsOf(T2)) : DimsOf(T2)[j].id \in StringArrays =>
          /\ DOMAIN g[2][DimsOf(T2)[j].id] = 1 .. Len(DimsOf(T2)[j].str)
          /\ \A i \in 1 .. Len(DimsOf(T2)[j].str) : <<j, i>> \notin Unborn(s) =>
                g[2][DimsOf(T2)[j].id][i] = Reads(h1, DimsOf(T2)[j].str[i])
    BY <1>1, <1>4 DEF Shown
  <2>4. \A a \in StringArrays :
          (\A j \in 1 .. Len(DimsOf(T2)) : DimsOf(T2)[j].id # a) => g[2][a] = <<>>
    BY <1>1 DEF Shown
  <2>5. \A i \in 1 .. Len(VarsOf(T2)) :
          VarsOf(T2)[i].id \in StringNames => g[1][VarsOf(T2)[i].id] = Reads(h1, VarsOf(T2)[i].sval)
    BY <1>6, <2>1 DEF w
  <2>6. \A a \in StringNames :
          (\A i \in 1 .. Len(VarsOf(T2)) : VarsOf(T2)[i].id # a) => g[1][a] = Unset
    BY <1>6, <2>2 DEF w
  <2> QED BY <2>3, <2>4, <2>5, <2>6 DEF Shown
<1>12. H2 \in [Places -> Ptr]
  BY <1>1, <1>9, HeldType
<1>13. ASSUME NEW k \in Kinds, NEW i \in Nat, NEW j \in Nat
       PROVE  H2[<<k, i, j>>] = IF k \notin {"variables"} \/ i < p THEN H1[<<k, i, j>>]
                                ELSE IF i = p THEN Null ELSE H1[<<k, i - 1, j>>]
  <2>1. <<k, i, j>> \in Places
    BY PlaceOf
  <2>2. H2[<<k, i, j>>] = Holding(s, T2, R, <<k, i, j>>) /\ H[<<k, i, j>>] = Holding(s, T, R, <<k, i, j>>)
    BY <2>1, HeldAt
  <2> HIDE DEF H, H2
  <2>3. CASE k = "vartable"
    <3>1. CASE i = 0 /\ j = 0
      BY <2>2, <2>3, <3>1 DEF Holding
    <3>2. CASE ~(i = 0 /\ j = 0)
      <4>1. <<k, i, j>> # q
        BY <3>2
      <4> QED BY <2>1, <2>2, <2>3, <3>2, <4>1 DEF Holding, H
    <3> QED BY <3>1, <3>2
  <2>4. CASE k \notin {"vartable", "variables"}
    <3>1. <<k, i, j>> # q
      BY <2>4
    <3>2. H1[<<k, i, j>>] = H[<<k, i, j>>]
      BY <2>1, <3>1 DEF H
    <3> QED BY <2>2, <2>4, <3>2 DEF Holding
  <2>5. CASE k = "variables"
    <3>1. \A m \in Nat : H1[<<"variables", m, j>>] = Holding(s, T, R, <<"variables", m, j>>)
      <4> SUFFICES ASSUME NEW m \in Nat PROVE H1[<<"variables", m, j>>] = Holding(s, T, R, <<"variables", m, j>>)
        OBVIOUS
      <4>1. <<"variables", m, j>> \in Places /\ <<"variables", m, j>> # q
        BY PlaceOf DEF Kinds
      <4> QED BY <4>1, HeldAt DEF H
    <3>2. \A m \in Nat : Holding(s, T, R, <<"variables", m, j>>) = IF m \in 1 .. n /\ j = 0 THEN v[m].sval ELSE Null
      BY DEF Holding, v, n
    <3>3. Holding(s, T2, R, <<"variables", i, j>>) = IF i \in 1 .. n + 1 /\ j = 0 THEN w[i].sval ELSE Null
      BY <1>6 DEF Holding, w
    <3>4. CASE i < p
      <4>1. i \in 1 .. n + 1 => i \in 1 .. n /\ w[i] = v[i]
        BY <1>5, <1>6, <3>4
      <4>2. i \in 1 .. n => i \in 1 .. n + 1
        BY <1>5
      <4> QED BY <2>2, <2>5, <3>1, <3>2, <3>3, <3>4, <4>1, <4>2
    <3>5. CASE i = p
      <4>1. i \in 1 .. n + 1 => w[i] = e
        BY <1>5, <1>6, <3>5
      <4> QED BY <1>5, <2>2, <2>5, <3>3, <3>5, <4>1
    <3>6. CASE i > p
      <4>1. i - 1 \in Nat /\ ~(i < p) /\ i # p
        BY <1>5, <3>6
      <4>2. i \in 1 .. n + 1 <=> i - 1 \in 1 .. n
        BY <1>5, <3>6
      <4>3. i \in 1 .. n + 1 => w[i] = v[i - 1]
        BY <1>6, <4>1
      <4> QED BY <2>2, <2>5, <3>1, <3>2, <3>3, <4>1, <4>2, <4>3
    <3>7. i < p \/ i = p \/ i > p
      BY <1>5
    <3> QED BY <3>4, <3>5, <3>6, <3>7
  <2> QED BY <2>3, <2>4, <2>5
<1>14. Own(DOMAIN h1 \ X, H2)
  <2>1. p \in Nat /\ p > 0 /\ {"variables"} \in SUBSET Kinds /\ Null \notin DOMAIN h1 \ X
    BY <1>3, <1>5 DEF Kinds
  <2> HIDE DEF H2
  <2> DEFINE D == DOMAIN h1 \ X
             K == {"variables"}
  <2>2. Own(D, H1) /\ K \in SUBSET Kinds /\ Null \notin D
    BY <2>1
  <2>3. Shifts(H1, H2, K, p)
    BY <1>13 DEF Shifts
  <2> HIDE DEF D, K
  <2>4. Own(D, H2)
    BY <1>12, <2>1, <2>2, <2>3, OwnShift
  <2> QED BY <2>4 DEF D
<1> QED BY <1>1, <1>2, <1>9, <1>11, <1>14 DEF Good, Sound

(* The table of arrays, with one more that has no elements yet.            *)
DimAdded(T, T2, e, p) ==
  /\ e \in Matrix /\ e.data = Null /\ e.str = <<>> /\ IsAt(DimsOf(T), e.id, p)
  /\ \A i \in 1 .. Len(DimsOf(T)) : DimsOf(T)[i].id # e.id
  /\ DimsOf(T2) \in Seq(Matrix) /\ Spread(DimsOf(T), p, e, DimsOf(T2))
  /\ VarsOf(T2) = VarsOf(T) /\ VarBlock(T2) = VarBlock(T)

LEMMA DimInserts ==
  ASSUME NEW X, NEW s, NEW h, NEW T, NEW R, NEW g, Good(X, s, h, T, R, g), Calm(s),
         NEW q, q = <<"dimtable", 0, 0>>, NEW h1, NEW H1, Added(X, h, Held(s, T, R), q, H1, h1),
         NEW e, NEW p, NEW T2, DimAdded(T, T2, e, p),
         DimBlock(T2) = H1[q], Roomy(h1, DimsOf(T2), DimBlock(T2))
  PROVE  Good(X, s, h1, T2, R, g)
<1> DEFINE v == DimsOf(T)
           w == DimsOf(T2)
           n == Len(v)
           H == Held(s, T, R)
           H2 == Held(s, T2, R)
<1>a. /\ Blocked(X, h1) /\ H1 \in [Places -> Ptr] /\ Own(DOMAIN h1 \ X, H1)
      /\ \A r \in Places : r # q => H1[r] = H[r]
      /\ \A b \in DOMAIN h \ X : b # H[q] => b \in DOMAIN h1 /\ h1[b] = h[b]
  BY DEF Added
<1>b. DimAdded(T, T2, e, p)
  OBVIOUS
<1> USE <1>a
<1> USE <1>b DEF DimAdded
<1>1. /\ Blocked(X, h) /\ Tabled(h, T) /\ Filed(R) /\ Stacked(s, T) /\ Sound(X, s, h, T, R)
      /\ Own(DOMAIN h \ X, H) /\ Shown(g, s, h, T) /\ s \in Seq(Frame)
  BY DEF Good, Sound, Stacked
<1>2. Unborn(s) = {} /\ Stacked(s, T2)
  BY <1>1, CalmIs
<1>3. q \in Places /\ q[1] \notin {"variables", "elements"} /\ Null \notin DOMAIN h1
  BY NoNull, PlaceOf DEF Kinds
<1>4. /\ Roomy(h1, VarsOf(T), VarBlock(T))
      /\ \A i \in 1 .. Len(VarsOf(T)) : Reads(h1, VarsOf(T)[i].sval) = Reads(h, VarsOf(T)[i].sval)
      /\ \A j \in 1 .. n : Sizable(h1, v[j])
      /\ \A j \in 1 .. n : \A i \in 1 .. Len(v[j].str) : Reads(h1, v[j].str[i]) = Reads(h, v[j].str[i])
  <2>1. q # <<"vartable", 0, 0>> /\ \A j : q # <<"arrays", j, 0>>
    OBVIOUS
  <2>2. Unmoved(q, s, h, h1, T)
    BY <1>1, <1>3, Elsewhere
  <2> QED BY <1>2, <2>1, <2>2 DEF Unmoved
<1>5. v \in Seq(Matrix) /\ n \in Nat /\ p \in 1 .. n + 1 /\ Ordered(v)
      /\ \A j \in 1 .. n : v[j].id \notin StringArrays => v[j].str = <<>>
  BY <1>1 DEF Tabled, IsAt
<1>6. Len(w) = n + 1 /\ \A i \in 1 .. n + 1 : w[i] = IF i < p THEN v[i] ELSE IF i = p THEN e ELSE v[i - 1]
  BY DEF Spread
<1>7. e.id \in Arrays /\ e.id \in Nat
  BY NamesAssumption DEF Matrix
<1>8. Ordered(w)
  BY <1>5, <1>7, SpreadOrdered
<1> HIDE DEF v, w, n
<1>10. \A i \in 1 .. n + 1 : (i < p => i \in 1 .. n) /\ (i > p => i - 1 \in 1 .. n) /\ (i < p \/ i = p \/ i > p)
  BY <1>5
<1>s. ASSUME NEW j \in 1 .. n + 1 PROVE w[j] = e \/ \E i \in 1 .. n : w[j] = v[i]
  BY <1>6, <1>10
<1>9. Tabled(h1, T2)
  <2>1. DimBlock(T2) \in Ptr
    BY <1>3
  <2>2. ASSUME NEW j \in 1 .. n + 1 PROVE Sizable(h1, w[j]) /\ (w[j].id \notin StringArrays => w[j].str = <<>>)
    <3>1. CASE w[j] = e
      BY <3>1 DEF Sizable
    <3> QED BY <1>4, <1>5, <1>s, <3>1
  <2>3. \A j \in 1 .. Len(DimsOf(T2)) :
          Sizable(h1, DimsOf(T2)[j]) /\ (DimsOf(T2)[j].id \notin StringArrays => DimsOf(T2)[j].str = <<>>)
    BY <1>6, <2>2 DEF w
  <2>4. Ordered(DimsOf(T2))
    BY <1>8 DEF w
  <2> QED BY <1>1, <1>4, <2>1, <2>3, <2>4 DEF Tabled
<1>11. Shown(g, s, h1, T2)
  <2>1. ASSUME NEW j \in 1 .. n + 1, w[j].id \in StringArrays
        PROVE  /\ DOMAIN g[2][w[j].id] = 1 .. Len(w[j].str)
               /\ \A i \in 1 .. Len(w[j].str) : g[2][w[j].id][i] = Reads(h1, w[j].str[i])
    <3>1. CASE w[j] = e
      <4>1. \A k \in 1 .. Len(DimsOf(T)) : DimsOf(T)[k].id # e.id
        OBVIOUS
      <4>2. g[2][e.id] = <<>>
        BY <1>1, <2>1, <3>1, <4>1 DEF Shown
      <4>3. Len(e.str) = 0 /\ 1 .. 0 = {} /\ DOMAIN g[2][e.id] = {}
        BY <4>2
      <4> QED BY <3>1, <4>3
    <3>2. ASSUME NEW i \in 1 .. n, w[j] = v[i]
          PROVE  /\ DOMAIN g[2][w[j].id] = 1 .. Len(w[j].str)
                 /\ \A k \in 1 .. Len(w[j].str) : g[2][w[j].id][k] = Reads(h1, w[j].str[k])
      <4>1. /\ DOMAIN g[2][v[i].id] = 1 .. Len(v[i].str)
            /\ \A k \in 1 .. Len(v[i].str) : g[2][v[i].id][k] = Reads(h, v[i].str[k])
        BY <1>1, <1>2, <2>1, <3>2 DEF Shown, v, n
      <4> QED BY <1>4, <3>2, <4>1
    <3> QED BY <1>s, <3>1, <3>2
  <2>2. ASSUME NEW a \in StringArrays, \A i \in 1 .. n + 1 : w[i].id # a PROVE g[2][a] = <<>>
    <3>1. ASSUME NEW i \in 1 .. n PROVE v[i].id # a
      <4>1. CASE i < p
        <5>1. i \in 1 .. n + 1 /\ w[i] = v[i]
          BY <1>5, <1>6, <4>1
        <5> QED BY <2>2, <5>1
      <4>2. CASE i >= p
        <5>0. n \in Nat /\ i \in 1 .. n /\ p \in Nat /\ i >= p
          BY <1>5, <4>2
        <5>1. i + 1 \in 1 .. n + 1 /\ ~(i + 1 < p) /\ i + 1 # p /\ (i + 1) - 1 = i
          BY ONLY <5>0
        <5>2. w[i + 1] = v[(i + 1) - 1]
          BY <1>6, <5>1
        <5> QED BY <2>2, <5>1, <5>2
      <4> QED BY <1>5, <4>1, <4>2
    <3>2. \A i \in 1 .. Len(DimsOf(T)) : DimsOf(T)[i].id # a
      BY <3>1 DEF v, n
    <3> QED BY <1>1, <3>2 DEF Shown
  <2>3. \A i \in 1 .. Len(VarsOf(T2)) :
          VarsOf(T2)[i].id \in StringNames => g[1][VarsOf(T2)[i].id] = Reads(h1, VarsOf(T2)[i].sval)
    BY <1>1, <1>4 DEF Shown
  <2>4. \A a \in StringNames :
          (\A i \in 1 .. Len(VarsOf(T2)) : VarsOf(T2)[i].id # a) => g[1][a] = Unset
    BY <1>1 DEF Shown
  <2>5. \A j \in 1 .. Len(DimsOf(T2)) : DimsOf(T2)[j].id \in StringArrays =>
          /\ DOMAIN g[2][DimsOf(T2)[j].id] = 1 .. Len(DimsOf(T2)[j].str)
          /\ \A i \in 1 .. Len(DimsOf(T2)[j].str) : <<j, i>> \notin Unborn(s) =>
                g[2][DimsOf(T2)[j].id][i] = Reads(h1, DimsOf(T2)[j].str[i])
    BY <1>6, <2>1 DEF w
  <2>6. \A a \in StringArrays :
          (\A j \in 1 .. Len(DimsOf(T2)) : DimsOf(T2)[j].id # a) => g[2][a] = <<>>
    BY <1>6, <2>2 DEF w
  <2> QED BY <2>3, <2>4, <2>5, <2>6 DEF Shown
<1>12. H2 \in [Places -> Ptr]
  BY <1>1, <1>9, HeldType
<1>13. ASSUME NEW k \in Kinds, NEW i \in Nat, NEW j \in Nat
       PROVE  H2[<<k, i, j>>] = IF k \notin {"arrays", "elements"} \/ i < p THEN H1[<<k, i, j>>]
                                ELSE IF i = p THEN Null ELSE H1[<<k, i - 1, j>>]
  <2>1. <<k, i, j>> \in Places
    BY PlaceOf
  <2>2. H2[<<k, i, j>>] = Holding(s, T2, R, <<k, i, j>>) /\ H[<<k, i, j>>] = Holding(s, T, R, <<k, i, j>>)
    BY <2>1, HeldAt
  <2> HIDE DEF H, H2
  <2>3. CASE k = "dimtable"
    <3>1. CASE i = 0 /\ j = 0
      BY <2>2, <2>3, <3>1 DEF Holding
    <3>2. CASE ~(i = 0 /\ j = 0)
      <4>1. <<k, i, j>> # q
        BY <3>2
      <4> QED BY <2>1, <2>2, <2>3, <3>2, <4>1 DEF Holding, H
    <3> QED BY <3>1, <3>2
  <2>4. CASE k \notin {"dimtable", "arrays", "elements"}
    <3>1. <<k, i, j>> # q
      BY <2>4
    <3>2. H1[<<k, i, j>>] = H[<<k, i, j>>]
      BY <2>1, <3>1 DEF H
    <3> QED BY <2>2, <2>4, <3>2 DEF Holding
  <2>5. CASE k \in {"arrays", "elements"}
    <3> DEFINE At(u, m, i1) == IF k = "arrays" THEN IF i1 \in 1 .. m /\ j = 0 THEN u[i1].data ELSE Null
                              ELSE IF i1 \in 1 .. m /\ j \in 1 .. Len(u[i1].str) THEN u[i1].str[j] ELSE Null
    <3>1. \A m \in Nat : H1[<<k, m, j>>] = Holding(s, T, R, <<k, m, j>>)
      <4> SUFFICES ASSUME NEW m \in Nat PROVE H1[<<k, m, j>>] = Holding(s, T, R, <<k, m, j>>)
        OBVIOUS
      <4>1. <<k, m, j>> \in Places /\ <<k, m, j>> # q
        BY <2>5, PlaceOf DEF Kinds
      <4> QED BY <4>1, HeldAt DEF H
    <3>2. \A m \in Nat : Holding(s, T, R, <<k, m, j>>) = At(v, n, m)
      BY <1>2, <2>5 DEF Holding, v, n
    <3>3. Holding(s, T2, R, <<k, i, j>>) = At(w, n + 1, i)
      BY <1>2, <1>6, <2>5 DEF Holding, w
    <3>4. CASE i < p
      <4>1. i \in 1 .. n + 1 => i \in 1 .. n /\ w[i] = v[i]
        BY <1>5, <1>6, <3>4
      <4>2. i \in 1 .. n => i \in 1 .. n + 1
        BY <1>5
      <4>3. At(w, n + 1, i) = At(v, n, i)
        BY <4>1, <4>2
      <4> QED BY <2>2, <2>5, <3>1, <3>2, <3>3, <3>4, <4>3
    <3>5. CASE i = p
      <4>1. i \in 1 .. n + 1 => w[i] = e
        BY <1>5, <1>6, <3>5
      <4>2. At(w, n + 1, i) = Null
        BY <4>1
      <4>3. ~(i < p)
        BY <1>5, <3>5
      <4> QED BY <2>2, <2>5, <3>3, <3>5, <4>2, <4>3
    <3>6. CASE i > p
      <4>1. i - 1 \in Nat /\ ~(i < p) /\ i # p
        BY <1>5, <3>6
      <4>2. i \in 1 .. n + 1 <=> i - 1 \in 1 .. n
        BY <1>5, <3>6
      <4>3. i \in 1 .. n + 1 => w[i] = v[i - 1]
        BY <1>6, <4>1
      <4>4. At(w, n + 1, i) = At(v, n, i - 1)
        BY <4>2, <4>3
      <4> QED BY <2>2, <2>5, <3>1, <3>2, <3>3, <4>1, <4>4
    <3>7. i < p \/ i = p \/ i > p
      BY <1>5
    <3> QED BY <3>4, <3>5, <3>6, <3>7
  <2> QED BY <2>3, <2>4, <2>5
<1>14. Own(DOMAIN h1 \ X, H2)
  <2> HIDE DEF H2
  <2> DEFINE D == DOMAIN h1 \ X
             K == {"arrays", "elements"}
  <2>1. p \in Nat /\ p > 0
    BY <1>5
  <2>2. Own(D, H1) /\ K \in SUBSET Kinds /\ Null \notin D
    BY <1>3 DEF Kinds
  <2>3. Shifts(H1, H2, K, p)
    BY <1>13 DEF Shifts
  <2> HIDE DEF D, K
  <2>4. Own(D, H2)
    BY <1>12, <2>1, <2>2, <2>3, OwnShift
  <2> QED BY <2>4 DEF D
<1> QED BY <1>1, <1>2, <1>9, <1>11, <1>14 DEF Good, Sound

LEMMA AddIs ==
  ASSUME NEW h, NEW s, NEW t, NEW e, NEW x \in addnewvar(h, s, t, e),
         NEW new, new = InsertAt(s, findvariable(s, e.id).at, e)
  PROVE  \/ x = [ok |-> FALSE, s |-> s, t |-> t, h |-> h]
         \/ nextlargest(Len(s)) = nextlargest(Len(new)) /\ x = [ok |-> TRUE, s |-> new, t |-> t, h |-> h]
         \/ \E m \in realloc(h, t, Table(nextlargest(Len(new)))) :
              m.p # Null /\ x = [ok |-> TRUE, s |-> new, t |-> m.p, h |-> m.h]
<1> DEFINE N1 == nextlargest(Len(s))
           N2 == nextlargest(Len(new))
<1>0. \A m \in realloc(h, t, Table(N2)) : m.p = Null => m.h = h
  BY ReallocNew
<1>1. CASE N1 = N2
  <2>1. x = [ok |-> TRUE, s |-> new, t |-> t, h |-> h]
    BY <1>1 DEF addnewvar
  <2> QED BY <1>1, <2>1
<1>2. CASE N1 # N2
  <2>1. PICK m \in realloc(h, t, Table(N2)) :
          x = IF m.p = Null THEN [ok |-> FALSE, s |-> s, t |-> t, h |-> m.h]
              ELSE [ok |-> TRUE, s |-> new, t |-> m.p, h |-> m.h]
    BY <1>2 DEF addnewvar
  <2> QED BY <1>0, <2>1
<1> QED BY <1>1, <1>2

Adds(X, h, H, q, S, s, e, t, x) ==
  \/ x = [ok |-> FALSE, s |-> s, t |-> t, h |-> h]
  \/ /\ x = [ok |-> TRUE, s |-> x.s, t |-> x.t, h |-> x.h]
     /\ x.s \in Seq(S) /\ Spread(s, findvariable(s, e.id).at, e, x.s) /\ Roomy(x.h, x.s, x.t)
     /\ \E H1 : Added(X, h, H, q, H1, x.h) /\ H1[q] = x.t

LEMMA AddKeeps ==
  ASSUME NEW X, NEW h, Blocked(X, h), NEW H, Own(DOMAIN h \ X, H), NEW q \in Places,
         NEW S, NEW s \in Seq(S), NEW e \in S, e.id \in Nat, Ordered(s),
         Roomy(h, s, H[q]), NEW t, t = H[q], NEW x \in addnewvar(h, s, t, e)
  PROVE  Adds(X, h, H, q, S, s, e, t, x)
<1> DEFINE p == findvariable(s, e.id).at
           new == InsertAt(s, p, e)
           N == nextlargest(Len(new))
<1>1. IsAt(s, e.id, p)
  BY FindsIs
<1>2. p \in 1 .. Len(s) + 1 /\ Len(s) \in Nat
  BY <1>1 DEF IsAt
<1>3. new \in Seq(S) /\ Len(new) = Len(s) + 1 /\ Spread(s, p, e, new)
  <2> HIDE DEF p
  <2>1. /\ new \in Seq(S) /\ Len(new) = Len(s) + 1
        /\ \A i \in 1 .. Len(s) + 1 : new[i] = IF i < p THEN s[i] ELSE IF i = p THEN e ELSE s[i - 1]
    BY <1>2, InsertIs
  <2> QED BY <2>1 DEF Spread
<1>4. /\ nextlargest(Len(s)) \in Nat /\ N \in Nat /\ Len(new) <= N /\ Len(new) \in Nat
  <2> HIDE DEF new
  <2> QED BY <1>2, <1>3, Room1
<1>5. \/ x = [ok |-> FALSE, s |-> s, t |-> t, h |-> h]
      \/ nextlargest(Len(s)) = N /\ x = [ok |-> TRUE, s |-> new, t |-> t, h |-> h]
      \/ \E m \in realloc(h, t, Table(N)) :
           m.p # Null /\ x = [ok |-> TRUE, s |-> new, t |-> m.p, h |-> m.h]
  BY AddIs
<1> HIDE DEF new, p, N
<1>6. CASE nextlargest(Len(s)) = N /\ x = [ok |-> TRUE, s |-> new, t |-> t, h |-> h]
  <2>1. x.s = new /\ x.t = t /\ x.h = h
    BY <1>6
  <2>2. s # <<>>
    <3> SUFFICES ASSUME s = <<>> PROVE FALSE
      OBVIOUS
    <3>1. Len(s) = 0 /\ Len(new) = 1
      BY <1>3
    <3> QED BY <1>4, <1>6, <3>1, Room0
  <2>3. Roomy(h, new, t)
    BY <1>6, <2>2 DEF Roomy, N
  <2>4. Added(X, h, H, q, H, h) /\ H[q] = x.t
    BY <2>1 DEF Added, Own
  <2> QED BY <1>3, <1>6, <2>1, <2>3, <2>4 DEF p, Adds
<1>7. ASSUME NEW m \in realloc(h, t, Table(N)), m.p # Null, x = [ok |-> TRUE, s |-> new, t |-> m.p, h |-> m.h]
      PROVE  /\ x = [ok |-> TRUE, s |-> x.s, t |-> x.t, h |-> x.h]
             /\ x.s \in Seq(S) /\ Spread(s, p, e, x.s) /\ Roomy(x.h, x.s, x.t)
             /\ \E H1 : Added(X, h, H, q, H1, x.h) /\ H1[q] = x.t
  <2>1. x.s = new /\ x.t = m.p /\ x.h = m.h
    BY <1>7
  <2> DEFINE H1 == Moved(H, q, m.p)
  <2>2. /\ Added(X, h, H, q, H1, m.h) /\ H1[q] = m.p
        /\ m.p \in DOMAIN m.h \ X /\ m.h[m.p] = Table(N) /\ m.p \in Ptr
    BY <1>4, <1>7, TableMoves
  <2> HIDE DEF H1
  <2>4. Roomy(m.h, new, m.p)
    <3>1. nextlargest(Len(new)) <= N
      BY <1>4 DEF N
    <3>2. m.h[m.p] \in [room : Nat] /\ m.h[m.p].room = N
      BY <1>4, <2>2 DEF Table
    <3> QED BY <2>2, <3>1, <3>2 DEF Roomy
  <2> QED BY <1>3, <1>7, <2>1, <2>2, <2>4
<1> QED BY <1>5, <1>6, <1>7 DEF p, Adds

(* lvalue finds or adds a scalar.                                          *)
Got(x) == x = [ok |-> TRUE, s |-> x.s, t |-> x.t, h |-> x.h]
Failed(x) == x = [ok |-> FALSE, s |-> x.s, t |-> x.t, h |-> x.h]

LEMMA GotIs ==
  ASSUME NEW x
  PROVE  (Got(x) => x.ok) /\ (Failed(x) => ~x.ok)
<1>1. ASSUME Got(x) PROVE x.ok
  <2>1. x.ok = TRUE
    BY <1>1 DEF Got
  <2> QED BY <2>1
<1>2. ASSUME Failed(x) PROVE ~x.ok
  <2>1. x.ok = FALSE
    BY <1>2 DEF Failed
  <2> QED BY <2>1
<1> QED BY <1>1, <1>2

LEMMA ScalarKeeps ==
  ASSUME NEW X, NEW s, NEW h, NEW R, NEW g, Good(X, s, h, tables, R, g), Calm(s),
         NEW n \in Names, NEW x \in scalar(h, n),
         NEW T2, T2 = <<x.s, x.t, dimvariables, dimtable>>
  PROVE  /\ Good(X, s, x.h, T2, R, g) /\ VarsOf(T2) = x.s /\ VarBlock(T2) = x.t
         /\ Got(x) \/ Failed(x)
         /\ Got(x) => /\ findvariable(x.s, n).at \in 1 .. Len(x.s)
                      /\ x.s[findvariable(x.s, n).at].id = n
<1> DEFINE T == tables
           q == <<"vartable", 0, 0>>
           v == findvariable(variables, n)
           e == [id |-> n, sval |-> Null]
           H == Held(s, T, R)
<1>1. /\ VarsOf(T) = variables /\ VarBlock(T) = vartable /\ DimsOf(T) = dimvariables /\ DimBlock(T) = dimtable
      /\ VarsOf(T2) = x.s /\ VarBlock(T2) = x.t /\ DimsOf(T2) = dimvariables /\ DimBlock(T2) = dimtable
  BY DEF tables, VarsOf, VarBlock, DimsOf, DimBlock
<1>2. /\ Blocked(X, h) /\ Tabled(h, T) /\ Own(DOMAIN h \ X, H)
      /\ variables \in Seq(Scalar) /\ Ordered(variables) /\ Roomy(h, variables, vartable)
  BY <1>1 DEF Good, Sound, Tabled
<1>3. n \in Nat /\ e \in Scalar /\ e.sval = Null /\ e.id = n
  BY NamesAssumption DEF Scalar, Ptr
<1>4. /\ IsAt(variables, n, v.at)
      /\ v.found => v.at \in 1 .. Len(variables) /\ variables[v.at].id = n
      /\ ~v.found => \A i \in 1 .. Len(variables) : variables[i].id # n
  BY <1>2, <1>3, FindsIs
<1>5. CASE v.found
  <2>1. x = [ok |-> TRUE, s |-> variables, t |-> vartable, h |-> h]
    BY <1>5 DEF scalar
  <2>2. x.s = variables /\ x.t = vartable /\ x.h = h
    BY <2>1
  <2>3. T2 = T
    BY <2>2 DEF tables
  <2>4. Got(x)
    BY <2>1, <2>2 DEF Got
  <2> QED BY <1>1, <1>4, <1>5, <2>2, <2>3, <2>4
<1>6. CASE ~v.found
  <2>0. x \in addnewvar(h, variables, vartable, e)
    BY <1>6 DEF scalar
  <2>1. q \in Places /\ vartable = H[q]
    <3>1. Tells(H, s, T)
      BY <1>2, HeldThere
    <3> QED BY <1>1, <3>1 DEF Tells
  <2> HIDE DEF H, e, q
  <2>2. \/ x = [ok |-> FALSE, s |-> variables, t |-> vartable, h |-> h]
        \/ /\ x = [ok |-> TRUE, s |-> x.s, t |-> x.t, h |-> x.h]
           /\ x.s \in Seq(Scalar) /\ Spread(variables, findvariable(variables, e.id).at, e, x.s) /\ Roomy(x.h, x.s, x.t)
           /\ \E H1 : Added(X, h, H, q, H1, x.h) /\ H1[q] = x.t
    <3>1. e.id \in Nat /\ Roomy(h, variables, H[q])
      BY <1>2, <1>3, <2>1
    <3>2. Adds(X, h, H, q, Scalar, variables, e, vartable, x)
      BY <1>2, <1>3, <2>0, <2>1, <3>1, AddKeeps
    <3> QED BY <3>2 DEF Adds
  <2>3. CASE x = [ok |-> FALSE, s |-> variables, t |-> vartable, h |-> h]
    <3>1. x.s = variables /\ x.t = vartable /\ x.h = h
      BY <2>3
    <3>2. T2 = T
      BY <3>1 DEF tables
    <3>3. Failed(x) /\ ~Got(x)
      <4>1. Failed(x)
        BY <2>3, <3>1 DEF Failed
      <4> QED BY <4>1, GotIs
    <3> QED BY <1>1, <3>1, <3>2, <3>3
  <2>4. CASE /\ Got(x)
             /\ x.s \in Seq(Scalar) /\ Spread(variables, v.at, e, x.s) /\ Roomy(x.h, x.s, x.t)
             /\ \E H1 : Added(X, h, H, q, H1, x.h) /\ H1[q] = x.t
    <3>1. PICK H1 : Added(X, h, H, q, H1, x.h) /\ H1[q] = x.t
      BY <2>4
    <3>2. Added(X, h, Held(s, T, R), q, H1, x.h)
      BY <3>1 DEF H
    <3>3. \A i \in 1 .. Len(VarsOf(T)) : VarsOf(T)[i].id # e.id
      BY <1>1, <1>3, <1>4, <1>6
    <3>4. VarAdded(T, T2, e, v.at) /\ VarBlock(T2) = H1[q] /\ Roomy(x.h, VarsOf(T2), VarBlock(T2))
      BY <1>1, <1>3, <1>4, <2>4, <3>1, <3>3 DEF VarAdded
    <3>5. q = <<"vartable", 0, 0>>
      BY DEF q
    <3>6. Good(X, s, x.h, T2, R, g)
      <4> HIDE DEF T, v
      <4>1. Good(X, s, h, T, R, g)
        BY DEF T
      <4> QED BY <3>2, <3>4, <3>5, <4>1, VarInserts
    <3>7. /\ findvariable(x.s, n).at \in 1 .. Len(x.s) /\ x.s[findvariable(x.s, n).at].id = n
      <4>1. Ordered(x.s)
        BY <1>1, <3>6 DEF Good, Sound, Tabled
      <4>2. v.at \in 1 .. Len(x.s) /\ x.s[v.at] = e
        <5>1. v.at \in 1 .. Len(variables) + 1 /\ Len(variables) \in Nat
          BY <1>2, <1>4 DEF IsAt
        <5> QED BY <2>4, <5>1 DEF Spread
      <4>3. x.s[v.at].id = n
        BY <1>3, <4>2
      <4> HIDE DEF v
      <4>4. findvariable(x.s, n).at = v.at
        BY <1>3, <4>1, <4>2, <4>3, FindsIs
      <4> QED BY <4>2, <4>3, <4>4
    <3> QED BY <1>1, <2>4, <3>6, <3>7
  <2> QED BY <1>3, <2>2, <2>3, <2>4 DEF Got
<1> QED BY <1>5, <1>6

(* DIM finds or adds an array.                                             *)
LEMMA DimensionKeeps ==
  ASSUME NEW X, NEW s, NEW R, NEW g, Good(X, s, heap, tables, R, g), Calm(s), NEW size,
         NEW n \in Arrays, NEW x \in dimension(n, size),
         NEW T2, T2 = <<variables, vartable, x.s, x.t>>
  PROVE  /\ Good(X, s, x.h, T2, R, g) /\ DimsOf(T2) = x.s /\ DimBlock(T2) = x.t
         /\ Got(x) \/ Failed(x)
         /\ Got(x) => /\ findvariable(x.s, n).at \in 1 .. Len(x.s)
                      /\ x.s[findvariable(x.s, n).at].id = n
<1> DEFINE T == tables
           q == <<"dimtable", 0, 0>>
           h == heap
           v == finddimvar(n)
           e == [id |-> n, data |-> Null, str |-> <<>>]
           H == Held(s, T, R)
<1>1. /\ VarsOf(T) = variables /\ VarBlock(T) = vartable /\ DimsOf(T) = dimvariables /\ DimBlock(T) = dimtable
      /\ VarsOf(T2) = variables /\ VarBlock(T2) = vartable /\ DimsOf(T2) = x.s /\ DimBlock(T2) = x.t
  BY DEF tables, VarsOf, VarBlock, DimsOf, DimBlock
<1>2. /\ Blocked(X, h) /\ Tabled(h, T) /\ Own(DOMAIN h \ X, H)
      /\ dimvariables \in Seq(Matrix) /\ Ordered(dimvariables) /\ Roomy(h, dimvariables, dimtable)
  BY <1>1 DEF Good, Sound, Tabled
<1>3. n \in Nat /\ e \in Matrix /\ e.data = Null /\ e.str = <<>> /\ e.id = n
  BY NamesAssumption DEF Matrix, Ptr
<1>4. /\ IsAt(dimvariables, n, v.at)
      /\ v.found => v.at \in 1 .. Len(dimvariables) /\ dimvariables[v.at].id = n
      /\ ~v.found => \A i \in 1 .. Len(dimvariables) : dimvariables[i].id # n
  BY <1>2, <1>3, FindsIs DEF finddimvar
<1>5. CASE v.found
  <2>1. x = [ok |-> TRUE, s |-> dimvariables, t |-> dimtable, h |-> h]
    BY <1>5 DEF dimension
  <2>2. x.s = dimvariables /\ x.t = dimtable /\ x.h = h
    BY <2>1
  <2>3. T2 = T
    BY <2>2 DEF tables
  <2>4. Got(x)
    BY <2>1, <2>2 DEF Got
  <2> QED BY <1>1, <1>4, <1>5, <2>2, <2>3, <2>4 DEF finddimvar
<1>6. CASE ~v.found
  <2>0. x \in addnewvar(h, dimvariables, dimtable, e)
    BY <1>6 DEF dimension
  <2>1. q \in Places /\ dimtable = H[q]
    <3>1. Tells(H, s, T)
      BY <1>2, HeldThere
    <3> QED BY <1>1, <3>1 DEF Tells
  <2> HIDE DEF H, e, q
  <2>2. \/ x = [ok |-> FALSE, s |-> dimvariables, t |-> dimtable, h |-> h]
        \/ /\ x = [ok |-> TRUE, s |-> x.s, t |-> x.t, h |-> x.h]
           /\ x.s \in Seq(Matrix) /\ Spread(dimvariables, findvariable(dimvariables, e.id).at, e, x.s) /\ Roomy(x.h, x.s, x.t)
           /\ \E H1 : Added(X, h, H, q, H1, x.h) /\ H1[q] = x.t
    <3>1. e.id \in Nat /\ Roomy(h, dimvariables, H[q])
      BY <1>2, <1>3, <2>1
    <3>2. Adds(X, h, H, q, Matrix, dimvariables, e, dimtable, x)
      BY <1>2, <1>3, <2>0, <2>1, <3>1, AddKeeps
    <3> QED BY <3>2 DEF Adds
  <2>3. CASE x = [ok |-> FALSE, s |-> dimvariables, t |-> dimtable, h |-> h]
    <3>1. x.s = dimvariables /\ x.t = dimtable /\ x.h = h
      BY <2>3
    <3>2. T2 = T
      BY <3>1 DEF tables
    <3>3. Failed(x) /\ ~Got(x)
      <4>1. Failed(x)
        BY <2>3, <3>1 DEF Failed
      <4> QED BY <4>1, GotIs
    <3> QED BY <1>1, <3>1, <3>2, <3>3
  <2>4. CASE /\ Got(x)
             /\ x.s \in Seq(Matrix) /\ Spread(dimvariables, v.at, e, x.s) /\ Roomy(x.h, x.s, x.t)
             /\ \E H1 : Added(X, h, H, q, H1, x.h) /\ H1[q] = x.t
    <3>1. PICK H1 : Added(X, h, H, q, H1, x.h) /\ H1[q] = x.t
      BY <2>4
    <3>2. Added(X, h, Held(s, T, R), q, H1, x.h)
      BY <3>1 DEF H
    <3>3. \A i \in 1 .. Len(DimsOf(T)) : DimsOf(T)[i].id # e.id
      BY <1>1, <1>3, <1>4, <1>6
    <3>4. DimAdded(T, T2, e, v.at) /\ DimBlock(T2) = H1[q] /\ Roomy(x.h, DimsOf(T2), DimBlock(T2))
      BY <1>1, <1>3, <1>4, <2>4, <3>1, <3>3 DEF DimAdded
    <3>5. q = <<"dimtable", 0, 0>>
      BY DEF q
    <3>6. Good(X, s, x.h, T2, R, g)
      <4> HIDE DEF T, v
      <4>1. Good(X, s, h, T, R, g)
        BY DEF T
      <4> QED BY <3>2, <3>4, <3>5, <4>1, DimInserts
    <3>7. /\ findvariable(x.s, n).at \in 1 .. Len(x.s) /\ x.s[findvariable(x.s, n).at].id = n
      <4>1. Ordered(x.s)
        BY <1>1, <3>6 DEF Good, Sound, Tabled
      <4>2. v.at \in 1 .. Len(x.s) /\ x.s[v.at] = e
        <5>1. v.at \in 1 .. Len(dimvariables) + 1 /\ Len(dimvariables) \in Nat
          BY <1>2, <1>4 DEF IsAt
        <5> QED BY <2>4, <5>1 DEF Spread
      <4>3. x.s[v.at].id = n
        BY <1>3, <4>2
      <4> HIDE DEF v
      <4>4. findvariable(x.s, n).at = v.at
        BY <1>3, <4>1, <4>2, <4>3, FindsIs
      <4> QED BY <4>2, <4>3, <4>4
    <3> QED BY <1>1, <2>4, <3>6, <3>7
  <2>5. findvariable(dimvariables, e.id).at = v.at
    BY <1>3 DEF finddimvar
  <2> QED BY <2>2, <2>3, <2>4, <2>5 DEF Got
<1> QED BY <1>5, <1>6

(* The tables after a step, when it says what they are.                    *)
LEMMA TablesAre ==
  ASSUME NEW a, NEW b, NEW c, NEW d, variables' = a, vartable' = b, dimvariables' = c, dimtable' = d
  PROVE  tables' = <<a, b, c, d>>
BY DEF tables

LEMMA LetnumberKeeps ==
  ASSUME NEW g, Here(g), letnumber PROVE There(g)
<1>1. PICK n \in Names \ StringNames : \E x \in scalar(heap, n) :
        /\ Begins /\ variables' = x.s /\ vartable' = x.t /\ heap' = x.h
        /\ stack' = IF x.ok THEN Append(stack, Call("PRINT", <<>>)) ELSE Done(stack)
        /\ UNCHANGED <<dimvariables, dimtable, system>>
  BY DEF letnumber
<1>2. PICK x \in scalar(heap, n) :
        /\ Begins /\ variables' = x.s /\ vartable' = x.t /\ heap' = x.h
        /\ stack' = IF x.ok THEN Append(stack, Call("PRINT", <<>>)) ELSE Done(stack)
        /\ UNCHANGED <<dimvariables, dimtable, system>>
  BY <1>1
<1>3. Calm(stack) /\ outcome = "running"
  BY <1>2, BeginsCalm
<1>4. Good(lost, stack, heap, tables, rest, g)
  BY DEF Here
<1> DEFINE T2 == <<x.s, x.t, dimvariables, dimtable>>
<1>5. Good(lost, stack, x.h, T2, rest, g)
  BY <1>3, <1>4, ScalarKeeps
<1>6. tables' = T2
  BY <1>2, TablesAre
<1> HIDE DEF T2
<1>7. Good(lost, stack', x.h, T2, rest, g)
  <2>1. stack' = Append(stack, Call("PRINT", <<>>)) \/ stack' = Done(stack)
    BY <1>2
  <2> QED BY <1>3, <1>5, <2>1, PrintFresh, DoneKeeps
<1>8. rest' = rest /\ lost' = lost /\ outcome' = outcome /\ heap' = x.h
  BY <1>2 DEF rest, system
<1> QED BY <1>3, <1>6, <1>7, <1>8 DEF There

LEMMA LvalueKeeps ==
  ASSUME NEW g, Here(g), lvalue PROVE There(g)
<1>1. PICK fn \in Assigning, n \in StringNames : \E x \in scalar(heap, n) :
        LET i == findvariable(x.s, n).at
            at == IF x.ok THEN [block |-> x.t, index |-> i] ELSE NoAddress
        IN  /\ MayAssign(fn)
            /\ variables' = x.s /\ vartable' = x.t /\ heap' = x.h
            /\ Assigns(stack, fn, at, IF x.ok THEN x.s[i].sval ELSE Null, {[name |-> n]})
            /\ UNCHANGED <<dimvariables, dimtable, system>>
  BY DEF lvalue
<1>2. PICK x \in scalar(heap, n) :
        LET i == findvariable(x.s, n).at
            at == IF x.ok THEN [block |-> x.t, index |-> i] ELSE NoAddress
        IN  /\ MayAssign(fn)
            /\ variables' = x.s /\ vartable' = x.t /\ heap' = x.h
            /\ Assigns(stack, fn, at, IF x.ok THEN x.s[i].sval ELSE Null, {[name |-> n]})
            /\ UNCHANGED <<dimvariables, dimtable, system>>
  BY <1>1
<1> DEFINE i == findvariable(x.s, n).at
           at == IF x.ok THEN [block |-> x.t, index |-> i] ELSE NoAddress
           old == IF x.ok THEN x.s[i].sval ELSE Null
           of == {[name |-> n]}
           f == To(fn, at, old, of)
           T2 == <<x.s, x.t, dimvariables, dimtable>>
<1>3. /\ MayAssign(fn) /\ variables' = x.s /\ vartable' = x.t /\ heap' = x.h
      /\ Assigns(stack, fn, at, old, of) /\ UNCHANGED <<dimvariables, dimtable, system>>
  BY <1>2
<1>4. Calm(stack) /\ outcome = "running"
  BY <1>3, MayAssignCalm
<1>5. Good(lost, stack, heap, tables, rest, g) /\ n \in Names
  BY NamesAssumption DEF Here
<1>6. /\ Good(lost, stack, x.h, T2, rest, g) /\ VarsOf(T2) = x.s /\ VarBlock(T2) = x.t
      /\ Got(x) \/ Failed(x)
      /\ Got(x) => i \in 1 .. Len(x.s) /\ x.s[i].id = n
  BY <1>4, <1>5, ScalarKeeps
<1>7. tables' = T2
  BY <1>3, TablesAre
<1>8. x.s \in Seq(Scalar) /\ x.t \in Ptr /\ Len(x.s) \in Nat
  BY <1>6 DEF Good, Sound, Tabled
<1>9. stack' = IF at = NoAddress /\ fn = "LET" THEN Done(stack) ELSE Append(stack, f)
  BY <1>3 DEF Assigns
<1> HIDE DEF T2, i
<1>10. of \in SUBSET Naming
  BY DEF Naming
<1>11. at \in Address /\ old \in Ptr /\ (at # NoAddress => AtScalar(f, T2))
  <2>1. CASE Got(x)
    <3>1. at = [block |-> x.t, index |-> i] /\ old = x.s[i].sval
      BY <2>1, GotIs
    <3>2. i \in 1 .. Len(x.s) /\ x.s[i].id = n /\ x.s[i] \in Scalar /\ i \in Nat
      BY <1>6, <1>8, <2>1
    <3>3. at \in Address /\ old \in Ptr
      BY <1>8, <3>1, <3>2 DEF Address, Scalar
    <3>4. f.at = at /\ f.of = {[name |-> n]} /\ f.old = old /\ at.block = x.t /\ at.index = i
      BY <3>1 DEF To
    <3> HIDE DEF f, at, old
    <3>5. AtScalar(f, T2)
      BY <1>6, <3>1, <3>2, <3>4 DEF AtScalar
    <3> QED BY <3>3, <3>5
  <2>2. CASE Failed(x)
    <3>1. at = NoAddress /\ old = Null
      BY <2>2, GotIs
    <3> QED BY <3>1 DEF NoAddress, Address, Ptr
  <2> QED BY <1>6, <2>1, <2>2
<1>12. f = To(fn, at, old, of)
  OBVIOUS
<1> HIDE DEF f, at, old, of
<1>13. Good(lost, stack', x.h, T2, rest, g)
  BY <1>4, <1>6, <1>9, <1>10, <1>11, <1>12, AssignsKeeps
<1>14. rest' = rest /\ lost' = lost /\ outcome' = outcome /\ heap' = x.h
  BY <1>3 DEF rest, system
<1> QED BY <1>4, <1>7, <1>13, <1>14 DEF There

LEMMA DodolineKeeps ==
  ASSUME NEW g, Here(g), dodoline PROVE There(g)
<1> DEFINE h == free(heap, Pointers(arg))
<1>1. PICK n \in Names : \E x \in scalar(h, n) :
        /\ In("line") \/ In("line done")
        /\ variables' = x.s /\ vartable' = x.t /\ heap' = x.h
        /\ Proceed /\ UNCHANGED <<dimvariables, dimtable, system>>
  BY DEF dodoline
<1>2. PICK x \in scalar(h, n) :
        /\ In("line") \/ In("line done")
        /\ variables' = x.s /\ vartable' = x.t /\ heap' = x.h
        /\ Proceed /\ UNCHANGED <<dimvariables, dimtable, system>>
  BY <1>1
<1>3. outcome = "running" /\ stack # <<>> /\ Top.fn \in Lines
  BY <1>2 DEF In, Lines
<1>4. Under = Below(stack) /\ Top = stack[Len(stack)] /\ Top \in Frame /\ Stacked(stack, tables) /\ Null \notin lost
  BY <1>3, TopIs
<1>5. Calm(Under) /\ Top.fn # "DIM"
  BY <1>3, <1>4, ShapeIs DEF Lines, Parts
<1>6. Good(lost, Under, h, tables, rest, g)
  <2>1. Good(lost \union ((Pointers(arg) \ Pointers(arg)) \ {Null}), Under, free(heap, Pointers(arg)), tables, rest, g)
    BY <1>3, <1>5, ReturnKeeps
  <2>2. lost \union ((Pointers(arg) \ Pointers(arg)) \ {Null}) = lost
    OBVIOUS
  <2> QED BY <2>1, <2>2
<1> HIDE DEF h
<1> DEFINE T2 == <<x.s, x.t, dimvariables, dimtable>>
<1>7. Good(lost, Under, x.h, T2, rest, g)
  BY <1>5, <1>6, ScalarKeeps
<1>8. tables' = T2
  BY <1>2, TablesAre
<1> HIDE DEF T2
<1>9. stack' = Done(Under) /\ rest' = rest /\ lost' = lost /\ outcome' = outcome /\ heap' = x.h
  BY <1>2 DEF rest, system, Proceed
<1>10. Good(lost, Done(Under), x.h, T2, rest, g)
  BY <1>7, DoneKeeps
<1> QED BY <1>3, <1>8, <1>9, <1>10 DEF There

-----------------------------------------------------------------------------
(* An entry of a table changes                                             *)

VarSet(T, i, v) == <<[VarsOf(T) EXCEPT ![i] = v], VarBlock(T), DimsOf(T), DimBlock(T)>>
DimSet(T, j, d) == <<VarsOf(T), VarBlock(T), [DimsOf(T) EXCEPT ![j] = d], DimBlock(T)>>

\* The program sees v in one variable, or f in one array.
SeesScalar(g, g2, n, v) ==
  g2[2] = g[2] /\ \A m \in StringNames : g2[1][m] = IF m = n THEN v ELSE g[1][m]
SeesArray(g, g2, a, f) ==
  g2[1] = g[1] /\ \A b \in StringArrays : g2[2][b] = IF b = a THEN f ELSE g[2][b]

LEMMA OneEntry ==
  ASSUME NEW s, Ordered(s), NEW i \in 1 .. Len(s), NEW j \in 1 .. Len(s), s[i].id = s[j].id
  PROVE  i = j
<1>1. s[i].id \in Nat /\ s[j].id \in Nat /\ (i < j => s[i].id < s[j].id) /\ (j < i => s[j].id < s[i].id)
  BY DEF Ordered
<1>2. Len(s) \in Nat
  BY DEF Ordered
<1>3. ~(i < j)
  <2> SUFFICES ASSUME i < j PROVE FALSE
    OBVIOUS
  <2>1. s[j].id < s[j].id
    BY <1>1
  <2> QED BY <1>1, <2>1
<1>4. ~(j < i)
  <2> SUFFICES ASSUME j < i PROVE FALSE
    OBVIOUS
  <2>1. s[j].id < s[j].id
    BY <1>1
  <2> QED BY <1>1, <2>1
<1> QED BY <1>2, <1>3, <1>4

LEMMA VarSetIs ==
  ASSUME NEW h, NEW T, Tabled(h, T), NEW i \in 1 .. Len(VarsOf(T)), NEW v \in Scalar,
         v.id = VarsOf(T)[i].id, NEW T2, T2 = VarSet(T, i, v)
  PROVE  /\ VarBlock(T2) = VarBlock(T) /\ DimsOf(T2) = DimsOf(T) /\ DimBlock(T2) = DimBlock(T)
         /\ Len(VarsOf(T2)) = Len(VarsOf(T))
         /\ \A k \in 1 .. Len(VarsOf(T)) : VarsOf(T2)[k] = IF k = i THEN v ELSE VarsOf(T)[k]
         /\ Tabled(h, T2)
<1> DEFINE w == VarsOf(T)
           u == VarsOf(T2)
<1>1. w \in Seq(Scalar) /\ Len(w) \in Nat /\ Ordered(w) /\ Roomy(h, w, VarBlock(T))
  BY DEF Tabled
<1>2. VarBlock(T2) = VarBlock(T) /\ DimsOf(T2) = DimsOf(T) /\ DimBlock(T2) = DimBlock(T)
      /\ u = [w EXCEPT ![i] = v]
  BY DEF VarSet, VarsOf, VarBlock, DimsOf, DimBlock
<1>3. u \in Seq(Scalar) /\ Len(u) = Len(w) /\ \A k \in 1 .. Len(w) : u[k] = IF k = i THEN v ELSE w[k]
  BY <1>1, <1>2
<1>4. \A k \in 1 .. Len(w) : u[k].id = w[k].id
  BY <1>3
<1>5. Ordered(u)
  BY <1>1, <1>3, <1>4 DEF Ordered
<1>6. Roomy(h, u, VarBlock(T2))
  <2>1. w # <<>>
    BY <1>1
  <2>2. nextlargest(Len(u)) = nextlargest(Len(w))
    BY <1>3
  <2> QED BY <1>1, <1>2, <2>1, <2>2 DEF Roomy
<1>7. Tabled(h, T2)
  BY <1>2, <1>3, <1>5, <1>6 DEF Tabled
<1> QED BY <1>2, <1>3, <1>7

\* T2 is T but for d, which is array j of it.
DimAt(T, T2, j, d) ==
  /\ VarsOf(T2) = VarsOf(T) /\ VarBlock(T2) = VarBlock(T) /\ DimBlock(T2) = DimBlock(T)
  /\ Len(DimsOf(T2)) = Len(DimsOf(T)) /\ DimsOf(T2)[j] = d /\ d.id = DimsOf(T)[j].id
  /\ \A k \in 1 .. Len(DimsOf(T)) : k # j => DimsOf(T2)[k] = DimsOf(T)[k]
  /\ \A k \in 1 .. Len(DimsOf(T)) : DimsOf(T2)[k].id = DimsOf(T)[k].id

LEMMA DimSetIs ==
  ASSUME NEW h, NEW T, Tabled(h, T), NEW j \in 1 .. Len(DimsOf(T)), NEW d \in Matrix,
         d.id = DimsOf(T)[j].id, d.id \notin StringArrays => d.str = <<>>,
         NEW T2, T2 = DimSet(T, j, d),
         NEW h2, Roomy(h2, VarsOf(T), VarBlock(T)), Roomy(h2, DimsOf(T), DimBlock(T)),
         \A k \in 1 .. Len(DimsOf(T)) : k # j => Sizable(h2, DimsOf(T)[k]), Sizable(h2, d)
  PROVE  DimAt(T, T2, j, d) /\ Tabled(h2, T2)
<1> DEFINE w == DimsOf(T)
           u == DimsOf(T2)
<1>1. w \in Seq(Matrix) /\ Len(w) \in Nat /\ Ordered(w)
      /\ \A k \in 1 .. Len(w) : w[k].id \notin StringArrays => w[k].str = <<>>
  BY DEF Tabled
<1>2. VarsOf(T2) = VarsOf(T) /\ VarBlock(T2) = VarBlock(T) /\ DimBlock(T2) = DimBlock(T)
      /\ u = [w EXCEPT ![j] = d]
  BY DEF DimSet, VarsOf, VarBlock, DimsOf, DimBlock
<1>3. u \in Seq(Matrix) /\ Len(u) = Len(w) /\ u[j] = d /\ \A k \in 1 .. Len(w) : k # j => u[k] = w[k]
  BY <1>1, <1>2
<1>4. \A k \in 1 .. Len(w) : u[k].id = w[k].id
  BY <1>3
<1>5. Ordered(u)
  BY <1>1, <1>3, <1>4 DEF Ordered
<1>6. Roomy(h2, u, DimBlock(T2))
  <2>1. w # <<>>
    BY <1>1
  <2>2. nextlargest(Len(u)) = nextlargest(Len(w))
    BY <1>3
  <2> QED BY <1>1, <1>2, <2>1, <2>2 DEF Roomy
<1>7. \A k \in 1 .. Len(u) : Sizable(h2, u[k]) /\ (u[k].id \notin StringArrays => u[k].str = <<>>)
  BY <1>1, <1>3
<1>8. VarsOf(T) \in Seq(Scalar) /\ VarBlock(T) \in Ptr /\ DimBlock(T) \in Ptr /\ Ordered(VarsOf(T))
  BY DEF Tabled
<1>9. Tabled(h2, T2)
  BY <1>2, <1>3, <1>5, <1>6, <1>7, <1>8 DEF Tabled
<1> QED BY <1>2, <1>3, <1>4, <1>9 DEF DimAt

(* A variable gets the string p, which nobody held, and lets go of its own. *)
LEMMA VarWrites ==
  ASSUME NEW X, NEW s, NEW h, NEW T, NEW R, NEW g, Good(X, s, h, T, R, g), Calm(s),
         NEW i \in 1 .. Len(VarsOf(T)), NEW v \in Scalar, v.id = VarsOf(T)[i].id, v.sval \in X \union {Null},
         NEW g2, SeesScalar(g, g2, v.id, Reads(h, v.sval))
  PROVE  Good((X \ {v.sval}) \union ({VarsOf(T)[i].sval} \ {Null}), s, h, VarSet(T, i, v), R, g2)
<1> DEFINE T2 == VarSet(T, i, v)
           p == v.sval
           H == Held(s, T, R)
           H2 == Held(s, T2, R)
           q == <<"variables", i, 0>>
           X2 == (X \ {p}) \union ({VarsOf(T)[i].sval} \ {Null})
<1>1. /\ Blocked(X, h) /\ Tabled(h, T) /\ Filed(R) /\ Stacked(s, T) /\ s \in Seq(Frame)
      /\ Own(DOMAIN h \ X, H) /\ Shown(g, s, h, T)
  BY DEF Good, Sound, Stacked
<1>2. /\ VarBlock(T2) = VarBlock(T) /\ DimsOf(T2) = DimsOf(T) /\ DimBlock(T2) = DimBlock(T)
      /\ Len(VarsOf(T2)) = Len(VarsOf(T))
      /\ \A k \in 1 .. Len(VarsOf(T)) : VarsOf(T2)[k] = IF k = i THEN v ELSE VarsOf(T)[k]
      /\ Tabled(h, T2)
  BY <1>1, VarSetIs
<1> HIDE DEF T2
<1>3. Stacked(s, T2)
  BY <1>1, CalmIs
<1>4. H2 \in [Places -> Ptr]
  BY <1>1, <1>2, HeldType
<1>5. q \in Places /\ H[q] = VarsOf(T)[i].sval
  <2>1. Tells(H, s, T)
    BY <1>1, HeldThere
  <2> QED BY <2>1 DEF Tells
<1>6. ASSUME NEW r \in Places PROVE H2[r] = IF r = q THEN p ELSE H[r]
  <2>1. H2[r] = Holding(s, T2, R, r) /\ H[r] = Holding(s, T, R, r)
    BY HeldAt
  <2>2. r[1] \in Kinds /\ r[2] \in Nat /\ r[3] \in Nat /\ r = <<r[1], r[2], r[3]>>
    BY PlaceIs
  <2> HIDE DEF H, H2
  <2>3. CASE r[1] # "variables"
    BY <1>2, <2>1, <2>3 DEF Holding
  <2>4. CASE r[1] = "variables"
    BY <1>2, <2>1, <2>2, <2>4 DEF Holding
  <2> QED BY <2>3, <2>4
<1>7. Blocked(X2, h) /\ Own(DOMAIN h \ X2, H2)
  <2>1. X2 = (X \ {p}) \union ({H[q]} \ {Null}) /\ p \in X \union {Null}
    BY <1>5
  <2> HIDE DEF X2, H, H2, p, q
  <2> QED BY <1>1, <1>4, <1>5, <1>6, <2>1, SwapKeeps
<1>8. Shown(g2, s, h, T2)
  <2>1. ASSUME NEW k \in 1 .. Len(VarsOf(T2)), VarsOf(T2)[k].id \in StringNames
        PROVE  g2[1][VarsOf(T2)[k].id] = Reads(h, VarsOf(T2)[k].sval)
    <3>1. CASE k = i
      BY <1>2, <2>1, <3>1 DEF SeesScalar
    <3>2. CASE k # i
      <4>1. VarsOf(T2)[k] = VarsOf(T)[k] /\ k \in 1 .. Len(VarsOf(T))
        BY <1>2, <3>2
      <4>2. VarsOf(T)[k].id # v.id
        BY <1>1, <3>2, <4>1, OneEntry DEF Tabled
      <4>3. g[1][VarsOf(T)[k].id] = Reads(h, VarsOf(T)[k].sval)
        BY <1>1, <2>1, <4>1 DEF Shown
      <4> QED BY <2>1, <4>1, <4>2, <4>3 DEF SeesScalar
    <3> QED BY <3>1, <3>2
  <2>2. ASSUME NEW n \in StringNames, \A k \in 1 .. Len(VarsOf(T2)) : VarsOf(T2)[k].id # n
        PROVE  g2[1][n] = Unset
    <3>1. \A k \in 1 .. Len(VarsOf(T)) : VarsOf(T)[k].id # n
      BY <1>2, <2>2
    <3>2. g[1][n] = Unset /\ n # v.id
      BY <1>1, <3>1 DEF Shown
    <3> QED BY <3>2 DEF SeesScalar
  <2>3. \A j \in 1 .. Len(DimsOf(T2)) : DimsOf(T2)[j].id \in StringArrays =>
          /\ DOMAIN g2[2][DimsOf(T2)[j].id] = 1 .. Len(DimsOf(T2)[j].str)
          /\ \A k \in 1 .. Len(DimsOf(T2)[j].str) : <<j, k>> \notin Unborn(s) =>
                g2[2][DimsOf(T2)[j].id][k] = Reads(h, DimsOf(T2)[j].str[k])
    BY <1>1, <1>2 DEF Shown, SeesScalar
  <2>4. \A a \in StringArrays :
          (\A j \in 1 .. Len(DimsOf(T2)) : DimsOf(T2)[j].id # a) => g2[2][a] = <<>>
    BY <1>1, <1>2 DEF Shown, SeesScalar
  <2> QED BY <2>1, <2>2, <2>3, <2>4 DEF Shown
<1> QED BY <1>1, <1>2, <1>3, <1>7, <1>8 DEF Good, Sound, T2

(* What the program sees when array j is d: f, and what it saw of others.  *)
Alone(j, s, h, s2, h2, T) ==
  /\ \A k \in 1 .. Len(DimsOf(T)) : \A i : k # j /\ <<k, i>> \notin Unborn(s2) => <<k, i>> \notin Unborn(s)
  /\ \A i \in 1 .. Len(VarsOf(T)) : Reads(h2, VarsOf(T)[i].sval) = Reads(h, VarsOf(T)[i].sval)
  /\ \A k \in 1 .. Len(DimsOf(T)) : \A i \in 1 .. Len(DimsOf(T)[k].str) :
       k # j /\ <<k, i>> \notin Unborn(s) => Reads(h2, DimsOf(T)[k].str[i]) = Reads(h, DimsOf(T)[k].str[i])
Seen(f, d, j, s, h) == d.id \in StringArrays =>
  /\ DOMAIN f = 1 .. Len(d.str)
  /\ \A i \in 1 .. Len(d.str) : <<j, i>> \notin Unborn(s) => f[i] = Reads(h, d.str[i])

LEMMA DimShown ==
  ASSUME NEW s, NEW h, NEW T, NEW g, Shown(g, s, h, T), Ordered(DimsOf(T)),
         NEW j \in 1 .. Len(DimsOf(T)), NEW d, NEW T2, DimAt(T, T2, j, d),
         NEW s2, NEW h2, Alone(j, s, h, s2, h2, T),
         NEW f, Seen(f, d, j, s2, h2), NEW g2, SeesArray(g, g2, d.id, f)
  PROVE  Shown(g2, s2, h2, T2)
<1> USE DEF DimAt, Alone, Seen
<1>1. ASSUME NEW k \in 1 .. Len(DimsOf(T2)), DimsOf(T2)[k].id \in StringArrays
      PROVE  /\ DOMAIN g2[2][DimsOf(T2)[k].id] = 1 .. Len(DimsOf(T2)[k].str)
             /\ \A i \in 1 .. Len(DimsOf(T2)[k].str) : <<k, i>> \notin Unborn(s2) =>
                  g2[2][DimsOf(T2)[k].id][i] = Reads(h2, DimsOf(T2)[k].str[i])
  <2>1. CASE k = j
    <3>1. g2[2][d.id] = f
      BY <1>1, <2>1 DEF SeesArray
    <3> QED BY <1>1, <2>1, <3>1
  <2>2. CASE k # j
    <3>1. DimsOf(T2)[k] = DimsOf(T)[k] /\ k \in 1 .. Len(DimsOf(T))
      BY <2>2
    <3>2. DimsOf(T)[k].id # d.id
      BY <2>2, <3>1, OneEntry
    <3>3. /\ DOMAIN g[2][DimsOf(T)[k].id] = 1 .. Len(DimsOf(T)[k].str)
          /\ \A i \in 1 .. Len(DimsOf(T)[k].str) : <<k, i>> \notin Unborn(s) =>
               g[2][DimsOf(T)[k].id][i] = Reads(h, DimsOf(T)[k].str[i])
      BY <1>1, <3>1 DEF Shown
    <3>4. g2[2][DimsOf(T)[k].id] = g[2][DimsOf(T)[k].id]
      BY <1>1, <3>1, <3>2 DEF SeesArray
    <3> QED BY <2>2, <3>1, <3>3, <3>4
  <2> QED BY <2>1, <2>2
<1>2. ASSUME NEW a \in StringArrays, \A k \in 1 .. Len(DimsOf(T2)) : DimsOf(T2)[k].id # a
      PROVE  g2[2][a] = <<>>
  <2>1. (\A k \in 1 .. Len(DimsOf(T)) : DimsOf(T)[k].id # a) /\ a # d.id
    BY <1>2
  <2>2. g[2][a] = <<>>
    BY <2>1 DEF Shown
  <2> QED BY <2>1, <2>2 DEF SeesArray
<1>3. \A i \in 1 .. Len(VarsOf(T2)) :
        VarsOf(T2)[i].id \in StringNames => g2[1][VarsOf(T2)[i].id] = Reads(h2, VarsOf(T2)[i].sval)
  BY DEF Shown, SeesArray
<1>4. \A n \in StringNames : (\A i \in 1 .. Len(VarsOf(T2)) : VarsOf(T2)[i].id # n) => g2[1][n] = Unset
  BY DEF Shown, SeesArray
<1> QED BY <1>1, <1>2, <1>3, <1>4 DEF Shown

(* An element gets the string p, which nobody held, and lets go of its own. *)
Element(d, d2, i, p) ==
  /\ d2 \in Matrix /\ d2.id = d.id /\ d2.data = d.data /\ Len(d2.str) = Len(d.str)
  /\ \A k \in 1 .. Len(d.str) : d2.str[k] = IF k = i THEN p ELSE d.str[k]

LEMMA ElementWrites ==
  ASSUME NEW X, NEW s, NEW h, NEW T, NEW R, NEW g, Good(X, s, h, T, R, g), Calm(s),
         NEW j \in 1 .. Len(DimsOf(T)), NEW i \in 1 .. Len(DimsOf(T)[j].str), NEW p \in X \union {Null},
         NEW d, Element(DimsOf(T)[j], d, i, p), d.id \in StringArrays,
         NEW f, DOMAIN f = 1 .. Len(d.str),
         \A k \in 1 .. Len(d.str) : f[k] = IF k = i THEN Reads(h, p) ELSE g[2][d.id][k],
         NEW g2, SeesArray(g, g2, d.id, f)
  PROVE  Good((X \ {p}) \union ({DimsOf(T)[j].str[i]} \ {Null}), s, h, DimSet(T, j, d), R, g2)
<1> DEFINE T2 == DimSet(T, j, d)
           c == DimsOf(T)[j]
           H == Held(s, T, R)
           H2 == Held(s, T2, R)
           q == <<"elements", j, i>>
           X2 == (X \ {p}) \union ({c.str[i]} \ {Null})
<1>1. /\ Blocked(X, h) /\ Tabled(h, T) /\ Filed(R) /\ Stacked(s, T) /\ s \in Seq(Frame)
      /\ Own(DOMAIN h \ X, H) /\ Shown(g, s, h, T) /\ Ordered(DimsOf(T)) /\ c \in Matrix
  BY DEF Good, Sound, Stacked, Tabled
<1>2. DimAt(T, T2, j, d) /\ Tabled(h, T2)
  <2>1. /\ Roomy(h, VarsOf(T), VarBlock(T)) /\ Roomy(h, DimsOf(T), DimBlock(T))
        /\ \A k \in 1 .. Len(DimsOf(T)) : Sizable(h, DimsOf(T)[k])
    BY <1>1 DEF Tabled
  <2>2. Sizable(h, d)
    <3>1. Sizable(h, c) /\ c.str # <<>> /\ d.data = c.data /\ Len(d.str) = Len(c.str)
      BY <1>1, <2>1 DEF Element, Matrix
    <3> QED BY <3>1 DEF Sizable
  <2>3. d \in Matrix /\ d.id = c.id
    BY DEF Element
  <2> HIDE DEF T2
  <2> QED BY <1>1, <2>1, <2>2, <2>3, DimSetIs DEF T2
<1> HIDE DEF T2
<1>3. Stacked(s, T2) /\ Unborn(s) = {}
  BY <1>1, CalmIs
<1>4. H2 \in [Places -> Ptr]
  BY <1>1, <1>2, HeldType
<1>5. q \in Places /\ H[q] = c.str[i]
  <2>1. Tells(H, s, T)
    BY <1>1, HeldThere
  <2> QED BY <1>3, <2>1 DEF Tells
<1>6. ASSUME NEW r \in Places PROVE H2[r] = IF r = q THEN p ELSE H[r]
  <2>1. H2[r] = Holding(s, T2, R, r) /\ H[r] = Holding(s, T, R, r)
    BY HeldAt
  <2>2. r[1] \in Kinds /\ r[2] \in Nat /\ r[3] \in Nat /\ r = <<r[1], r[2], r[3]>>
    BY PlaceIs
  <2> HIDE DEF H, H2
  <2>3. CASE r[1] \notin {"arrays", "elements"}
    BY <1>2, <2>1, <2>3 DEF Holding, DimAt
  <2>4. CASE r[1] = "arrays"
    <3>1. \A k \in 1 .. Len(DimsOf(T)) : DimsOf(T2)[k].data = DimsOf(T)[k].data
      BY <1>2 DEF DimAt, Element
    <3>2. Len(DimsOf(T2)) = Len(DimsOf(T)) /\ r # q
      BY <1>2, <2>4 DEF DimAt
    <3> QED BY <2>1, <2>4, <3>1, <3>2 DEF Holding
  <2>5. CASE r[1] = "elements"
    <3>1. CASE r[2] = j
      <4>1. DimsOf(T2)[r[2]] = d /\ DimsOf(T)[r[2]] = c /\ Len(DimsOf(T2)) = Len(DimsOf(T)) /\ Len(d.str) = Len(c.str)
        BY <1>2, <3>1 DEF DimAt, Element
      <4>2. r[3] \in 1 .. Len(c.str) => d.str[r[3]] = IF r[3] = i THEN p ELSE c.str[r[3]]
        BY DEF Element
      <4>3. r = q <=> r[3] = i
        BY <2>2, <2>5, <3>1
      <4> QED BY <1>3, <2>1, <2>5, <3>1, <4>1, <4>2, <4>3 DEF Holding
    <3>2. CASE r[2] # j
      <4>1. r # q
        BY <3>2
      <4>2. Len(DimsOf(T2)) = Len(DimsOf(T)) /\ (r[2] \in 1 .. Len(DimsOf(T)) => DimsOf(T2)[r[2]] = DimsOf(T)[r[2]])
        BY <1>2, <3>2 DEF DimAt
      <4> QED BY <1>3, <2>1, <2>5, <4>1, <4>2 DEF Holding
    <3> QED BY <3>1, <3>2
  <2> QED BY <2>3, <2>4, <2>5
<1>7. Blocked(X2, h) /\ Own(DOMAIN h \ X2, H2)
  <2>1. X2 = (X \ {p}) \union ({H[q]} \ {Null})
    BY <1>5
  <2> HIDE DEF X2, H, H2, q
  <2> QED BY <1>1, <1>4, <1>5, <1>6, <2>1, SwapKeeps
<1>8. Shown(g2, s, h, T2)
  <2>1. Alone(j, s, h, s, h, T)
    BY DEF Alone
  <2>2. Seen(f, d, j, s, h)
    <3>1. \A k \in 1 .. Len(c.str) : g[2][c.id][k] = Reads(h, c.str[k])
      BY <1>1, <1>3 DEF Shown, Element
    <3>2. d.id = c.id /\ Len(d.str) = Len(c.str) /\ \A k \in 1 .. Len(c.str) : d.str[k] = IF k = i THEN p ELSE c.str[k]
      BY DEF Element
    <3> QED BY <3>1, <3>2 DEF Seen
  <2> QED BY <1>1, <1>2, <2>1, <2>2, DimShown
<1> QED BY <1>1, <1>2, <1>3, <1>7, <1>8 DEF Good, Sound, T2

-----------------------------------------------------------------------------
(* LET, MID$ = and INPUT write to one place                                *)

Spot(T, q) ==
  /\ q \in Places
  /\ \/ q[1] = "variables" /\ q[2] \in 1 .. Len(VarsOf(T)) /\ q[3] = 0 /\ VarsOf(T)[q[2]].id \in StringNames
     \/ /\ q[1] = "elements" /\ q[2] \in 1 .. Len(DimsOf(T)) /\ q[3] \in 1 .. Len(DimsOf(T)[q[2]].str)
        /\ DimsOf(T)[q[2]].id \in StringArrays
ScalarWith(e, p) == [e EXCEPT !.sval = p]
MatrixWith(d, i, p) == [d EXCEPT !.str = [d.str EXCEPT ![i] = p]]
Store(T, q, p) ==
  IF q[1] = "variables" THEN VarSet(T, q[2], ScalarWith(VarsOf(T)[q[2]], p))
  ELSE DimSet(T, q[2], MatrixWith(DimsOf(T)[q[2]], q[3], p))
Value(T, q) == IF q[1] = "variables" THEN VarsOf(T)[q[2]].sval ELSE DimsOf(T)[q[2]].str[q[3]]
NameOf(T, q) ==
  IF q[1] = "variables" THEN [name |-> VarsOf(T)[q[2]].id]
  ELSE [array |-> DimsOf(T)[q[2]].id, index |-> q[3]]

\* What the program sees when q of T shows v.
See(g, T, q, v) ==
  IF q[1] = "variables" THEN <<[g[1] EXCEPT ![VarsOf(T)[q[2]].id] = v], g[2]>>
  ELSE <<g[1], [g[2] EXCEPT ![DimsOf(T)[q[2]].id] = [g[2][DimsOf(T)[q[2]].id] EXCEPT ![q[3]] = v]]>>
Strings(g) == DOMAIN g[1] = StringNames /\ DOMAIN g[2] = StringArrays

LEMMA StoreKeeps ==
  ASSUME NEW X, NEW s, NEW h, NEW T, NEW R, NEW g, Good(X, s, h, T, R, g), Calm(s), Strings(g),
         NEW q, Spot(T, q), NEW p \in X \union {Null}
  PROVE  Good((X \ {p}) \union ({Value(T, q)} \ {Null}), s, h, Store(T, q, p), R, See(g, T, q, Reads(h, p)))
<1>1. Tabled(h, T) /\ VarsOf(T) \in Seq(Scalar) /\ DimsOf(T) \in Seq(Matrix) /\ Shown(g, s, h, T) /\ p \in Ptr
      /\ Stacked(s, T)
  BY NoNull DEF Good, Sound, Tabled, Ptr
<1>2. CASE q[1] = "variables"
  <2> DEFINE i == q[2]
             c == VarsOf(T)[i]
             v == ScalarWith(c, p)
             g2 == See(g, T, q, Reads(h, p))
  <2>1. i \in 1 .. Len(VarsOf(T)) /\ c \in Scalar /\ c.id \in StringNames
    BY <1>1, <1>2 DEF Spot
  <2>2. v \in Scalar /\ v.id = c.id /\ v.sval = p
    BY <1>1, <2>1 DEF Scalar, ScalarWith
  <2>3. SeesScalar(g, g2, c.id, Reads(h, p))
    <3>1. g2 = <<[g[1] EXCEPT ![c.id] = Reads(h, p)], g[2]>>
      BY <1>2 DEF See
    <3> QED BY <2>1, <3>1 DEF SeesScalar, Strings
  <2>4. Store(T, q, p) = VarSet(T, i, v) /\ Value(T, q) = c.sval
    BY <1>2 DEF Store, Value
  <2> HIDE DEF v, g2
  <2>5. Good((X \ {v.sval}) \union ({VarsOf(T)[i].sval} \ {Null}), s, h, VarSet(T, i, v), R, g2)
    BY <2>1, <2>2, <2>3, VarWrites
  <2> QED BY <2>2, <2>4, <2>5 DEF g2
<1>3. CASE q[1] = "elements"
  <2> DEFINE j == q[2]
             i == q[3]
             c == DimsOf(T)[j]
             d == MatrixWith(c, i, p)
             f == [g[2][c.id] EXCEPT ![i] = Reads(h, p)]
             g2 == See(g, T, q, Reads(h, p))
  <2>1. j \in 1 .. Len(DimsOf(T)) /\ c \in Matrix /\ c.id \in StringArrays /\ i \in 1 .. Len(c.str)
    BY <1>1, <1>3 DEF Spot
  <2>2. c.str \in Seq(Ptr) /\ c.id \in Arrays /\ c.data \in Ptr
    BY <2>1 DEF Matrix
  <2>3. /\ d.id = c.id /\ d.data = c.data /\ d.str = [c.str EXCEPT ![i] = p] /\ d \in Matrix
    <3>1. [c.str EXCEPT ![i] = p] \in Seq(Ptr)
      BY <1>1, <2>1, <2>2
    <3> QED BY <2>1, <3>1 DEF Matrix, MatrixWith
  <2>4. Len(d.str) = Len(c.str) /\ \A k \in 1 .. Len(c.str) : d.str[k] = IF k = i THEN p ELSE c.str[k]
    BY <2>1, <2>2, <2>3
  <2>5. Element(DimsOf(T)[j], d, i, p)
    BY <2>3, <2>4 DEF Element
  <2>6. DOMAIN g[2][c.id] = 1 .. Len(c.str)
    BY <1>1, <2>1 DEF Shown
  <2>7. DOMAIN f = 1 .. Len(d.str) /\ \A k \in 1 .. Len(d.str) : f[k] = IF k = i THEN Reads(h, p) ELSE g[2][d.id][k]
    BY <2>3, <2>4, <2>6
  <2>8. SeesArray(g, g2, d.id, f)
    <3>1. g2 = <<g[1], [g[2] EXCEPT ![c.id] = f]>>
      BY <1>3 DEF See
    <3> HIDE DEF f, g2
    <3> QED BY <2>1, <2>3, <3>1 DEF SeesArray, Strings
  <2>9. Store(T, q, p) = DimSet(T, j, d) /\ Value(T, q) = c.str[i]
    BY <1>3 DEF Store, Value
  <2> HIDE DEF d, f, g2
  <2>10. Good((X \ {p}) \union ({DimsOf(T)[j].str[i]} \ {Null}), s, h, DimSet(T, j, d), R, g2)
    <3>1. d.id \in StringArrays
      BY <2>1, <2>3
    <3> QED BY <2>1, <2>5, <2>7, <2>8, <3>1, ElementWrites
  <2> QED BY <2>9, <2>10 DEF g2
<1> QED BY <1>2, <1>3 DEF Spot

(* The place is there after it was written to, and may be written again.   *)
LEMMA StoreIs ==
  ASSUME NEW h, NEW T, Tabled(h, T), NEW q, Spot(T, q), NEW p \in Ptr
  PROVE  /\ Spot(Store(T, q, p), q) /\ Value(Store(T, q, p), q) = p
         /\ \A p2 : Store(Store(T, q, p), q, p2) = Store(T, q, p2)
         /\ \A g, v : See(g, Store(T, q, p), q, v) = See(g, T, q, v)
<1> DEFINE T2 == Store(T, q, p)
<1>1. VarsOf(T) \in Seq(Scalar) /\ DimsOf(T) \in Seq(Matrix)
  BY DEF Tabled
<1>2. CASE q[1] = "variables"
  <2> DEFINE i == q[2]
             w == VarsOf(T)
  <2>1. i \in 1 .. Len(w) /\ w[i] \in Scalar /\ w[i].id \in StringNames
    BY <1>1, <1>2 DEF Spot
  <2>2. VarsOf(T2) = [w EXCEPT ![i] = ScalarWith(w[i], p)] /\ VarBlock(T2) = VarBlock(T)
        /\ DimsOf(T2) = DimsOf(T) /\ DimBlock(T2) = DimBlock(T)
    BY <1>2 DEF Store, VarSet, VarsOf, VarBlock, DimsOf, DimBlock
  <2>3. ScalarWith(w[i], p).id = w[i].id /\ ScalarWith(w[i], p).sval = p
        /\ \A p2 : ScalarWith(ScalarWith(w[i], p), p2) = ScalarWith(w[i], p2)
    BY <2>1 DEF ScalarWith, Scalar
  <2>4. VarsOf(T2)[i] = ScalarWith(w[i], p) /\ Len(VarsOf(T2)) = Len(w)
        /\ \A v : [VarsOf(T2) EXCEPT ![i] = v] = [w EXCEPT ![i] = v]
    BY <1>1, <2>1, <2>2
  <2> HIDE DEF T2
  <2>5. Spot(T2, q) /\ Value(T2, q) = p
    BY <1>2, <2>1, <2>3, <2>4 DEF Spot, Value
  <2>6. ASSUME NEW p2 PROVE Store(T2, q, p2) = Store(T, q, p2)
    BY <1>2, <2>2, <2>3, <2>4 DEF Store, VarSet
  <2>7. ASSUME NEW f, NEW v PROVE See(f, T2, q, v) = See(f, T, q, v)
    BY <1>2, <2>3, <2>4 DEF See
  <2> QED BY <2>5, <2>6, <2>7 DEF T2
<1>3. CASE q[1] = "elements"
  <2> DEFINE j == q[2]
             i == q[3]
             w == DimsOf(T)
  <2>1. j \in 1 .. Len(w) /\ w[j] \in Matrix /\ w[j].id \in StringArrays /\ i \in 1 .. Len(w[j].str)
        /\ w[j].str \in Seq(Ptr)
    <3>1. j \in 1 .. Len(w) /\ w[j].id \in StringArrays /\ i \in 1 .. Len(w[j].str)
      BY <1>3 DEF Spot
    <3>2. w[j] \in Matrix
      BY <1>1, <3>1
    <3> QED BY <3>1, <3>2 DEF Matrix
  <2>2. DimsOf(T2) = [w EXCEPT ![j] = MatrixWith(w[j], i, p)] /\ VarBlock(T2) = VarBlock(T)
        /\ VarsOf(T2) = VarsOf(T) /\ DimBlock(T2) = DimBlock(T)
    BY <1>3 DEF Store, DimSet, VarsOf, VarBlock, DimsOf, DimBlock
  <2>3. MatrixWith(w[j], i, p).id = w[j].id /\ MatrixWith(w[j], i, p).str = [w[j].str EXCEPT ![i] = p]
    BY <2>1 DEF MatrixWith, Matrix
  <2>4. /\ Len([w[j].str EXCEPT ![i] = p]) = Len(w[j].str) /\ [w[j].str EXCEPT ![i] = p][i] = p
        /\ \A p2 : [[w[j].str EXCEPT ![i] = p] EXCEPT ![i] = p2] = [w[j].str EXCEPT ![i] = p2]
    BY <2>1
  <2>5. \A p2 : MatrixWith(MatrixWith(w[j], i, p), i, p2) = MatrixWith(w[j], i, p2)
    BY <2>1, <2>3, <2>4 DEF MatrixWith, Matrix
  <2>6. DimsOf(T2)[j] = MatrixWith(w[j], i, p) /\ Len(DimsOf(T2)) = Len(w)
        /\ \A d : [DimsOf(T2) EXCEPT ![j] = d] = [w EXCEPT ![j] = d]
    BY <1>1, <2>1, <2>2
  <2> HIDE DEF T2
  <2>7. Spot(T2, q) /\ Value(T2, q) = p
    BY <1>3, <2>1, <2>3, <2>4, <2>6 DEF Spot, Value
  <2>8. ASSUME NEW p2 PROVE Store(T2, q, p2) = Store(T, q, p2)
    BY <1>3, <2>2, <2>5, <2>6 DEF Store, DimSet
  <2>9. ASSUME NEW f, NEW v PROVE See(f, T2, q, v) = See(f, T, q, v)
    BY <1>3, <2>3, <2>6 DEF See
  <2> QED BY <2>7, <2>8, <2>9 DEF T2
<1> QED BY <1>2, <1>3 DEF Spot

LEMMA SeeIs ==
  ASSUME NEW s, NEW h, NEW T, NEW g, Shown(g, s, h, T), Strings(g), NEW q, Spot(T, q), NEW u, NEW v
  PROVE  See(See(g, T, q, u), T, q, v) = See(g, T, q, v) /\ Strings(See(g, T, q, u))
<1>1. CASE q[1] = "variables"
  <2> DEFINE n == VarsOf(T)[q[2]].id
  <2>1. n \in StringNames
    BY <1>1 DEF Spot
  <2> HIDE DEF n
  <2>2. \A f, w : See(f, T, q, w) = <<[f[1] EXCEPT ![n] = w], f[2]>>
    BY <1>1 DEF See, n
  <2>3. [[g[1] EXCEPT ![n] = u] EXCEPT ![n] = v] = [g[1] EXCEPT ![n] = v]
        /\ DOMAIN [g[1] EXCEPT ![n] = u] = DOMAIN g[1]
    BY <2>1 DEF Strings
  <2> QED BY <2>2, <2>3 DEF Strings
<1>2. CASE q[1] = "elements"
  <2> DEFINE a == DimsOf(T)[q[2]].id
             i == q[3]
  <2>1. a \in StringArrays /\ i \in DOMAIN g[2][a]
    BY <1>2 DEF Spot, Shown
  <2>2. \A f, w : See(f, T, q, w) = <<f[1], [f[2] EXCEPT ![a] = [f[2][a] EXCEPT ![i] = w]]>>
    BY <1>2 DEF See
  <2> HIDE DEF a, i
  <2> DEFINE f2 == [g[2] EXCEPT ![a] = [g[2][a] EXCEPT ![i] = u]]
  <2>3. f2[a] = [g[2][a] EXCEPT ![i] = u] /\ DOMAIN f2 = DOMAIN g[2]
        /\ \A x : [f2 EXCEPT ![a] = x] = [g[2] EXCEPT ![a] = x]
    BY <2>1 DEF Strings
  <2>4. [f2[a] EXCEPT ![i] = v] = [g[2][a] EXCEPT ![i] = v]
    BY <2>1, <2>3
  <2>5. See(g, T, q, u) = <<g[1], f2>>
    BY <2>2
  <2> HIDE DEF f2
  <2>6. See(See(g, T, q, u), T, q, v) = <<g[1], [f2 EXCEPT ![a] = [f2[a] EXCEPT ![i] = v]]>>
    BY <2>2, <2>5
  <2>7. See(g, T, q, v) = <<g[1], [g[2] EXCEPT ![a] = [g[2][a] EXCEPT ![i] = v]]>>
    BY <2>2
  <2>8. [f2 EXCEPT ![a] = [f2[a] EXCEPT ![i] = v]] = [g[2] EXCEPT ![a] = [g[2][a] EXCEPT ![i] = v]]
    BY <2>3, <2>4
  <2>9. Strings(See(g, T, q, u))
    BY <2>3, <2>5 DEF Strings
  <2> QED BY <2>6, <2>7, <2>8, <2>9
<1> QED BY <1>1, <1>2 DEF Spot

(* Where a frame that has an address writes to.                            *)
Target(f, q) ==
  /\ Spot(tables, q) /\ f.of = {NameOf(tables, q)} /\ Value(tables, q) = f.old /\ Stands(f.at) = f.old
  /\ \A p : Writes(f.at, p) => tables' = Store(tables, q, p)

LEMMA TargetIs ==
  ASSUME NEW X, NEW s, NEW h, NEW R, Sound(X, s, h, tables, R),
         NEW f, f.fn \in Assigning, f.at # NoAddress, Aimed(f, tables)
  PROVE  \E q : Target(f, q)
<1>1. /\ VarsOf(tables) = variables /\ VarBlock(tables) = vartable
      /\ DimsOf(tables) = dimvariables /\ DimBlock(tables) = dimtable
  BY DEF tables, VarsOf, VarBlock, DimsOf, DimBlock
<1> DEFINE H == Held(s, tables, R)
<1>2. /\ Tabled(h, tables) /\ Own(DOMAIN h \ X, H) /\ Null \notin DOMAIN h
      /\ variables \in Seq(Scalar) /\ dimvariables \in Seq(Matrix) /\ Len(variables) \in Nat /\ Len(dimvariables) \in Nat
  BY <1>1, NoNull DEF Sound, Tabled
<1>3. Tells(H, s, tables)
  BY <1>2, HeldThere
<1> HIDE DEF H
<1>4. /\ <<"vartable", 0, 0>> \in Places /\ H[<<"vartable", 0, 0>>] = vartable
      /\ \A j \in 1 .. Len(dimvariables) :
           <<"arrays", j, 0>> \in Places /\ H[<<"arrays", j, 0>>] = dimvariables[j].data
  BY <1>1, <1>3 DEF Tells
<1>5. \A j, k \in 1 .. Len(dimvariables) :
        dimvariables[j].data = dimvariables[k].data /\ dimvariables[j].data # Null => j = k
  <2> SUFFICES ASSUME NEW j \in 1 .. Len(dimvariables), NEW k \in 1 .. Len(dimvariables),
                      dimvariables[j].data = dimvariables[k].data, dimvariables[j].data # Null
               PROVE  j = k
    OBVIOUS
  <2>0. /\ <<"arrays", j, 0>> \in Places /\ <<"arrays", k, 0>> \in Places
        /\ H[<<"arrays", j, 0>>] = H[<<"arrays", k, 0>>] /\ H[<<"arrays", j, 0>>] # Null
    BY <1>4
  <2>1. <<"arrays", j, 0>> = <<"arrays", k, 0>>
    BY ONLY <1>2, <2>0 DEF Own
  <2> QED BY <2>1
<1>6. \A j \in 1 .. Len(dimvariables) : dimvariables[j].data # Null => dimvariables[j].data # vartable
  <2> SUFFICES ASSUME NEW j \in 1 .. Len(dimvariables), dimvariables[j].data # Null, dimvariables[j].data = vartable
               PROVE  FALSE
    OBVIOUS
  <2>0. /\ <<"arrays", j, 0>> \in Places /\ <<"vartable", 0, 0>> \in Places
        /\ H[<<"arrays", j, 0>>] = H[<<"vartable", 0, 0>>] /\ H[<<"arrays", j, 0>>] # Null
    BY <1>4
  <2>1. <<"arrays", j, 0>> = <<"vartable", 0, 0>>
    BY ONLY <1>2, <2>0 DEF Own
  <2> QED BY <2>1
<1>7. CASE AtScalar(f, tables)
  <2> DEFINE i == f.at.index
             q == <<"variables", i, 0>>
  <2>1. i \in 1 .. Len(variables) /\ variables[i].id \in StringNames /\ f.at.block = vartable
        /\ f.of = {[name |-> variables[i].id]} /\ variables[i].sval = f.old
    BY <1>1, <1>7 DEF AtScalar
  <2>2. q \in Places /\ q[1] = "variables" /\ q[2] = i /\ q[3] = 0
    <3>1. i \in Nat
      BY <1>2, <2>1
    <3> QED BY <3>1, PlaceOf DEF Kinds
  <2> HIDE DEF q
  <2>3. Spot(tables, q) /\ NameOf(tables, q) = [name |-> variables[i].id] /\ Value(tables, q) = variables[i].sval
    BY <1>1, <2>1, <2>2 DEF Spot, NameOf, Value
  <2>4. Stands(f.at) = f.old
    BY <2>1 DEF Stands
  <2>5. ASSUME NEW p, Writes(f.at, p) PROVE tables' = Store(tables, q, p)
    <3>1. variables' = [variables EXCEPT ![i].sval = p] /\ UNCHANGED <<vartable, dimvariables, dimtable>>
      BY <2>1, <2>5 DEF Writes
    <3>2. variables[i] \in Scalar
      BY <1>2, <2>1
    <3>3. [variables EXCEPT ![i].sval = p] = [variables EXCEPT ![i] = ScalarWith(variables[i], p)]
      BY <1>2, <2>1, <3>2 DEF ScalarWith
    <3>4. tables' = <<[variables EXCEPT ![i] = ScalarWith(variables[i], p)], vartable, dimvariables, dimtable>>
      BY <3>1, <3>3 DEF tables
    <3> QED BY <1>1, <2>2, <3>4 DEF Store, VarSet
  <2> QED BY <2>1, <2>3, <2>4, <2>5 DEF Target
<1>8. ASSUME NEW j \in 1 .. Len(dimvariables), AtElement(f, tables, j) PROVE \E q : Target(f, q)
  <2> DEFINE i == f.at.index
             d == dimvariables[j]
             q == <<"elements", j, i>>
  <2>1. /\ i \in 1 .. Len(d.str) /\ d.id \in StringArrays /\ f.at.block = d.data
        /\ f.of = {[array |-> d.id, index |-> i]} /\ d.str[i] = f.old
    BY <1>1, <1>8 DEF AtElement
  <2>2. d \in Matrix /\ Sizable(h, d)
    BY <1>1, <1>2 DEF Tabled
  <2>3. d.str \in Seq(Ptr) /\ Len(d.str) \in Nat
    BY <2>2 DEF Matrix
  <2>4. d.data # Null
    BY <1>2, <2>1, <2>2 DEF Sizable
  <2>5. q \in Places /\ q[1] = "elements" /\ q[2] = j /\ q[3] = i
    <3>1. i \in Nat /\ j \in Nat
      BY <1>2, <2>1, <2>3
    <3> QED BY <3>1, PlaceOf DEF Kinds
  <2> HIDE DEF q
  <2>6. Spot(tables, q) /\ NameOf(tables, q) = [array |-> d.id, index |-> i] /\ Value(tables, q) = d.str[i]
    BY <1>1, <2>1, <2>5 DEF Spot, NameOf, Value
  <2>7. f.at.block # vartable /\ DOMAIN dimvariables = 1 .. Len(dimvariables)
        /\ \A k \in DOMAIN dimvariables : dimvariables[k].data = f.at.block => k = j
    BY <1>2, <1>5, <1>6, <2>1, <2>4
  <2>8. Stands(f.at) = f.old
    <3>1. (CHOOSE k \in DOMAIN dimvariables : dimvariables[k].data = f.at.block) = j
      BY <2>1, <2>7
    <3> QED BY <2>1, <2>7, <3>1 DEF Stands
  <2>9. ASSUME NEW p, Writes(f.at, p) PROVE tables' = Store(tables, q, p)
    <3>1. dimvariables' = [dimvariables EXCEPT ![j].str[i] = p] /\ UNCHANGED <<variables, vartable, dimtable>>
      BY <2>7, <2>9 DEF Writes
    <3>2. [dimvariables EXCEPT ![j].str[i] = p] = [dimvariables EXCEPT ![j] = MatrixWith(d, i, p)]
      BY <1>2, <2>1, <2>2, <2>3 DEF MatrixWith, Matrix
    <3>3. tables' = <<variables, vartable, [dimvariables EXCEPT ![j] = MatrixWith(d, i, p)], dimtable>>
      BY <3>1, <3>2 DEF tables
    <3> QED BY <1>1, <2>5, <3>3 DEF Store, DimSet
  <2> QED BY <2>1, <2>6, <2>8, <2>9 DEF Target
<1>9. AtScalar(f, tables) \/ \E j \in 1 .. Len(dimvariables) : AtElement(f, tables, j)
  BY <1>1 DEF Aimed
<1> QED BY <1>7, <1>8, <1>9

LEMMA SpotHeld ==
  ASSUME NEW X, NEW s, NEW h, NEW T, NEW R, Sound(X, s, h, T, R), Calm(s), NEW q, Spot(T, q)
  PROVE  Value(T, q) \in Ptr /\ (Value(T, q) # Null => Value(T, q) \in DOMAIN h \ X)
<1>1. /\ VarsOf(T) \in Seq(Scalar) /\ DimsOf(T) \in Seq(Matrix) /\ Unborn(s) = {}
  <2>1. Stacked(s, T)
    BY DEF Sound
  <2> QED BY <2>1, CalmIs DEF Sound, Tabled
<1>2. /\ \A i \in 1 .. Len(VarsOf(T)) : VarsOf(T)[i].sval # Null => VarsOf(T)[i].sval \in DOMAIN h \ X
      /\ \A j \in 1 .. Len(DimsOf(T)) : \A i \in 1 .. Len(DimsOf(T)[j].str) :
           DimsOf(T)[j].str[i] # Null => DimsOf(T)[j].str[i] \in DOMAIN h \ X
  BY <1>1, InUse
<1>3. CASE q[1] = "variables"
  <2>1. q[2] \in 1 .. Len(VarsOf(T)) /\ Value(T, q) = VarsOf(T)[q[2]].sval
    BY <1>3 DEF Spot, Value
  <2>2. VarsOf(T)[q[2]] \in Scalar
    BY <1>1, <2>1
  <2> QED BY <1>2, <2>1, <2>2 DEF Scalar
<1>4. CASE q[1] = "elements"
  <2>1. q[2] \in 1 .. Len(DimsOf(T)) /\ q[3] \in 1 .. Len(DimsOf(T)[q[2]].str) /\ Value(T, q) = DimsOf(T)[q[2]].str[q[3]]
    BY <1>4 DEF Spot, Value
  <2>2. DimsOf(T)[q[2]] \in Matrix
    BY <1>1, <2>1
  <2>3. DimsOf(T)[q[2]].str \in Seq(Ptr)
    BY <2>2 DEF Matrix
  <2> QED BY <1>2, <2>1, <2>3
<1> QED BY <1>3, <1>4 DEF Spot

LEMMA ReadsIs ==
  ASSUME NEW X, NEW h, Blocked(X, h), NEW p PROVE Reads(h, p) \in Texts \union {Unset}
BY DEF Reads

(* The string p, nobody's, is stored at q, and the one there is freed.     *)
LEMMA SetKeeps ==
  ASSUME NEW X, NEW s, NEW h, NEW T, NEW R, NEW g, NEW p \in Ptr, p \notin X, Null \notin X,
         Good(X \union ({p} \ {Null}), s, h, T, R, g), Calm(s), Strings(g),
         NEW q, Spot(T, q)
  PROVE  Good(X, s, free(h, {Value(T, q)}), Store(T, q, p), R, See(g, T, q, Reads(h, p)))
<1> DEFINE X1 == X \union ({p} \ {Null})
           old == Value(T, q)
           X2 == (X1 \ {p}) \union ({old} \ {Null})
<1>1. Good(X2, s, h, Store(T, q, p), R, See(g, T, q, Reads(h, p)))
  <2>1. p \in X1 \union {Null} /\ Good(X1, s, h, T, R, g)
    OBVIOUS
  <2> HIDE DEF X1
  <2> QED BY <2>1, StoreKeeps
<1>2. old # Null => old \notin X1
  <2>1. Sound(X1, s, h, T, R)
    BY DEF Good
  <2> HIDE DEF X1, old
  <2> QED BY <2>1, SpotHeld DEF old
<1>3. {old} \subseteq X2 \union {Null} /\ X2 \ {old} = X
  BY <1>2
<1> HIDE DEF X1, X2
<1>4. Good(X2 \ {old}, s, free(h, {old}), Store(T, q, p), R, See(g, T, q, Reads(h, p)))
  <2> HIDE DEF old
  <2> QED BY <1>1, <1>3, FreeKeeps
<1> QED BY <1>3, <1>4

(* A statement that assigns leaves the stack.                              *)
LEMMA AssigningEnds ==
  ASSUME NEW g, Here(g), stack # <<>>, Top.fn \in Assigning
  PROVE  /\ Good(lost \union (Pointers(arg) \ {Null}), Under, heap, tables, rest, g) /\ Calm(Under)
         /\ Pointers(arg) \ {Null} \subseteq DOMAIN heap \ lost /\ Null \notin lost
         /\ Len(arg) <= MaxArgs(Top.fn)
         /\ Top.at # NoAddress => \E q : Target(Top, q) /\ NameOf(tables, q) \in target
         /\ Top.fn = "LET" => Top.at # NoAddress
<1>1. /\ Top = stack[Len(stack)] /\ Top \in Frame /\ Under = Below(stack) /\ Stacked(stack, tables)
      /\ Pointers(arg) \ {Null} \subseteq DOMAIN heap \ lost /\ Null \notin lost
      /\ Good(lost, stack, heap, tables, rest, g)
  BY TopIs
<1>2. Top.fn \notin Parts /\ Top.fn \notin Lines /\ Top.fn # "DIM"
  BY DEF Assigning, Parts, Lines
<1>3. Good(lost \union (Pointers(arg) \ {Null}), Under, heap, tables, rest, g)
  <2>1. arg = stack[Len(stack)].args /\ stack[Len(stack)].fn # "DIM"
    BY <1>1, <1>2 DEF arg
  <2> DEFINE B == Pointers(arg) \ {Null}
  <2>2. B = Pointers(stack[Len(stack)].args) \ {Null}
    BY <2>1
  <2> HIDE DEF B
  <2>3. Good(lost \union B, Below(stack), heap, tables, rest, g)
    BY <1>1, <2>1, <2>2, PopKeeps
  <2> QED BY <1>1, <2>3 DEF B
<1>4. Calm(Under)
  BY <1>1, <1>2, ShapeIs
<1>5. Len(arg) <= MaxArgs(Top.fn)
  <2>1. {} \in SUBSET Pointers(arg)
    OBVIOUS
  <2> QED BY <1>2, <2>1, ProceedKeeps
<1>6. Aimed(Top, tables) /\ Len(stack) \in 1 .. Len(stack) /\ Top \in Aiming
  <2>1. stack \in Seq(Frame) /\ Len(stack) \in 1 .. Len(stack)
    BY <1>1 DEF Stacked
  <2>2. Aimed(Top, tables)
    BY <1>1, <2>1 DEF Stacked
  <2> QED BY <1>1, <2>1, <2>2, Fields
<1>7. ASSUME Top.at # NoAddress PROVE \E q : Target(Top, q) /\ NameOf(tables, q) \in target
  <2>1. PICK q : Target(Top, q)
    BY <1>1, <1>6, <1>7, TargetIs DEF Good
  <2>2. NameOf(tables, q) \in Top.of
    BY <2>1 DEF Target
  <2>3. Top \in Pointers(stack) /\ "of" \in DOMAIN Top
    BY <1>1, <1>6 DEF Pointers, Aiming, Stacked
  <2> QED BY <2>1, <2>2, <2>3 DEF target
<1>8. Top.fn = "LET" => Top.at # NoAddress
  BY <1>6 DEF Aimed, Assigning
<1> QED BY <1>1, <1>3, <1>4, <1>5, <1>7, <1>8

(* A step after which the program sees what it saw, but for the one string *)
(* the statement under way names.                                          *)
WroteAt(g, q, v) ==
  Spot(tables, q) /\ NameOf(tables, q) \in target /\ v \in Texts \union {Unset} /\ There(See(g, tables, q, v))
Wrote(g) == There(g) \/ \E q, v : WroteAt(g, q, v)

LEMMA LetKeeps ==
  ASSUME NEW g, Here(g), Strings(g), dolet PROVE Wrote(g)
<1>1. /\ outcome = "running" /\ stack # <<>> /\ Top.fn = "LET" /\ Len(arg) = 1
      /\ stack' = Done(Under) /\ rest' = rest /\ lost' = lost /\ outcome' = outcome
  BY DEF dolet, Has, In, Proceed, rest, system, arg
<1>2. PICK m \in IF arg[1] = Null THEN createstringarray(heap) ELSE {[p |-> arg[1], h |-> heap]} :
        Writes(Top.at, m.p) /\ heap' = free(m.h, {Top.old})
  BY DEF dolet
<1>3. /\ Good(lost \union (Pointers(arg) \ {Null}), Under, heap, tables, rest, g) /\ Calm(Under)
      /\ Pointers(arg) \ {Null} \subseteq DOMAIN heap \ lost /\ Null \notin lost
      /\ \E q : Target(Top, q) /\ NameOf(tables, q) \in target
  BY <1>1, AssigningEnds DEF Assigning
<1>4. PICK q : Target(Top, q) /\ NameOf(tables, q) \in target
  BY <1>3
<1>5. Pointers(arg) = {arg[1]} /\ arg[1] \in Ptr
  BY <1>1, TopIs
<1>6. m.p \in Ptr /\ m.p \notin lost /\ Good(lost \union ({m.p} \ {Null}), Under, m.h, tables, rest, g)
  <2>1. CASE arg[1] = Null
    <3>1. m \in Makes(heap) /\ Pointers(arg) \ {Null} = {} /\ lost \union {} = lost
      BY <1>2, <1>5, <2>1, MakesAll
    <3>2. Good(lost, Under, heap, tables, rest, g)
      BY <1>3, <3>1
    <3> QED BY <3>1, <3>2, MakeKeeps
  <2>2. CASE arg[1] # Null
    <3>1. m.p = arg[1] /\ m.h = heap
      BY <1>2, <2>2
    <3> QED BY <1>3, <1>5, <2>2, <3>1
  <2> QED BY <2>1, <2>2
<1>7. Spot(tables, q) /\ Value(tables, q) = Top.old /\ tables' = Store(tables, q, m.p)
  BY <1>2, <1>4 DEF Target
<1> DEFINE v == Reads(m.h, m.p)
<1>8. Good(lost, Under, free(m.h, {Value(tables, q)}), Store(tables, q, m.p), rest, See(g, tables, q, v))
  BY <1>3, <1>6, <1>7, SetKeeps
<1>9. v \in Texts \union {Unset}
  BY <1>6, ReadsIs DEF Good, Sound
<1> HIDE DEF v
<1>10. Good(lost, Done(Under), heap', tables', rest, See(g, tables, q, v))
  BY <1>2, <1>7, <1>8, DoneKeeps
<1>11. There(See(g, tables, q, v))
  BY <1>1, <1>10 DEF There
<1> QED BY <1>4, <1>7, <1>9, <1>11 DEF Wrote, WroteAt

(* A place that was emptied is filled later on.                            *)
Emptied(g, T, q, g1, T1) == \E u : T1 = Store(T, q, Null) /\ g1 = See(g, T, q, u)

LEMMA EmptyKeeps ==
  ASSUME NEW X, NEW s, NEW h, NEW T, NEW R, NEW g, Good(X, s, h, T, R, g), Calm(s), Strings(g),
         NEW q, Spot(T, q)
  PROVE  \E g1, T1 : Emptied(g, T, q, g1, T1) /\ Good(X \union ({Value(T, q)} \ {Null}), s, h, T1, R, g1)
<1>1. Null \in X \union {Null} /\ Null \notin X
  BY NoNull DEF Good, Sound
<1>2. Good((X \ {Null}) \union ({Value(T, q)} \ {Null}), s, h, Store(T, q, Null), R, See(g, T, q, Reads(h, Null)))
  BY <1>1, StoreKeeps
<1>3. X \ {Null} = X
  BY <1>1
<1>4. Emptied(g, T, q, See(g, T, q, Reads(h, Null)), Store(T, q, Null))
  BY DEF Emptied
<1> QED BY <1>2, <1>3, <1>4

LEMMA FillKeeps ==
  ASSUME NEW s, NEW T, NEW R, NEW g, NEW q, Spot(T, q), Strings(g), Calm(s),
         NEW h, Tabled(h, T), Shown(g, s, h, T),
         NEW g1, NEW T1, Emptied(g, T, q, g1, T1),
         NEW X, NEW w \in Ptr, w \notin X, Null \notin X, NEW h2,
         Good(X \union ({w} \ {Null}), s, h2, T1, R, g1)
  PROVE  Good(X, s, h2, Store(T, q, w), R, See(g, T, q, Reads(h2, w)))
<1>1. PICK u : T1 = Store(T, q, Null) /\ g1 = See(g, T, q, u)
  BY DEF Emptied
<1>2. /\ Spot(T1, q) /\ Value(T1, q) = Null /\ Store(T1, q, w) = Store(T, q, w)
      /\ \A f, v : See(f, T1, q, v) = See(f, T, q, v)
  <2>1. Null \in Ptr
    BY DEF Ptr
  <2> QED BY <1>1, <2>1, StoreIs
<1>3. Strings(g1) /\ \A v : See(g1, T, q, v) = See(g, T, q, v)
  BY <1>1, SeeIs
<1> DEFINE X1 == X \union ({w} \ {Null})
<1>4. w \in X1 \union {Null} /\ (X1 \ {w}) \union ({Null} \ {Null}) = X
  OBVIOUS
<1> HIDE DEF X1
<1>5. Good(X1, s, h2, T1, R, g1)
  BY DEF X1
<1>6. Good((X1 \ {w}) \union ({Value(T1, q)} \ {Null}), s, h2, Store(T1, q, w), R, See(g1, T1, q, Reads(h2, w)))
  BY <1>2, <1>3, <1>4, <1>5, StoreKeeps
<1> QED BY <1>2, <1>3, <1>4, <1>6

(* MID$ = writes into the string, or into a copy of it that is longer.     *)
LEMMA MidKeeps ==
  ASSUME NEW g, Here(g), Strings(g), domidstring PROVE Wrote(g)
<1>1. /\ outcome = "running" /\ stack # <<>> /\ Top.fn = "MID" /\ Len(arg) = 1
      /\ stack' = Done(Under) /\ rest' = rest /\ lost' = lost /\ outcome' = outcome
  BY DEF domidstring, Has, In, Proceed, rest, system, arg
<1>2. Pointers(arg) = {arg[1]} /\ arg[1] \in Ptr
  BY <1>1, TopIs
<1>3. CASE arg[1] = Null \/ Top.at = NoAddress
  <2>1. heap' = free(heap, Pointers(arg)) /\ tables' = tables
    BY <1>3 DEF domidstring, tables
  <2>2. Good(lost \union ((Pointers(arg) \ Pointers(arg)) \ {Null}), Done(Under), free(heap, Pointers(arg)), tables, rest, g)
    BY <1>1, ProceedKeeps
  <2>3. lost \union ((Pointers(arg) \ Pointers(arg)) \ {Null}) = lost
    OBVIOUS
  <2> QED BY <1>1, <2>1, <2>2, <2>3 DEF Wrote, There
<1>4. CASE arg[1] # Null /\ Top.at # NoAddress
  <2>0. \E e \in IF Stands(Top.at) = Null THEN createstringarray(heap) ELSE {[p |-> Stands(Top.at), h |-> heap]} :
        \E t \in Texts :
        \E m \in IF e.p = Null THEN {e} ELSE realloc(e.h, e.p, Text(t)) :
          Writes(Top.at, IF m.p = Null THEN e.p ELSE m.p) /\ heap' = free(m.h, Pointers(arg))
    BY <1>4 DEF domidstring
  <2>1. PICK e \in IF Stands(Top.at) = Null THEN createstringarray(heap) ELSE {[p |-> Stands(Top.at), h |-> heap]} :
        \E t \in Texts :
        \E m \in IF e.p = Null THEN {e} ELSE realloc(e.h, e.p, Text(t)) :
          Writes(Top.at, IF m.p = Null THEN e.p ELSE m.p) /\ heap' = free(m.h, Pointers(arg))
    BY ONLY <2>0
  <2>2. PICK t \in Texts : 
        \E m \in IF e.p = Null THEN {e} ELSE realloc(e.h, e.p, Text(t)) :
          Writes(Top.at, IF m.p = Null THEN e.p ELSE m.p) /\ heap' = free(m.h, Pointers(arg))
    BY ONLY <2>1
  <2>3. PICK m \in IF e.p = Null THEN {e} ELSE realloc(e.h, e.p, Text(t)) :
          Writes(Top.at, IF m.p = Null THEN e.p ELSE m.p) /\ heap' = free(m.h, Pointers(arg))
    BY ONLY <2>2
  <2> DEFINE X == lost \union {arg[1]}
             w == IF m.p = Null THEN e.p ELSE m.p
  <2>4. /\ Good(lost \union (Pointers(arg) \ {Null}), Under, heap, tables, rest, g) /\ Calm(Under)
        /\ Pointers(arg) \ {Null} \subseteq DOMAIN heap \ lost /\ Null \notin lost
        /\ \E q : Target(Top, q) /\ NameOf(tables, q) \in target
    BY <1>1, <1>4, AssigningEnds DEF Assigning
  <2>5. PICK q : Target(Top, q) /\ NameOf(tables, q) \in target
    BY <2>4
  <2>6. Spot(tables, q) /\ Value(tables, q) = Stands(Top.at) /\ tables' = Store(tables, q, w)
    BY <2>3, <2>5 DEF Target
  <2>7. Good(X, Under, heap, tables, rest, g) /\ Null \notin X /\ arg[1] \notin lost
    <3>1. lost \union (Pointers(arg) \ {Null}) = X
      BY <1>2, <1>4
    <3> QED BY <1>2, <1>4, <2>4, <3>1
  <2> DEFINE old == Value(tables, q)
  <2>8. Sound(X, Under, heap, tables, rest) /\ Tabled(heap, tables) /\ Shown(g, Under, heap, tables) /\ X \subseteq DOMAIN heap
    BY <2>7 DEF Good, Sound, Blocked
  <2>9. old \in Ptr /\ (old # Null => old \in DOMAIN heap \ X)
    <3> HIDE DEF X
    <3> QED BY <2>4, <2>6, <2>8, SpotHeld
  <2> HIDE DEF X, w, old
  <2>10. PICK g1, T1 : Emptied(g, tables, q, g1, T1) /\ Good(X \union ({old} \ {Null}), Under, heap, T1, rest, g1)
    BY <2>4, <2>6, <2>7, EmptyKeeps DEF old
  <2>11. e.p \in Ptr /\ e.p \notin X /\ Good(X \union ({e.p} \ {Null}), Under, e.h, T1, rest, g1)
    <3>1. CASE old = Null
      <4>1. e \in Makes(heap) /\ X \union ({old} \ {Null}) = X
        BY <2>1, <2>6, <3>1, MakesAll DEF old
      <4> QED BY <2>10, <4>1, MakeKeeps
    <3>2. CASE old # Null
      <4>1. e.p = old /\ e.h = heap
        BY <2>1, <2>6, <3>2 DEF old
      <4> QED BY <2>9, <2>10, <3>2, <4>1
    <3> QED BY <3>1, <3>2
  <2>12. w \in Ptr /\ w \notin X /\ Good(X \union ({w} \ {Null}), Under, m.h, T1, rest, g1)
    <3>1. CASE m.p = Null
      <4>1. w = e.p /\ m.h = e.h
        <5>1. CASE e.p = Null
          BY <2>3, <3>1, <5>1 DEF w
        <5>2. CASE e.p # Null
          <6>1. m \in realloc(e.h, e.p, Text(t))
            BY <2>3, <5>2
          <6> QED BY <3>1, <6>1, ReallocNew DEF w
        <5> QED BY <5>1, <5>2
      <4> QED BY <2>11, <4>1
    <3>2. CASE m.p # Null
      <4>1. e.p # Null
        BY <2>3, <3>2
      <4>2. m \in realloc(e.h, e.p, Text(t)) /\ w = m.p
        BY <2>3, <3>2, <4>1 DEF w
      <4> DEFINE X1 == X \union ({e.p} \ {Null})
      <4>3. Good(X1, Under, e.h, T1, rest, g1) /\ e.p \in X1 \union {Null} /\ X1 \ {e.p} = X /\ X \subseteq X1
        BY <2>11, <4>1
      <4> HIDE DEF X1
      <4>4. Text(t) \in Content
        BY DEF Text, Content
      <4>5. m.p \in Ptr /\ Good((X1 \ {e.p}) \union {m.p}, Under, m.h, T1, rest, g1)
        BY <3>2, <4>2, <4>3, <4>4, ReallocKeeps
      <4>6. m.p = e.p \/ m.p \notin DOMAIN e.h
        BY <3>2, <4>2, ReallocNew
      <4>7. X1 \subseteq DOMAIN e.h
        BY <4>3 DEF Good, Sound, Blocked
      <4>8. m.p \notin X /\ X \union ({m.p} \ {Null}) = X \union {m.p}
        BY <2>11, <3>2, <4>3, <4>6, <4>7
      <4> QED BY <4>2, <4>3, <4>5, <4>8
    <3> QED BY <3>1, <3>2
  <2> DEFINE v == Reads(m.h, w)
  <2>13. Good(X, Under, m.h, Store(tables, q, w), rest, See(g, tables, q, v))
    BY <2>4, <2>6, <2>7, <2>8, <2>10, <2>12, FillKeeps
  <2>14. v \in Texts \union {Unset}
    BY <2>12, ReadsIs DEF Good, Sound
  <2> HIDE DEF v
  <2>15. Pointers(arg) \subseteq X \union {Null} /\ X \ Pointers(arg) = lost
    BY <1>2, <2>7 DEF X
  <2>16. Good(X \ Pointers(arg), Under, free(m.h, Pointers(arg)), Store(tables, q, w), rest, See(g, tables, q, v))
    BY <2>13, <2>15, FreeKeeps
  <2>17. Good(lost, Done(Under), heap', tables', rest, See(g, tables, q, v))
    BY <2>3, <2>6, <2>15, <2>16, DoneKeeps
  <2>18. There(See(g, tables, q, v))
    BY <1>1, <2>17 DEF There
  <2> QED BY <2>5, <2>6, <2>14, <2>18 DEF Wrote, WroteAt
<1> QED BY <1>3, <1>4

(* The line that was typed is used up.                                     *)
LEMMA InputEnds ==
  ASSUME NEW X, NEW s, NEW h, NEW T, NEW R, NEW g, Good(X, s, h, T, R, g),
         NEW R2, R2 = <<R[1], R[2], Null>>
  PROVE  Good(X, s, free(h, {R[3]}), T, R2, g)
<1>1. Sound(X, s, h, T, R) /\ Null \notin X /\ Null \in X \union {Null}
  BY NoNull DEF Good, Sound
<1> DEFINE X1 == (X \ {Null}) \union ({R[3]} \ {Null})
<1>2. Good(X1, s, h, T, R2, g)
  BY <1>1, InputKeeps
<1>3. R[3] # Null => R[3] \in DOMAIN h \ X
  BY <1>1, InUse
<1>4. {R[3]} \subseteq X1 \union {Null} /\ X1 \ {R[3]} = X
  BY <1>1, <1>3
<1> HIDE DEF X1
<1>5. Good(X1 \ {R[3]}, s, free(h, {R[3]}), T, R2, g)
  BY <1>2, <1>4, FreeKeeps
<1> QED BY <1>4, <1>5

LEMMA InputsKeep ==
  ASSUME NEW g, Here(g), Strings(g), doinput PROVE Wrote(g)
<1>1. /\ outcome = "running" /\ stack # <<>> /\ Top.fn = "INPUT"
      /\ stack' = Done(Under) /\ rest' = <<labels, files, Null>> /\ lost' = lost /\ outcome' = outcome
  BY DEF doinput, In, Proceed, rest
<1>2. rest[1] = labels /\ rest[2] = files /\ rest[3] = curinputptr
  BY DEF rest
<1>3. /\ Good(lost \union (Pointers(arg) \ {Null}), Under, heap, tables, rest, g) /\ Calm(Under)
      /\ Len(arg) <= MaxArgs(Top.fn) /\ Null \notin lost
      /\ Top.at # NoAddress => \E q : Target(Top, q) /\ NameOf(tables, q) \in target
  BY <1>1, AssigningEnds DEF Assigning
<1>4. Good(lost, Under, heap, tables, rest, g)
  <2>1. MaxArgs(Top.fn) = 0
    BY <1>1 DEF MaxArgs
  <2>2. Len(arg) = 0
    BY <1>1, <1>3, <2>1, TopIs
  <2>3. Pointers(arg) = {}
    BY <1>1, <2>2, TopIs
  <2>4. lost \union (Pointers(arg) \ {Null}) = lost
    BY <2>3
  <2> QED BY <1>3, <2>4
<1>5. CASE curinputptr = Null \/ Top.at = NoAddress
  <2>1. tables' = tables /\ heap' = free(heap, {curinputptr})
    BY <1>5 DEF doinput, tables
  <2>2. Good(lost, Under, free(heap, {curinputptr}), tables, rest', g)
    BY <1>1, <1>2, <1>4, InputEnds
  <2>3. Good(lost, Done(Under), free(heap, {curinputptr}), tables, rest', g)
    BY <2>2, DoneKeeps
  <2> QED BY <1>1, <2>1, <2>3 DEF There, Wrote
<1>6. CASE curinputptr # Null /\ Top.at # NoAddress
  <2>1. PICK m \in createstringarray(free(heap, {Stands(Top.at)})) :
          Writes(Top.at, m.p) /\ heap' = free(m.h, {curinputptr})
    BY <1>6 DEF doinput
  <2>2. PICK q : Target(Top, q) /\ NameOf(tables, q) \in target
    BY <1>3, <1>6
  <2> DEFINE old == Value(tables, q)
             X1 == lost \union ({old} \ {Null})
  <2>3. Spot(tables, q) /\ old = Stands(Top.at) /\ tables' = Store(tables, q, m.p)
    BY <2>1, <2>2 DEF Target
  <2>4. Sound(lost, Under, heap, tables, rest) /\ Tabled(heap, tables) /\ Shown(g, Under, heap, tables)
    BY <1>4 DEF Good, Sound
  <2>5. old \in Ptr /\ (old # Null => old \in DOMAIN heap \ lost)
    BY <1>3, <2>3, <2>4, SpotHeld
  <2>6. {old} \subseteq X1 \union {Null} /\ X1 \ {old} = lost
    BY <1>3, <2>5
  <2>7. PICK g1, T1 : Emptied(g, tables, q, g1, T1) /\ Good(X1, Under, heap, T1, rest, g1)
    BY <1>3, <1>4, <2>3, EmptyKeeps
  <2> HIDE DEF X1, old
  <2>8. Good(X1 \ {old}, Under, free(heap, {old}), T1, rest, g1)
    BY <2>6, <2>7, FreeKeeps
  <2>9. Good(lost, Under, free(heap, {old}), T1, rest, g1)
    BY <2>6, <2>8
  <2>10. m \in Makes(free(heap, {old}))
    BY <2>1, <2>3, MakesAll
  <2>11. m.p \in Ptr /\ m.p \notin lost /\ Good(lost \union ({m.p} \ {Null}), Under, m.h, T1, rest, g1)
    BY <2>9, <2>10, MakeKeeps
  <2> DEFINE v == Reads(m.h, m.p)
  <2>12. Good(lost, Under, m.h, Store(tables, q, m.p), rest, See(g, tables, q, v))
    BY <1>3, <2>3, <2>4, <2>7, <2>11, FillKeeps
  <2>13. v \in Texts \union {Unset}
    BY <2>11, ReadsIs DEF Good, Sound
  <2> HIDE DEF v
  <2>14. Good(lost, Under, free(m.h, {curinputptr}), Store(tables, q, m.p), rest', See(g, tables, q, v))
    BY <1>1, <1>2, <2>12, InputEnds
  <2>15. Good(lost, Done(Under), heap', tables', rest', See(g, tables, q, v))
    BY <2>1, <2>3, <2>14, DoneKeeps
  <2>16. There(See(g, tables, q, v))
    BY <1>1, <2>15 DEF There
  <2> QED BY <2>2, <2>3, <2>13, <2>16 DEF Wrote, WroteAt
<1> QED BY <1>5, <1>6

-----------------------------------------------------------------------------
(* DIM                                                                     *)

\* What is held where array j is d.
InArray(d, j, r) ==
  IF r[1] = "arrays" THEN d.data ELSE IF r[3] \in 1 .. Len(d.str) THEN d.str[r[3]] ELSE Null
OfArray(j, r) == r[2] = j /\ (r[1] = "elements" \/ (r[1] = "arrays" /\ r[3] = 0))

LEMMA ArrayHeld ==
  ASSUME NEW s, NEW T, NEW R, Unborn(s) = {}, NEW j \in 1 .. Len(DimsOf(T)), NEW d, NEW T2, DimAt(T, T2, j, d),
         NEW r \in Places
  PROVE  /\ OfArray(j, r) => /\ Held(s, T, R)[r] = InArray(DimsOf(T)[j], j, r)
                             /\ Held(s, T2, R)[r] = InArray(d, j, r)
         /\ ~OfArray(j, r) => Held(s, T2, R)[r] = Held(s, T, R)[r]
<1>1. Held(s, T2, R)[r] = Holding(s, T2, R, r) /\ Held(s, T, R)[r] = Holding(s, T, R, r)
  BY HeldAt
<1>2. DimsOf(T2)[j] = d /\ Len(DimsOf(T2)) = Len(DimsOf(T))
  BY DEF DimAt
<1>3. ASSUME OfArray(j, r)
      PROVE  Holding(s, T, R, r) = InArray(DimsOf(T)[j], j, r) /\ Holding(s, T2, R, r) = InArray(d, j, r)
  BY <1>2, <1>3 DEF Holding, InArray, OfArray
<1>4. ASSUME ~OfArray(j, r) PROVE Holding(s, T2, R, r) = Holding(s, T, R, r)
  <2>1. CASE r[1] \notin {"arrays", "elements"}
    BY <2>1 DEF Holding, DimAt
  <2>2. CASE r[1] \in {"arrays", "elements"} /\ r[2] # j
    <3>1. r[2] \in 1 .. Len(DimsOf(T)) => DimsOf(T2)[r[2]] = DimsOf(T)[r[2]]
      BY <2>2 DEF DimAt
    <3> QED BY <1>2, <2>2, <3>1 DEF Holding
  <2>3. CASE r[1] = "arrays" /\ r[3] # 0
    BY <2>3 DEF Holding
  <2> QED BY <1>4, <2>1, <2>2, <2>3 DEF OfArray
<1> QED BY <1>1, <1>3, <1>4

(* The elements in Q of an array are forgotten, and their strings freed.   *)
Cut(d, d2, Q) ==
  /\ Q \subseteq 1 .. Len(d.str) /\ d2 \in Matrix /\ d2.id = d.id /\ d2.data = d.data
  /\ Len(d2.str) = Len(d.str) /\ \A k \in 1 .. Len(d.str) : d2.str[k] = IF k \in Q THEN Null ELSE d.str[k]
CutOff(d, Q) == {d.str[k] : k \in Q}
CutSeen(g, f, d, Q) == d.id \in StringArrays =>
  /\ DOMAIN f = 1 .. Len(d.str)
  /\ \A k \in 1 .. Len(d.str) : f[k] = IF k \in Q THEN Unset ELSE g[2][d.id][k]

LEMMA CutKeeps ==
  ASSUME NEW X, NEW s, NEW h, NEW T, NEW R, NEW g, Good(X, s, h, T, R, g), Calm(s),
         NEW j \in 1 .. Len(DimsOf(T)), NEW c, c = DimsOf(T)[j], NEW Q, NEW d, Cut(c, d, Q),
         NEW f, CutSeen(g, f, c, Q), NEW g2, SeesArray(g, g2, c.id, f)
  PROVE  Good(X, s, free(h, CutOff(c, Q)), DimSet(T, j, d), R, g2)
<1> DEFINE T2 == DimSet(T, j, d)
           H == Held(s, T, R)
           H2 == Held(s, T2, R)
           P == {c.str[k] : k \in Q}
           B == P \ {Null}
           X2 == X \union B
<1>1. /\ Blocked(X, h) /\ Tabled(h, T) /\ Filed(R) /\ Stacked(s, T) /\ s \in Seq(Frame)
      /\ Own(DOMAIN h \ X, H) /\ Shown(g, s, h, T) /\ Ordered(DimsOf(T)) /\ c \in Matrix
      /\ Null \notin DOMAIN h /\ X \subseteq DOMAIN h
  BY NoNull DEF Good, Sound, Stacked, Tabled, Blocked
<1>2. DimAt(T, T2, j, d) /\ Tabled(h, T2)
  <2>1. /\ Roomy(h, VarsOf(T), VarBlock(T)) /\ Roomy(h, DimsOf(T), DimBlock(T))
        /\ \A k \in 1 .. Len(DimsOf(T)) : Sizable(h, DimsOf(T)[k])
    BY <1>1 DEF Tabled
  <2>2. d \in Matrix /\ d.id = c.id /\ d.data = c.data /\ Len(d.str) = Len(c.str) /\ c.str \in Seq(Ptr)
        /\ d.str \in Seq(Ptr)
    BY <1>1 DEF Cut, Matrix
  <2>3. c.str = <<>> => d.str = <<>>
    BY <2>2
  <2>4. Sizable(h, d) /\ (d.id \notin StringArrays => d.str = <<>>)
    <3>1. Sizable(h, c) /\ (c.id \notin StringArrays => c.str = <<>>)
      BY <1>1, <2>1 DEF Tabled
    <3> QED BY <2>2, <2>3, <3>1 DEF Sizable
  <2> HIDE DEF T2
  <2> QED BY <1>1, <2>1, <2>2, <2>4, DimSetIs DEF T2
<1> HIDE DEF T2
<1>3. Stacked(s, T2) /\ Unborn(s) = {}
  BY <1>1, CalmIs
<1>4. H2 \in [Places -> Ptr]
  BY <1>1, <1>2, HeldType
<1> DEFINE S == {r \in Places : r[1] = "elements" /\ r[2] = j /\ r[3] \in Q}
<1>5. ASSUME NEW k \in Q PROVE <<"elements", j, k>> \in S /\ H[<<"elements", j, k>>] = c.str[k]
  <2>1. Tells(H, s, T)
    BY <1>1, HeldThere
  <2>2. k \in 1 .. Len(c.str) /\ j \in 1 .. Len(DimsOf(T))
    BY DEF Cut
  <2> HIDE DEF H
  <2> QED BY <1>3, <2>1, <2>2 DEF Tells
<1>6. ASSUME NEW r \in S PROVE H[r] = c.str[r[3]] /\ r[3] \in Q
  <2>1. OfArray(j, r) /\ r \in Places /\ r[1] = "elements" /\ r[3] \in Q /\ r[3] \in 1 .. Len(c.str)
    BY DEF OfArray, Cut
  <2>2. H[r] = InArray(c, j, r)
    BY <1>2, <1>3, <2>1, ArrayHeld
  <2> QED BY <2>1, <2>2 DEF InArray
<1>7. ASSUME NEW r \in Places PROVE H2[r] = IF r \in S THEN Null ELSE H[r]
  <2>1. CASE OfArray(j, r)
    <3>1. H[r] = InArray(c, j, r) /\ H2[r] = InArray(d, j, r)
      BY <1>2, <1>3, <2>1, ArrayHeld
    <3> HIDE DEF H, H2
    <3> QED BY <2>1, <3>1 DEF InArray, OfArray, Cut
  <2>2. CASE ~OfArray(j, r)
    <3>1. H2[r] = H[r]
      BY <1>2, <1>3, <2>2, ArrayHeld
    <3>2. r \notin S
      BY <2>2 DEF OfArray
    <3> QED BY <3>1, <3>2
  <2> QED BY <2>1, <2>2
<1>8. B \subseteq DOMAIN h \ X
  <2> SUFFICES ASSUME NEW k \in Q, c.str[k] # Null PROVE c.str[k] \in DOMAIN h \ X
    OBVIOUS
  <2>1. H[<<"elements", j, k>>] = c.str[k] /\ <<"elements", j, k>> \in Places
    BY <1>5
  <2> HIDE DEF H
  <2> QED BY <1>1, <2>1 DEF Own
<1>9. Own((DOMAIN h \ X) \ B, H2)
  <2>1. S \in SUBSET Places /\ (\A b \in B : \E r \in S : b = H[r]) /\ \A r \in S : H[r] # Null => H[r] \in B
    <3>1. ASSUME NEW b \in B PROVE \E r \in S : b = H[r]
      <4>1. PICK k \in Q : b = c.str[k]
        OBVIOUS
      <4> QED BY <1>5, <4>1
    <3>2. \A r \in S : H[r] # Null => H[r] \in B
      BY <1>6
    <3> QED BY <3>1, <3>2
  <2> HIDE DEF S, B, H, H2
  <2> QED BY <1>1, <1>4, <1>7, <2>1, OwnDrop
<1>10. Blocked(X2, h) /\ Own(DOMAIN h \ X2, H2)
  <2>1. (DOMAIN h \ X) \ B = DOMAIN h \ X2 /\ X2 \subseteq DOMAIN h
    BY <1>1, <1>8
  <2> QED BY <1>1, <1>9, <2>1 DEF Blocked
<1>11. Shown(g2, s, h, T2)
  <2>1. Alone(j, s, h, s, h, T)
    BY DEF Alone
  <2>2. Seen(f, d, j, s, h)
    <3>1. c.id \in StringArrays => \A k \in 1 .. Len(c.str) : g[2][c.id][k] = Reads(h, c.str[k])
      BY <1>1, <1>3 DEF Shown
    <3>2. Reads(h, Null) = Unset
      BY <1>1 DEF Reads
    <3> QED BY <3>1, <3>2 DEF Seen, CutSeen, Cut
  <2>3. c.id = d.id
    BY DEF Cut
  <2> QED BY <1>1, <1>2, <2>1, <2>2, <2>3, DimShown
<1>12. Good(X2, s, h, T2, R, g2)
  BY <1>1, <1>2, <1>3, <1>10, <1>11 DEF Good, Sound
<1>13. P \subseteq X2 \union {Null} /\ X2 \ P = X
  BY <1>1, <1>8
<1> HIDE DEF X2, P
<1>14. Good(X2 \ P, s, free(h, P), T2, R, g2)
  BY <1>12, <1>13, FreeKeeps
<1> QED BY <1>13, <1>14 DEF T2, P, CutOff

(* The elements of an array are in a block of n, where those that were cut *)
(* off have no string.                                                     *)
Fitted(c, d, p, n) ==
  /\ d \in Matrix /\ d.id = c.id /\ d.data = p
  /\ c.id \notin StringArrays => d.str = <<>>
  /\ c.id \in StringArrays =>
       /\ Len(d.str) = n /\ \A k \in 1 .. n : d.str[k] = IF k \in 1 .. Len(c.str) THEN c.str[k] ELSE Null
       /\ \A k \in 1 .. Len(c.str) : k \notin 1 .. n => c.str[k] = Null
FitSeen(g, f, c, n) == c.id \in StringArrays =>
  /\ DOMAIN f = 1 .. n
  /\ \A k \in 1 .. n : f[k] = IF k \in 1 .. Len(c.str) THEN g[2][c.id][k] ELSE Unset

LEMMA FitKeeps ==
  ASSUME NEW X, NEW s, NEW h, NEW T, NEW R, NEW g, Good(X, s, h, T, R, g), Calm(s),
         NEW j \in 1 .. Len(DimsOf(T)), NEW c, c = DimsOf(T)[j], NEW n \in Nat,
         NEW t, t = c.data, NEW m \in realloc(h, t, Table(n)), m.p # Null, NEW d, Fitted(c, d, m.p, n),
         NEW f, FitSeen(g, f, c, n), NEW g2, SeesArray(g, g2, c.id, f)
  PROVE  Good(X, s, m.h, DimSet(T, j, d), R, g2)
<1> DEFINE T2 == DimSet(T, j, d)
           H == Held(s, T, R)
           H2 == Held(s, T2, R)
           q == <<"arrays", j, 0>>
           H1 == Moved(H, q, m.p)
<1>1. /\ Blocked(X, h) /\ Tabled(h, T) /\ Filed(R) /\ Stacked(s, T) /\ s \in Seq(Frame) /\ Sound(X, s, h, T, R)
      /\ Own(DOMAIN h \ X, H) /\ Shown(g, s, h, T) /\ Ordered(DimsOf(T)) /\ c \in Matrix
      /\ c.id \notin StringArrays => c.str = <<>>
  BY DEF Good, Sound, Stacked, Tabled
<1>2. q \in Places /\ t = H[q] /\ q[1] = "arrays" /\ Unborn(s) = {}
  <2>1. Tells(H, s, T)
    BY <1>1, HeldThere
  <2>2. q \in Places /\ H[q] = c.data
    BY <2>1 DEF Tells
  <2> QED BY <1>1, <2>2, CalmIs
<1>3. /\ Added(X, h, H, q, H1, m.h) /\ H1[q] = m.p
      /\ m.p \in DOMAIN m.h \ X /\ m.h[m.p] = Table(n) /\ m.p \in Ptr
  <2>1. /\ Blocked(X, h) /\ Own(DOMAIN h \ X, H) /\ q \in Places /\ n \in Nat /\ t = H[q]
        /\ m \in realloc(h, t, Table(n)) /\ m.p # Null
    BY <1>1, <1>2
  <2> HIDE DEF H, q
  <2> QED BY ONLY <2>1, TableMoves
<1>4. /\ Blocked(X, m.h) /\ Own(DOMAIN m.h \ X, H1) /\ Null \notin DOMAIN m.h /\ H1 \in [Places -> Ptr]
      /\ \A r \in Places : r # q => H1[r] = H[r]
      /\ \A b \in DOMAIN h \ X : b # H[q] => b \in DOMAIN m.h /\ m.h[b] = h[b]
  <2> HIDE DEF H, q, H1
  <2> QED BY <1>3, NoNull DEF Added
<1> HIDE DEF H1
<1>5. Unmoved(q, s, h, m.h, T)
  <2> HIDE DEF q
  <2> QED BY <1>1, <1>2, <1>4, Elsewhere
<1>6. DimAt(T, T2, j, d) /\ Tabled(m.h, T2)
  <2>1. /\ Roomy(m.h, VarsOf(T), VarBlock(T)) /\ Roomy(m.h, DimsOf(T), DimBlock(T))
        /\ \A k \in 1 .. Len(DimsOf(T)) : k # j => Sizable(m.h, DimsOf(T)[k])
    BY <1>5 DEF Unmoved
  <2>2. Sizable(m.h, d)
    <3>1. d.data \in DOMAIN m.h /\ m.h[d.data] = [room |-> n]
      BY <1>3 DEF Fitted, Table
    <3>2. d.str = <<>> \/ Len(d.str) <= n
      BY DEF Fitted
    <3> QED BY <3>1, <3>2 DEF Sizable
  <2>3. d \in Matrix /\ d.id = c.id /\ (d.id \notin StringArrays => d.str = <<>>)
    BY DEF Fitted
  <2> HIDE DEF T2
  <2> QED BY <1>1, <2>1, <2>2, <2>3, DimSetIs DEF T2
<1> HIDE DEF T2
<1>7. Stacked(s, T2)
  BY <1>1, CalmIs
<1>8. H2 \in [Places -> Ptr]
  BY <1>1, <1>6, HeldType
<1>9. ASSUME NEW r \in Places PROVE H2[r] = H1[r]
  <2>0. r = <<r[1], r[2], r[3]>>
    BY PlaceIs
  <2>1. CASE OfArray(j, r)
    <3>1. H[r] = InArray(c, j, r) /\ H2[r] = InArray(d, j, r)
      BY <1>2, <1>6, <2>1, ArrayHeld
    <3> HIDE DEF H, H2
    <3>2. CASE r[1] = "arrays"
      <4>1. r = q /\ H2[r] = d.data
        BY <2>0, <2>1, <3>1, <3>2 DEF OfArray, InArray
      <4> QED BY <1>3, <4>1 DEF Fitted
    <3>3. CASE r[1] = "elements"
      <4>1. r # q /\ H1[r] = H[r]
        BY <1>4, <3>3
      <4>2. InArray(c, j, r) = InArray(d, j, r)
        <5>1. CASE c.id \notin StringArrays
          BY <1>1, <3>3, <5>1 DEF InArray, Fitted
        <5>2. CASE c.id \in StringArrays
          BY <3>3, <5>2 DEF InArray, Fitted
        <5> QED BY <5>1, <5>2
      <4> QED BY <3>1, <4>1, <4>2
    <3> QED BY <2>1, <3>2, <3>3 DEF OfArray
  <2>2. CASE ~OfArray(j, r)
    <3>1. H2[r] = H[r]
      BY <1>2, <1>6, <2>2, ArrayHeld
    <3>2. r # q
      BY <2>2 DEF OfArray
    <3> QED BY <1>4, <3>1, <3>2
  <2> QED BY <2>1, <2>2
<1>10. H2 = H1
  <2> HIDE DEF H, H2
  <2> QED BY <1>4, <1>8, <1>9
<1>11. Shown(g2, s, m.h, T2)
  <2>1. Alone(j, s, h, s, m.h, T)
    <3>1. \A k \in 1 .. Len(DimsOf(T)) : \A i : k # j /\ <<k, i>> \notin Unborn(s) => <<k, i>> \notin Unborn(s)
      OBVIOUS
    <3> QED BY <1>5, <3>1 DEF Alone, Unmoved
  <2>2. Seen(f, d, j, s, m.h)
    <3> SUFFICES ASSUME c.id \in StringArrays
                 PROVE  DOMAIN f = 1 .. n /\ Len(d.str) = n /\ \A k \in 1 .. n : f[k] = Reads(m.h, d.str[k])
      BY DEF Seen, Fitted
    <3>1. Len(d.str) = n /\ DOMAIN f = 1 .. n
      BY DEF Fitted, FitSeen
    <3>2. ASSUME NEW k \in 1 .. n PROVE f[k] = Reads(m.h, d.str[k])
      <4>1. CASE k \in 1 .. Len(c.str)
        <5>1. f[k] = g[2][c.id][k] /\ d.str[k] = c.str[k]
          BY <4>1 DEF Fitted, FitSeen
        <5>2. g[2][c.id][k] = Reads(h, c.str[k])
          BY <1>1, <1>2, <4>1 DEF Shown
        <5>3. Reads(m.h, c.str[k]) = Reads(h, c.str[k])
          BY <1>2, <1>5, <4>1 DEF Unmoved
        <5> QED BY <5>1, <5>2, <5>3
      <4>2. CASE k \notin 1 .. Len(c.str)
        BY <1>4, <4>2 DEF Fitted, FitSeen, Reads
      <4> QED BY <4>1, <4>2
    <3> QED BY <3>1, <3>2
  <2>3. c.id = d.id
    BY DEF Fitted
  <2> QED BY <1>1, <1>6, <2>1, <2>2, <2>3, DimShown
<1>12. Good(X, s, m.h, T2, R, g2)
  BY <1>1, <1>4, <1>6, <1>7, <1>10, <1>11 DEF Good, Sound
<1> QED BY <1>12 DEF T2

Without(c, Q) == [c EXCEPT !.str = [k \in DOMAIN c.str |-> IF k \in Q THEN Null ELSE c.str[k]]]
Forgets(g, a, Q) ==
  IF a \in StringArrays
  THEN <<g[1], [g[2] EXCEPT ![a] = [k \in DOMAIN g[2][a] |-> IF k \in Q THEN Unset ELSE g[2][a][k]]]>>
  ELSE g

LEMMA MatrixSet ==
  ASSUME NEW c \in Matrix, NEW p, NEW u
  PROVE  /\ c = [id |-> c.id, data |-> c.data, str |-> c.str]
         /\ [c EXCEPT !.str = u] = [id |-> c.id, data |-> c.data, str |-> u]
         /\ [c EXCEPT !.data = p, !.str = u] = [id |-> c.id, data |-> p, str |-> u]
<1>1. PICK i \in Arrays, d \in Ptr, s \in Seq(Ptr) : c = [id |-> i, data |-> d, str |-> s]
  BY DEF Matrix
<1>2. c.id = i /\ c.data = d /\ c.str = s
  BY <1>1
<1>3. [c EXCEPT !.str = u] = [id |-> i, data |-> d, str |-> u]
  BY <1>1
<1>4. [c EXCEPT !.data = p, !.str = u] = [id |-> i, data |-> p, str |-> u]
  <2> DEFINE c1 == [id |-> i, data |-> p, str |-> s]
  <2>1. [c EXCEPT !.data = p] = c1
    BY <1>1
  <2>2. [c1 EXCEPT !.str = u] = [id |-> i, data |-> p, str |-> u]
    OBVIOUS
  <2> QED BY <2>1, <2>2
<1> QED BY <1>1, <1>2, <1>3, <1>4

LEMMA ForgetKeeps ==
  ASSUME NEW X, NEW s, NEW h, NEW T, NEW R, NEW g, Good(X, s, h, T, R, g), Calm(s), Strings(g),
         NEW j \in 1 .. Len(DimsOf(T)), NEW c, c = DimsOf(T)[j], NEW Q, Q \subseteq DOMAIN c.str
  PROVE  /\ Good(X, s, free(h, CutOff(c, Q)), DimSet(T, j, Without(c, Q)), R, Forgets(g, c.id, Q))
         /\ Cut(c, Without(c, Q), Q)
<1>1. Tabled(h, T) /\ Shown(g, s, h, T) /\ c \in Matrix
  BY DEF Good, Sound, Tabled
<1>2. c.str \in Seq(Ptr) /\ Len(c.str) \in Nat /\ DOMAIN c.str = 1 .. Len(c.str)
      /\ c.id \in Arrays /\ c.data \in Ptr /\ c = [id |-> c.id, data |-> c.data, str |-> c.str]
  BY <1>1 DEF Matrix
<1>3. Cut(c, Without(c, Q), Q)
  <2> DEFINE u == [k \in DOMAIN c.str |-> IF k \in Q THEN Null ELSE c.str[k]]
  <2>1. /\ u \in Seq(Ptr) /\ Len(u) = Len(c.str)
        /\ \A k \in 1 .. Len(c.str) : u[k] = IF k \in Q THEN Null ELSE c.str[k]
    BY <1>2 DEF Ptr
  <2>0. Without(c, Q) = [c EXCEPT !.str = u]
    BY DEF Without
  <2> HIDE DEF u
  <2>2. Without(c, Q) = [id |-> c.id, data |-> c.data, str |-> u]
    BY <1>1, <2>0, MatrixSet
  <2> QED BY <1>2, <2>1, <2>2 DEF Cut, Matrix
<1> DEFINE f == [k \in DOMAIN g[2][c.id] |-> IF k \in Q THEN Unset ELSE g[2][c.id][k]]
           g2 == Forgets(g, c.id, Q)
<1>4. CutSeen(g, f, c, Q)
  <2> SUFFICES ASSUME c.id \in StringArrays PROVE DOMAIN g[2][c.id] = 1 .. Len(c.str)
    BY DEF CutSeen
  <2> QED BY <1>1 DEF Shown
<1> HIDE DEF f
<1>5. SeesArray(g, g2, c.id, f)
  <2>1. CASE c.id \in StringArrays
    <3>1. g2 = <<g[1], [g[2] EXCEPT ![c.id] = f]>>
      BY <2>1 DEF Forgets, f
    <3> QED BY <2>1, <3>1 DEF SeesArray, Strings
  <2>2. CASE c.id \notin StringArrays
    BY <2>2 DEF Forgets, SeesArray
  <2> QED BY <2>1, <2>2
<1> HIDE DEF g2
<1> DEFINE d == Without(c, Q)
<1> HIDE DEF d
<1>6. Good(X, s, free(h, CutOff(c, Q)), DimSet(T, j, d), R, g2)
  <2>1. /\ Good(X, s, h, T, R, g) /\ Calm(s) /\ j \in 1 .. Len(DimsOf(T)) /\ c = DimsOf(T)[j]
        /\ Cut(c, d, Q) /\ CutSeen(g, f, c, Q) /\ SeesArray(g, g2, c.id, f)
    BY <1>3, <1>4, <1>5 DEF d
  <2> QED BY ONLY <2>1, CutKeeps
<1> QED BY <1>3, <1>6 DEF d, g2

Fit(c, p, n) ==
  [c EXCEPT !.data = p, !.str = IF c.id \in StringArrays THEN Sized(c.str, n) ELSE c.str]
Resizes(g, a, n) ==
  IF a \in StringArrays
  THEN <<g[1], [g[2] EXCEPT ![a] = [k \in 1 .. n |-> IF k \in DOMAIN g[2][a] THEN g[2][a][k] ELSE Unset]]>>
  ELSE g

LEMMA ResizeKeeps ==
  ASSUME NEW X, NEW s, NEW h, NEW T, NEW R, NEW g, Good(X, s, h, T, R, g), Calm(s), Strings(g),
         NEW j \in 1 .. Len(DimsOf(T)), NEW c, c = DimsOf(T)[j], NEW n \in Nat,
         NEW Q, Q = {k \in DOMAIN c.str : k > n},
         NEW h1, h1 = free(h, CutOff(c, Q)),
         NEW m \in realloc(h1, c.data, Table(n)), m.p # Null
  PROVE  Good(X, s, m.h, DimSet(T, j, Fit(c, m.p, n)), R, Resizes(g, c.id, n))
<1> DEFINE d == Without(c, Q)
           T1 == DimSet(T, j, d)
           g1 == Forgets(g, c.id, Q)
           e == Fit(c, m.p, n)
           g2 == Resizes(g, c.id, n)
           f == g2[2][c.id]
<1>1. Tabled(h, T) /\ Shown(g, s, h, T) /\ c \in Matrix /\ DimsOf(T) \in Seq(Matrix)
      /\ (c.id \notin StringArrays => c.str = <<>>)
  BY DEF Good, Sound, Tabled
<1>2. c.str \in Seq(Ptr) /\ Len(c.str) \in Nat /\ DOMAIN c.str = 1 .. Len(c.str)
      /\ c.id \in Arrays /\ c.data \in Ptr /\ c = [id |-> c.id, data |-> c.data, str |-> c.str]
  BY <1>1 DEF Matrix
<1>3. Good(X, s, h1, T1, R, g1) /\ Cut(c, d, Q)
  <2>1. Q \subseteq DOMAIN c.str
    OBVIOUS
  <2> QED BY <2>1, ForgetKeeps
<1>4. /\ DimsOf(T1)[j] = d /\ Len(DimsOf(T1)) = Len(DimsOf(T)) /\ d.data = c.data /\ d.id = c.id
      /\ Len(d.str) = Len(c.str) /\ \A k \in 1 .. Len(c.str) : d.str[k] = IF k > n THEN Null ELSE c.str[k]
  <2>1. DimsOf(T1) = [DimsOf(T) EXCEPT ![j] = d]
    BY DEF DimSet, DimsOf
  <2> HIDE DEF T1, d
  <2>2. DimsOf(T1)[j] = d /\ Len(DimsOf(T1)) = Len(DimsOf(T))
    <3>1. d \in Matrix
      BY <1>3 DEF Cut
    <3> QED BY <1>1, <2>1, <3>1
  <2> QED BY <1>2, <1>3, <2>2 DEF Cut
<1>5. m \in realloc(h1, d.data, Table(n)) /\ m.p \in Ptr
  <2>1. m \in realloc(h1, d.data, Table(n))
    BY <1>4
  <2>2. m.p \in Ptr
    <3>0. Spare(h1) \subseteq Blocks
      BY DEF Spare
    <3>1. m.p \in {c.data, Null} \union Spare(h1)
      <4>1. CASE c.data = Null
        BY <4>1 DEF realloc, malloc
      <4>2. CASE c.data # Null
        BY <4>2 DEF realloc
      <4> QED BY <4>1, <4>2
    <3> QED BY <1>2, <3>0, <3>1 DEF Ptr
  <2> QED BY <2>1, <2>2
<1>6. Fitted(d, e, m.p, n)
  <2>1. CASE c.id \in StringArrays
    <3> DEFINE u == Sized(c.str, n)
    <3>1. u \in Seq(Ptr) /\ Len(u) = n
          /\ \A k \in 1 .. n : u[k] = IF k \in 1 .. Len(c.str) THEN c.str[k] ELSE Null
      BY <1>2 DEF Sized, Ptr
    <3>0. e = [c EXCEPT !.data = m.p, !.str = u]
      BY <2>1 DEF Fit
    <3> HIDE DEF u
    <3>2. e = [id |-> c.id, data |-> m.p, str |-> u]
      BY <1>1, <3>0, MatrixSet
    <3>3. \A k \in 1 .. n : e.str[k] = IF k \in 1 .. Len(d.str) THEN d.str[k] ELSE Null
      BY <1>4, <3>1, <3>2
    <3>4. \A k \in 1 .. Len(d.str) : k \notin 1 .. n => d.str[k] = Null
      BY <1>4
    <3>5. e \in Matrix
      BY <1>2, <1>5, <3>1, <3>2 DEF Matrix
    <3> HIDE DEF d, e
    <3> QED BY <1>4, <2>1, <3>1, <3>2, <3>3, <3>4, <3>5 DEF Fitted
  <2>2. CASE c.id \notin StringArrays
    <3>0. e = [c EXCEPT !.data = m.p, !.str = c.str]
      BY <2>2 DEF Fit
    <3>1. e = [id |-> c.id, data |-> m.p, str |-> c.str]
      BY <1>1, <3>0, MatrixSet
    <3>2. e \in Matrix
      BY <1>2, <1>5, <3>1 DEF Matrix
    <3> HIDE DEF d, e
    <3> QED BY <1>1, <1>4, <2>2, <3>1, <3>2 DEF Fitted
  <2> QED BY <2>1, <2>2
<1>7. FitSeen(g1, f, d, n) /\ SeesArray(g1, g2, d.id, f)
  <2>1. CASE c.id \in StringArrays
    <3> DEFINE a == c.id
               v == [k \in 1 .. n |-> IF k \in DOMAIN g[2][a] THEN g[2][a][k] ELSE Unset]
               w == [k \in DOMAIN g[2][a] |-> IF k \in Q THEN Unset ELSE g[2][a][k]]
    <3>1. DOMAIN g[2][a] = 1 .. Len(c.str)
      BY <1>1, <2>1 DEF Shown
    <3>2. DOMAIN v = 1 .. n /\ \A k \in 1 .. n : v[k] = IF k \in 1 .. Len(d.str) THEN w[k] ELSE Unset
      <4> HIDE DEF d
      <4>1. ASSUME NEW k \in 1 .. n PROVE k \notin Q
        OBVIOUS
      <4>2. 1 .. Len(d.str) = DOMAIN g[2][a]
        BY <1>4, <3>1
      <4> QED BY <4>1, <4>2
    <3> HIDE DEF v, w
    <3>3. g2 = <<g[1], [g[2] EXCEPT ![a] = v]>> /\ g1 = <<g[1], [g[2] EXCEPT ![a] = w]>>
      BY <2>1 DEF Resizes, Forgets, v, w
    <3> HIDE DEF g1, g2
    <3>4. g2[1] = g[1] /\ g1[1] = g[1] /\ f = v /\ g1[2][a] = w
          /\ \A b \in StringArrays : b # a => g2[2][b] = g[2][b] /\ g1[2][b] = g[2][b]
      BY <2>1, <3>3 DEF Strings
    <3> HIDE DEF f, d
    <3>5. FitSeen(g1, f, d, n)
      BY <1>4, <3>2, <3>4 DEF FitSeen
    <3>6. SeesArray(g1, g2, d.id, f)
      <4>1. g2[2][a] = f
        BY <3>4 DEF f
      <4> QED BY <1>4, <3>4, <4>1 DEF SeesArray
    <3> QED BY <3>5, <3>6
  <2>2. CASE c.id \notin StringArrays
    BY <1>4, <2>2 DEF FitSeen, SeesArray, Resizes, Forgets
  <2> QED BY <2>1, <2>2
<1>8. DimSet(T1, j, e) = DimSet(T, j, e)
  <2>1. VarsOf(T1) = VarsOf(T) /\ VarBlock(T1) = VarBlock(T) /\ DimBlock(T1) = DimBlock(T)
        /\ DimsOf(T1) = [DimsOf(T) EXCEPT ![j] = d]
    BY DEF DimSet, VarsOf, VarBlock, DimsOf, DimBlock
  <2> HIDE DEF T1, d, e
  <2>2. [[DimsOf(T) EXCEPT ![j] = d] EXCEPT ![j] = e] = [DimsOf(T) EXCEPT ![j] = e]
    BY <1>1
  <2> QED BY <2>1, <2>2 DEF DimSet
<1> HIDE DEF d, T1, g1, e, g2, f
<1>9. Good(X, s, m.h, DimSet(T1, j, e), R, g2)
  <2>1. /\ Good(X, s, h1, T1, R, g1) /\ Calm(s) /\ j \in 1 .. Len(DimsOf(T1)) /\ d = DimsOf(T1)[j]
        /\ n \in Nat /\ m \in realloc(h1, d.data, Table(n)) /\ m.p # Null /\ Fitted(d, e, m.p, n)
        /\ FitSeen(g1, f, d, n) /\ SeesArray(g1, g2, d.id, f)
    BY <1>3, <1>4, <1>5, <1>6, <1>7
  <2> QED BY ONLY <2>1, FitKeeps
<1> QED BY <1>8, <1>9 DEF e, g2

(* What DIM does once its array is there, as entry j, and was c.           *)
Initial(a, t, j) ==
  [fn |-> "DIM,", args |-> <<>>, i |-> 0, of |-> {}, array |-> a, at |-> [block |-> t, index |-> j]]
Dims(a, size, x, j, c) ==
  IF ~x.ok THEN dimvariables' = x.s /\ heap' = x.h /\ stack' = Done(stack)
  ELSE \E m \in realloc(free(x.h, CutOff(c, {k \in DOMAIN c.str : k > size})), c.data, Table(size)) :
    IF m.p = Null
    THEN /\ dimvariables' = [x.s EXCEPT ![j].str = [i \in DOMAIN @ |-> Null]]
         /\ heap' = free(m.h, Pointers(c.str)) /\ stack' = Done(stack)
    ELSE /\ dimvariables' = [x.s EXCEPT ![j].data = m.p, ![j].str =
                               IF a \in StringArrays THEN Sized(@, size) ELSE @]
         /\ heap' = m.h
         /\ stack' \in {Done(stack), Append(stack, IF a \notin StringArrays THEN Call("PRINT", <<>>)
                                                   ELSE Initial(a, x.t, j))}

LEMMA DodimIs ==
  ASSUME dodim
  PROVE  \E a \in Arrays, size \in 0 .. MaxSize : \E x \in dimension(a, size) :
           /\ Begins /\ UNCHANGED <<variables, vartable, system>> /\ dimtable' = x.t
           /\ Dims(a, size, x, findvariable(x.s, a).at, x.s[findvariable(x.s, a).at])
<1>1. PICK a \in Arrays, size \in 0 .. MaxSize, e \in Errors :
  /\ Begins /\ UNCHANGED <<variables, vartable, system>>
  /\ \E x \in dimension(a, size) :
       LET j == findvariable(x.s, a).at
           old == x.s[j].str
           beyond == {old[i] : i \in {k \in DOMAIN old : k > size}}
       IN  /\ dimtable' = x.t
           /\ IF ~x.ok
              THEN dimvariables' = x.s /\ heap' = x.h
                     /\ Fails(OutOfMemory) /\ stack' = Done(stack)
              ELSE \E m \in realloc(free(x.h, beyond), x.s[j].data, Table(size)) :
                IF m.p = Null
                THEN /\ dimvariables' = [x.s EXCEPT ![j].str = [i \in DOMAIN @ |-> Null]]
                     /\ heap' = free(m.h, Pointers(old))
                     /\ Fails(OutOfMemory) /\ stack' = Done(stack)
                ELSE /\ dimvariables' = [x.s EXCEPT ![j].data = m.p, ![j].str =
                                           IF a \in StringArrays THEN Sized(@, size) ELSE @]
                     /\ heap' = m.h /\ Fails(e)
                     /\ stack' \in {Done(stack),
                          Append(stack, IF a \notin StringArrays THEN Call("PRINT", <<>>)
                            ELSE [fn |-> "DIM,", args |-> <<>>, i |-> 0, of |-> {}, array |-> a,
                                  at |-> [block |-> x.t, index |-> j]])}
  BY DEF dodim
<1>2. PICK x \in dimension(a, size) :
       LET j == findvariable(x.s, a).at
           old == x.s[j].str
           beyond == {old[i] : i \in {k \in DOMAIN old : k > size}}
       IN  /\ dimtable' = x.t
           /\ IF ~x.ok
              THEN dimvariables' = x.s /\ heap' = x.h /\ stack' = Done(stack)
              ELSE \E m \in realloc(free(x.h, beyond), x.s[j].data, Table(size)) :
                IF m.p = Null
                THEN /\ dimvariables' = [x.s EXCEPT ![j].str = [i \in DOMAIN @ |-> Null]]
                     /\ heap' = free(m.h, Pointers(old)) /\ stack' = Done(stack)
                ELSE /\ dimvariables' = [x.s EXCEPT ![j].data = m.p, ![j].str =
                                           IF a \in StringArrays THEN Sized(@, size) ELSE @]
                     /\ heap' = m.h
                     /\ stack' \in {Done(stack),
                          Append(stack, IF a \notin StringArrays THEN Call("PRINT", <<>>)
                            ELSE [fn |-> "DIM,", args |-> <<>>, i |-> 0, of |-> {}, array |-> a,
                                  at |-> [block |-> x.t, index |-> j]])}
  BY ONLY <1>1
<1>3. dimtable' = x.t /\ Dims(a, size, x, findvariable(x.s, a).at, x.s[findvariable(x.s, a).at])
  BY ONLY <1>2 DEF Dims, CutOff, Initial
<1> QED BY <1>1, <1>3

(* The program sees one array get another size, or emptied.                *)
Resizing(g, g2) == \E a \in StringArrays, n \in Nat : g2 = Resizes(g, a, n)
Losing(g, g2) == \E a \in StringArrays : \E Q : DOMAIN g[2][a] \subseteq Q /\ g2 = Forgets(g, a, Q)
DimSees(g, g2) == There(g2) /\ (g2 = g \/ Resizing(g, g2) \/ Losing(g, g2))

LEMMA DodimKeeps ==
  ASSUME NEW g, Here(g), Strings(g), dodim PROVE \E g2 : DimSees(g, g2)
<1>1. PICK a \in Arrays, size \in 0 .. MaxSize : \E x \in dimension(a, size) :
        /\ Begins /\ UNCHANGED <<variables, vartable, system>> /\ dimtable' = x.t
        /\ Dims(a, size, x, findvariable(x.s, a).at, x.s[findvariable(x.s, a).at])
  BY DodimIs
<1>2. PICK x \in dimension(a, size) :
        /\ Begins /\ UNCHANGED <<variables, vartable, system>> /\ dimtable' = x.t
        /\ Dims(a, size, x, findvariable(x.s, a).at, x.s[findvariable(x.s, a).at])
  BY <1>1
<1>3. Calm(stack) /\ outcome = "running"
  BY <1>2, BeginsCalm
<1>4. Good(lost, stack, heap, tables, rest, g)
  BY DEF Here
<1> DEFINE T2 == <<variables, vartable, x.s, x.t>>
           j == findvariable(x.s, a).at
           c == x.s[j]
<1>5. /\ Good(lost, stack, x.h, T2, rest, g) /\ DimsOf(T2) = x.s /\ DimBlock(T2) = x.t
      /\ VarsOf(T2) = variables /\ VarBlock(T2) = vartable
      /\ Got(x) \/ Failed(x)
      /\ Got(x) => j \in 1 .. Len(x.s) /\ c.id = a
  <2>1. /\ Good(lost, stack, x.h, T2, rest, g) /\ DimsOf(T2) = x.s /\ DimBlock(T2) = x.t
        /\ Got(x) \/ Failed(x)
        /\ Got(x) => j \in 1 .. Len(x.s) /\ c.id = a
    BY <1>3, <1>4, DimensionKeeps
  <2> QED BY <2>1 DEF VarsOf, VarBlock
<1>6. rest' = rest /\ lost' = lost /\ outcome' = outcome
  BY <1>2 DEF rest, system
<1>7. ASSUME NEW s, dimvariables' = s PROVE tables' = <<variables, vartable, s, x.t>>
  BY <1>2, <1>7, TablesAre
<1> HIDE DEF T2
<1>8. CASE Failed(x)
  <2>1. dimvariables' = x.s /\ heap' = x.h /\ stack' = Done(stack)
    BY <1>2, <1>8, GotIs DEF Dims
  <2>2. tables' = T2
    BY <1>7, <2>1 DEF T2
  <2>3. Good(lost, Done(stack), x.h, T2, rest, g)
    BY <1>5, DoneKeeps
  <2>4. There(g)
    BY <1>3, <1>6, <2>1, <2>2, <2>3 DEF There
  <2> QED BY <2>4 DEF DimSees
<1>9. CASE Got(x)
  <2> DEFINE Q == {k \in DOMAIN c.str : k > size}
             h1 == free(x.h, CutOff(c, Q))
  <2>1. j \in 1 .. Len(DimsOf(T2)) /\ c = DimsOf(T2)[j] /\ c.id = a /\ size \in Nat
        /\ x.s \in Seq(Matrix) /\ Len(x.s) \in Nat /\ Shown(g, stack, x.h, T2) /\ c \in Matrix
        /\ c.str \in Seq(Ptr) /\ Len(c.str) \in Nat /\ DOMAIN c.str = 1 .. Len(c.str)
    <3>1. DimsOf(T2) \in Seq(Matrix) /\ Shown(g, stack, x.h, T2)
      BY <1>5 DEF Good, Sound, Tabled
    <3>2. c \in Matrix /\ size \in Nat
      BY <1>5, <1>9, <3>1, MemoryAssumption
    <3>3. c.str \in Seq(Ptr)
      BY <3>2 DEF Matrix
    <3> QED BY <1>5, <1>9, <3>1, <3>2, <3>3
  <2>2. Dims(a, size, x, j, c) /\ x.ok
    BY <1>2, <1>9, GotIs
  <2> HIDE DEF j, c
  <2>3. PICK m \in realloc(h1, c.data, Table(size)) :
    IF m.p = Null
    THEN /\ dimvariables' = [x.s EXCEPT ![j].str = [i \in DOMAIN @ |-> Null]]
         /\ heap' = free(m.h, Pointers(c.str)) /\ stack' = Done(stack)
    ELSE /\ dimvariables' = [x.s EXCEPT ![j].data = m.p, ![j].str =
                               IF a \in StringArrays THEN Sized(@, size) ELSE @]
         /\ heap' = m.h
         /\ stack' \in {Done(stack), Append(stack, IF a \notin StringArrays THEN Call("PRINT", <<>>)
                                                   ELSE Initial(a, x.t, j))}
    BY <2>2 DEF Dims
  <2> HIDE DEF Q
  <2>4. CASE m.p = Null
    <3> DEFINE P == 1 .. Len(c.str)
               d == Without(c, P)
    <3>1. Good(lost, stack, free(x.h, CutOff(c, P)), DimSet(T2, j, d), rest, Forgets(g, c.id, P))
      <4>1. P \subseteq DOMAIN c.str
        BY <2>1
      <4> HIDE DEF P
      <4> QED BY <1>3, <1>5, <2>1, <4>1, ForgetKeeps
    <3>2. dimvariables' = [x.s EXCEPT ![j] = d]
      <4>1. d = [c EXCEPT !.str = [k \in DOMAIN c.str |-> Null]]
        BY <2>1 DEF Without
      <4>2. dimvariables' = [x.s EXCEPT ![j].str = [i \in DOMAIN x.s[j].str |-> Null]]
        BY <2>3, <2>4
      <4> QED BY <4>1, <4>2 DEF c
    <3>3. tables' = DimSet(T2, j, d)
      <4>1. tables' = <<variables, vartable, [x.s EXCEPT ![j] = d], x.t>>
        BY <1>7, <3>2
      <4> QED BY <1>5, <4>1 DEF DimSet
    <3>4. heap' = free(x.h, CutOff(c, P))
      <4>1. m.h = h1
        BY <2>4, ReallocNew
      <4>2. CutOff(c, P) = Pointers(c.str) /\ CutOff(c, Q) \subseteq Pointers(c.str)
        BY <2>1 DEF CutOff, Pointers, Q
      <4>3. heap' = free(free(x.h, CutOff(c, Q)), Pointers(c.str))
        BY <2>3, <2>4, <4>1
      <4>4. \A A, B : A \subseteq B => free(free(x.h, A), B) = free(x.h, B)
        BY DEF free
      <4> QED BY <4>2, <4>3, <4>4
    <3> HIDE DEF d
    <3>5. Good(lost, Done(stack), free(x.h, CutOff(c, P)), DimSet(T2, j, d), rest, Forgets(g, c.id, P))
      BY <3>1, DoneKeeps
    <3>6. There(Forgets(g, c.id, P))
      BY <1>3, <1>6, <2>3, <2>4, <3>3, <3>4, <3>5 DEF There
    <3>7. Forgets(g, c.id, P) = g \/ Losing(g, Forgets(g, c.id, P))
      <4>1. CASE c.id \in StringArrays
        <5>1. DOMAIN g[2][c.id] = P
          BY <2>1, <4>1 DEF Shown
        <5> QED BY <4>1, <5>1 DEF Losing
      <4>2. CASE c.id \notin StringArrays
        BY <4>2 DEF Forgets
      <4> QED BY <4>1, <4>2
    <3> QED BY <3>6, <3>7 DEF DimSees
  <2>5. CASE m.p # Null
    <3> DEFINE e == Fit(c, m.p, size)
               T3 == DimSet(T2, j, e)
               g2 == Resizes(g, c.id, size)
    <3>1. Good(lost, stack, m.h, T3, rest, g2)
      <4>1. Q = {k \in DOMAIN c.str : k > size}
        BY DEF Q
      <4>2. /\ Good(lost, stack, x.h, T2, rest, g) /\ Calm(stack) /\ Strings(g)
            /\ j \in 1 .. Len(DimsOf(T2)) /\ c = DimsOf(T2)[j] /\ size \in Nat
            /\ h1 = free(x.h, CutOff(c, Q)) /\ m \in realloc(h1, c.data, Table(size)) /\ m.p # Null
        BY <1>3, <1>5, <2>1, <2>3, <2>5
      <4> HIDE DEF h1
      <4> QED BY ONLY <4>1, <4>2, ResizeKeeps
    <3>2. dimvariables' = [x.s EXCEPT ![j] = e]
      <4>1. e = [c EXCEPT !.data = m.p, !.str = IF a \in StringArrays THEN Sized(c.str, size) ELSE c.str]
        BY <2>1 DEF Fit
      <4>2. dimvariables' = [x.s EXCEPT ![j].data = m.p, ![j].str =
                               IF a \in StringArrays THEN Sized(x.s[j].str, size) ELSE x.s[j].str]
        BY <1>9, <2>1, <2>3, <2>5
      <4> QED BY <2>1, <4>1, <4>2 DEF c
    <3>3. tables' = T3
      <4>1. tables' = <<variables, vartable, [x.s EXCEPT ![j] = e], x.t>>
        BY <1>7, <3>2
      <4> QED BY <1>5, <4>1 DEF DimSet
    <3>4. DimBlock(T3) = x.t /\ Len(DimsOf(T3)) = Len(x.s) /\ DimsOf(T3)[j] = e /\ e.id = a
      <4>1. DimsOf(T3) = [x.s EXCEPT ![j] = e] /\ DimBlock(T3) = x.t
        BY <1>5 DEF DimSet, DimsOf, DimBlock
      <4>2. e.id = a
        <5> DEFINE u == IF c.id \in StringArrays THEN Sized(c.str, size) ELSE c.str
        <5>1. e = [c EXCEPT !.data = m.p, !.str = u]
          BY DEF Fit
        <5> HIDE DEF u, e
        <5>2. e = [id |-> c.id, data |-> m.p, str |-> u]
          BY <2>1, <5>1, MatrixSet
        <5> QED BY <2>1, <5>2
      <4> QED BY <1>5, <2>1, <4>1, <4>2
    <3> HIDE DEF e, T3
    <3>5. Good(lost, stack', m.h, T3, rest, g2)
      <4>1. CASE stack' = Done(stack)
        BY <3>1, <4>1, DoneKeeps
      <4>2. CASE stack' = Append(stack, Call("PRINT", <<>>))
        BY <1>3, <3>1, <4>2, PrintFresh
      <4>3. CASE a \in StringArrays /\ stack' = Append(stack, Initial(a, x.t, j))
        <5> DEFINE f == Initial(a, x.t, j)
        <5>0. j \in Nat /\ j \in 1 .. Len(DimsOf(T3)) /\ x.t \in Ptr
          <6>1. DimBlock(T2) \in Ptr
            BY <1>5 DEF Good, Sound, Tabled
          <6> QED BY <1>5, <2>1, <3>4, <6>1
        <5>1. /\ f.fn = "DIM," /\ f.args = <<>> /\ f.array = a /\ f.at.block = x.t /\ f.at.index = j
              /\ f.i = 0 /\ f.of = {} /\ f \in Filling
          <6> DEFINE to == [block |-> x.t, index |-> j]
          <6>1. to \in Address /\ to.block = x.t /\ to.index = j
            BY <5>0 DEF Address
          <6>2. <<>> \in Seq(Ptr) /\ 0 \in Nat /\ {} \in SUBSET Naming
            OBVIOUS
          <6>3. f = [fn |-> "DIM,", args |-> <<>>, i |-> 0, of |-> {}, array |-> a, at |-> to]
            BY DEF Initial
          <6> HIDE DEF to, f
          <6>4. f \in Filling
            BY ONLY <4>3, <6>1, <6>2, <6>3 DEF Filling
          <6>5. f.fn = "DIM," /\ f.args = <<>> /\ f.array = a /\ f.i = 0 /\ f.of = {} /\ f.at = to
            BY ONLY <6>3
          <6> QED BY <6>1, <6>4, <6>5
        <5> HIDE DEF f
        <5>2. Fresh(stack, f)
          BY <1>3, <5>1 DEF Fresh, Frame, Lines, Parts
        <5>3. Aimed(f, T3)
          BY <3>4, <5>0, <5>1 DEF Aimed, Assigning
        <5>4. Good(lost \ {Null}, Append(stack, f), m.h, T3, rest, g2)
          BY <3>1, <5>1, <5>2, <5>3, PushKeeps
        <5>5. lost \ {Null} = lost
          BY <1>4, NoNull DEF Good, Sound
        <5> QED BY <4>3, <5>4, <5>5 DEF f
      <4> QED BY <2>3, <2>5, <4>1, <4>2, <4>3
    <3>6. There(g2)
      BY <1>3, <1>6, <2>3, <2>5, <3>3, <3>5 DEF There
    <3>7. g2 = g \/ Resizing(g, g2)
      BY <2>1 DEF Resizing, Resizes
    <3> QED BY <3>6, <3>7 DEF DimSees
  <2> QED BY <2>4, <2>5
<1> QED BY <1>5, <1>8, <1>9

(* An initialiser: the frame of DIM is all that changes on the stack.      *)
OnTop(s, f, s2) ==
  /\ s2 \in Seq(Frame) /\ Len(s2) = Len(s) /\ Len(s) \in Nat /\ Len(s) >= 1 /\ s2[Len(s)] = f
  /\ \A i \in 1 .. Len(s) - 1 : s2[i] = s[i]

LEMMA TopSet ==
  ASSUME NEW s \in Seq(Frame), s # <<>>, NEW f \in Frame
  PROVE  OnTop(s, f, [s EXCEPT ![Len(s)] = f])
<1> DEFINE s2 == [s EXCEPT ![Len(s)] = f]
<1>1. Len(s) \in Nat /\ Len(s) >= 1
  OBVIOUS
<1>2. s2 \in Seq(Frame) /\ Len(s2) = Len(s) /\ s2[Len(s)] = f /\ \A i \in 1 .. Len(s) - 1 : s2[i] = s[i]
  BY <1>1
<1> QED BY <1>1, <1>2 DEF OnTop

LEMMA UnbornTop ==
  ASSUME NEW s \in Seq(Frame), s # <<>>, \A i \in 1 .. Len(s) - 1 : s[i].fn \in Lines
  PROVE  Unborn(s) = IF s[Len(s)].fn = "DIM" THEN {<<s[Len(s)].at.index, s[Len(s)].i>>} ELSE {}
<1>1. Len(s) \in Nat /\ Len(s) >= 1
  OBVIOUS
<1>2. \A i \in 1 .. Len(s) - 1 : s[i].fn # "DIM"
  BY DEF Lines
<1>3. {k \in 1 .. Len(s) : s[k].fn = "DIM"} = IF s[Len(s)].fn = "DIM" THEN {Len(s)} ELSE {}
  BY <1>1, <1>2
<1> QED BY <1>3 DEF Unborn

\* The frame of DIM before and after a step of it.
Refilled(s, f, s2, T2) ==
  /\ OnTop(s, f, s2) /\ f \in Filling /\ f.args = <<>> /\ Aimed(f, T2)

Refill(s, f, s2, T2) ==
  /\ Stacked(s2, T2) /\ s \in Seq(Frame) /\ Len(s) \in Nat /\ Len(s) >= 1
  /\ \A i \in 1 .. Len(s) - 1 : s[i].fn \in Lines /\ s2[i] = s[i]
  /\ s2[Len(s)] = f /\ Len(s2) = Len(s) /\ f.fn \in {"DIM", "DIM,"} /\ f.args = <<>>
  /\ Unborn(s) = IF s[Len(s)].fn = "DIM" THEN {<<s[Len(s)].at.index, s[Len(s)].i>>} ELSE {}
  /\ Unborn(s2) = IF f.fn = "DIM" THEN {<<f.at.index, f.i>>} ELSE {}

LEMMA FillStacked ==
  ASSUME NEW s, NEW T, Stacked(s, T), s # <<>>, s[Len(s)].fn \in {"DIM", "DIM,"},
         NEW f, NEW s2, NEW T2, Refilled(s, f, s2, T2)
  PROVE  Refill(s, f, s2, T2)
<1> DEFINE n == Len(s)
<1>1. /\ s2 \in Seq(Frame) /\ Len(s2) = n /\ n \in Nat /\ n >= 1 /\ s2[n] = f
      /\ f.fn \in {"DIM", "DIM,"} /\ f.args = <<>> /\ Aimed(f, T2) /\ Len(f.args) = 0
  BY DEF Refilled, OnTop, Filling
<1>2. s \in Seq(Frame) /\ \A i \in 1 .. n - 1 : s[i].fn \in Lines /\ s2[i] = s[i]
  <2>1. Calm(Below(s)) /\ s \in Seq(Frame)
    BY ShapeIs DEF Stacked, Parts
  <2>2. Len(Below(s)) = Len(s) - 1 /\ \A i \in 1 .. Len(s) - 1 : Below(s)[i] = s[i]
    BY <2>1, BelowIs
  <2>3. \A i \in 1 .. Len(s) - 1 : s2[i] = s[i]
    BY DEF Refilled, OnTop
  <2> QED BY <2>1, <2>2, <2>3 DEF Calm
<1>10. n \in Nat /\ n >= 1
  BY <1>1
<1>0. s[n].fn \in {"DIM", "DIM,"} /\ Shaped(s) /\ n \in 1 .. Len(s)
  <2>1. n \in 1 .. n
    <3> HIDE DEF n
    <3> QED BY ONLY <1>10
  <2> QED BY <2>1 DEF Stacked
<1>3. /\ Unborn(s) = IF s[n].fn = "DIM" THEN {<<s[n].at.index, s[n].i>>} ELSE {}
      /\ Unborn(s2) = IF f.fn = "DIM" THEN {<<f.at.index, f.i>>} ELSE {}
  <2>1. Unborn(s) = IF s[n].fn = "DIM" THEN {<<s[n].at.index, s[n].i>>} ELSE {}
    BY <1>2, UnbornTop
  <2>2. s2 # <<>> /\ \A i \in 1 .. Len(s2) - 1 : s2[i].fn \in Lines
    <3> HIDE DEF n
    <3>0. Len(s2) >= 1 /\ s2 \in Seq(Frame)
      BY <1>1
    <3>1. s2 # <<>>
      BY ONLY <3>0
    <3> QED BY <1>1, <1>2, <3>1
  <2>3. Unborn(s2) = IF s2[Len(s2)].fn = "DIM" THEN {<<s2[Len(s2)].at.index, s2[Len(s2)].i>>} ELSE {}
    BY <1>1, <2>2, UnbornTop
  <2> QED BY <1>1, <2>1, <2>3
<1>4. n = 1 \/ (n = 2 /\ s[1].fn \in Lines)
  <2>1. s[n].fn \notin Lines \union Parts
    BY <1>0 DEF Lines, Parts
  <2> HIDE DEF n
  <2> QED BY <1>0, <2>1 DEF Shaped
<1> HIDE DEF n
<1>11. n = 1 \/ n = 2
  BY <1>4
<1>5. ASSUME NEW i \in 1 .. n PROVE i = n \/ (i \in 1 .. n - 1 /\ i = 1)
  BY ONLY <1>10, <1>11, i \in 1 .. n
<1>6. ASSUME NEW i \in 1 .. n PROVE Aimed(s2[i], T2)
  <2>1. CASE i = n
    BY <1>1, <2>1
  <2>2. CASE i \in 1 .. n - 1
    <3>1. s2[i].fn \in Lines
      BY <1>2, <2>2
    <3> QED BY <3>1 DEF Aimed, Lines, Assigning
  <2> QED BY <1>5, <2>1, <2>2
<1>7. ASSUME NEW i \in 1 .. n
      PROVE  /\ s2[i].fn \in Lines \union {"DOLINE"} => i = 1
             /\ s2[i].fn \notin Lines \union Parts => i = 1 \/ (i = 2 /\ s2[1].fn \in Lines)
             /\ s2[i].fn \in Parts => i > 1
             /\ s2[i].fn \in {"PLUS", "$"} => Len(s2[i - 1].args) < MaxArgs(s2[i - 1].fn)
             /\ s2[i].fn \notin Lines => Len(s2[i].args) <= MaxArgs(s2[i].fn)
  <2>3. CASE i = n
    <3>1. s2[i].fn \in {"DIM", "DIM,"} /\ Len(s2[i].args) = 0
      BY <1>1, <2>3
    <3>0. MaxArgs(s2[i].fn) \in Nat
      BY MaxArgsIs
    <3>2. 0 <= MaxArgs(s2[i].fn)
      BY ONLY <3>0
    <3>3. s2[i].fn \notin Lines /\ s2[i].fn \notin Parts /\ s2[i].fn # "DOLINE"
      BY <3>1 DEF Lines, Parts
    <3>4. i = 1 \/ (i = 2 /\ s2[1].fn \in Lines)
      <4>1. CASE n = 1
        BY <2>3, <4>1
      <4>2. CASE n = 2 /\ s[1].fn \in Lines
        <5>1. 1 \in 1 .. n - 1
          BY ONLY <4>2
        <5> QED BY <1>2, <2>3, <4>2, <5>1
      <4> QED BY <1>4, <4>1, <4>2
    <3>5. s2[i].fn \notin {"PLUS", "$"}
      BY <3>1
    <3>6. Len(s2[i].args) <= MaxArgs(s2[i].fn)
      BY <3>1, <3>2
    <3> QED BY <3>3, <3>4, <3>5, <3>6
  <2>4. CASE i \in 1 .. n - 1 /\ i = 1
    <3>1. s2[i].fn \in Lines
      BY <1>2, <2>4
    <3>2. s2[i].fn \notin Parts /\ s2[i].fn \notin {"PLUS", "$"}
      BY <3>1 DEF Lines, Parts
    <3> QED BY <2>4, <3>1, <3>2
  <2> QED BY <1>5, <2>3, <2>4
<1>8. Shaped(s2)
  BY <1>1, <1>7 DEF Shaped
<1>9. Stacked(s2, T2)
  BY <1>1, <1>6, <1>8 DEF Stacked
<1> QED BY <1>1, <1>2, <1>3, <1>9 DEF n, Refill

Element1(f, u, i, of) == [f EXCEPT !.fn = u, !.i = i, !.of = of]
Element2(f, u, a, of) == [f EXCEPT !.fn = u, !.args = a, !.of = of]

LEMMA FillSet ==
  ASSUME NEW f \in Filling, NEW u, NEW v, NEW w
  PROVE  /\ Element1(f, u, v, w) =
              [fn |-> u, args |-> f.args, i |-> v, of |-> w, array |-> f.array, at |-> f.at]
         /\ Element2(f, u, v, w) =
              [fn |-> u, args |-> v, i |-> f.i, of |-> w, array |-> f.array, at |-> f.at]
<1>1. f = [fn |-> f.fn, args |-> f.args, i |-> f.i, of |-> f.of, array |-> f.array, at |-> f.at]
  BY DEF Filling
<1> DEFINE f1 == [fn |-> u, args |-> f.args, i |-> f.i, of |-> f.of, array |-> f.array, at |-> f.at]
           f2 == [fn |-> u, args |-> f.args, i |-> v, of |-> f.of, array |-> f.array, at |-> f.at]
           f3 == [fn |-> u, args |-> v, i |-> f.i, of |-> f.of, array |-> f.array, at |-> f.at]
<1>2. [f EXCEPT !.fn = u] = f1
  BY <1>1
<1>3. [f1 EXCEPT !.i = v] = f2 /\ [f1 EXCEPT !.args = v] = f3
  OBVIOUS
<1>4. [f2 EXCEPT !.of = w] = [fn |-> u, args |-> f.args, i |-> v, of |-> w, array |-> f.array, at |-> f.at]
      /\ [f3 EXCEPT !.of = w] = [fn |-> u, args |-> v, i |-> f.i, of |-> w, array |-> f.array, at |-> f.at]
  OBVIOUS
<1> QED BY <1>2, <1>3, <1>4 DEF Element1, Element2

(* What DIM's frame knows of its array.                                    *)
LEMMA FillTop ==
  ASSUME NEW g, Here(g), stack # <<>>, Top.fn \in {"DIM", "DIM,"}
  PROVE  /\ Top \in Filling /\ Top.at.index \in 1 .. Len(dimvariables)
         /\ Top.at.block = dimtable /\ dimvariables[Top.at.index].id = Top.array
         /\ Top.array \in StringArrays /\ Dimmed \in Matrix /\ DOMAIN Dimmed.str = 1 .. Len(Dimmed.str)
         /\ Top.at.index \in Nat /\ Len(Dimmed.str) \in Nat /\ Dimmed.str \in Seq(Ptr)
         /\ Top.fn = "DIM" => /\ Top.i \in 1 .. Len(Dimmed.str)
                              /\ Top.of = {[array |-> Top.array, index |-> Top.i]}
         /\ Len(Top.args) <= MaxArgs(Top.fn) /\ Len(stack) \in 1 .. Len(stack)
<1>1. Top = stack[Len(stack)] /\ Top \in Frame /\ Stacked(stack, tables)
  BY TopIs
<1>2. Len(stack) \in 1 .. Len(stack)
  <2>1. stack \in Seq(Frame)
    BY <1>1 DEF Stacked
  <2>2. Len(stack) \in Nat /\ Len(stack) >= 1
    BY ONLY <2>1, stack # <<>>
  <2> QED BY ONLY <2>2
<1>3. Aimed(Top, tables) /\ Shaped(stack)
  BY <1>1, <1>2 DEF Stacked
<1>4. Top \in Filling
  BY <1>1, Fields
<1>5. DimsOf(tables) = dimvariables /\ DimBlock(tables) = dimtable /\ dimvariables \in Seq(Matrix)
  BY DimsAre
<1>6. /\ Top.at.index \in 1 .. Len(dimvariables) /\ Top.at.block = dimtable
      /\ dimvariables[Top.at.index].id = Top.array
      /\ Top.fn = "DIM" => /\ Top.i \in 1 .. Len(Dimmed.str)
                           /\ Top.of = {[array |-> Top.array, index |-> Top.i]}
  BY <1>3, <1>5 DEF Aimed, Dimmed
<1>7. Dimmed \in Matrix
  <2> DEFINE j == Top.at.index
  <2>1. j \in 1 .. Len(dimvariables) /\ dimvariables \in Seq(Matrix)
    BY <1>5, <1>6
  <2>2. Dimmed = dimvariables[j]
    BY DEF Dimmed
  <2> HIDE DEF j
  <2> QED BY ONLY <2>1, <2>2
<1>8. Dimmed.str \in Seq(Ptr) /\ Len(Dimmed.str) \in Nat /\ DOMAIN Dimmed.str = 1 .. Len(Dimmed.str)
  <2>1. Dimmed.str \in Seq(Ptr)
    BY <1>7 DEF Matrix
  <2> HIDE DEF Dimmed
  <2> QED BY ONLY <2>1
<1>9. Top.array \in StringArrays /\ Top.at.index \in Nat
  BY <1>4 DEF Filling, Address
<1>10. Len(Top.args) <= MaxArgs(Top.fn)
  <2>1. Top.fn \notin Lines
    BY DEF Lines
  <2> QED BY <1>1, <1>2, <1>3, <2>1 DEF Shaped
<1> QED BY <1>2, <1>4, <1>6, <1>7, <1>8, <1>9, <1>10

LEMMA DiminitIs ==
  ASSUME NEW g, Here(g), diminit, NEW i, i = Top.i + 1
  PROVE  /\ outcome = "running" /\ stack # <<>> /\ Top.fn = "DIM,"
         /\ tables' = tables /\ rest' = rest /\ lost' = lost
         /\ i \in DOMAIN Dimmed.str =>
              /\ heap' = free(heap, {Dimmed.str[i]}) /\ outcome' = outcome
              /\ stack' = [stack EXCEPT ![Len(stack)] = [Top EXCEPT !.fn = "DIM", !.i = i,
                                                           !.of = {[array |-> Dimmed.id, index |-> i]}]]
         /\ i \notin DOMAIN Dimmed.str => outcome' = "wild" /\ heap' = heap /\ stack' = stack
<1>1. /\ In("DIM,") /\ UNCHANGED <<tables, labels, files, curinputptr, lost, Serrorflag>>
      /\ IF i \in DOMAIN Dimmed.str
         THEN /\ heap' = free(heap, {Dimmed.str[i]})
              /\ stack' = [stack EXCEPT ![Len(stack)] =
                   [@ EXCEPT !.fn = "DIM", !.i = i,
                             !.of = {[array |-> Dimmed.id, index |-> i]}]]
              /\ UNCHANGED outcome
         ELSE i = 1 /\ outcome' = "wild" /\ UNCHANGED <<heap, stack>>
  BY DEF diminit
<1>2. In("DIM,") /\ tables' = tables /\ rest' = rest /\ lost' = lost
  BY <1>1 DEF rest, tables
<1> QED BY <1>1, <1>2 DEF In, Top

(* The string of an element is freed before what it will be is evaluated.  *)
LEMMA DiminitKeeps ==
  ASSUME NEW g, Here(g), diminit PROVE There(g)
<1> DEFINE i == Top.i + 1
           j == Top.at.index
           s == stack
           n == Len(stack)
           f == Top
           old == Dimmed.str[i]
           f2 == [Top EXCEPT !.fn = "DIM", !.i = i, !.of = {[array |-> Dimmed.id, index |-> i]}]
           s2 == [stack EXCEPT ![Len(stack)] = f2]
           q == <<"elements", j, i>>
<1>1. /\ outcome = "running" /\ stack # <<>> /\ Top.fn = "DIM,"
      /\ tables' = tables /\ rest' = rest /\ lost' = lost
      /\ i \in DOMAIN Dimmed.str => heap' = free(heap, {Dimmed.str[i]}) /\ outcome' = outcome /\ stack' = s2
      /\ i \notin DOMAIN Dimmed.str => outcome' = "wild" /\ heap' = heap /\ stack' = stack
  BY DiminitIs
<1>2. CASE i \notin DOMAIN Dimmed.str
  BY <1>1, <1>2 DEF Here, There
<1>3. CASE i \in DOMAIN Dimmed.str
  <2>1. /\ f \in Filling /\ j \in 1 .. Len(dimvariables) /\ f.at.block = dimtable
        /\ dimvariables[j].id = f.array /\ f.array \in StringArrays
        /\ Dimmed \in Matrix /\ i \in 1 .. Len(Dimmed.str) /\ j \in Nat /\ Len(Dimmed.str) \in Nat
        /\ Dimmed.str \in Seq(Ptr) /\ Len(f.args) <= MaxArgs(f.fn) /\ n \in 1 .. n /\ Dimmed = dimvariables[j]
    BY <1>1, <1>3, FillTop DEF Dimmed
  <2>2. /\ Good(lost, s, heap, tables, rest, g) /\ Blocked(lost, heap) /\ Tabled(heap, tables) /\ Filed(rest)
        /\ Stacked(s, tables) /\ Shown(g, s, heap, tables) /\ Own(DOMAIN heap \ lost, Held(s, tables, rest))
        /\ Null \notin DOMAIN heap /\ lost \subseteq DOMAIN heap /\ s[n] = f
        /\ DimsOf(tables) = dimvariables /\ DimBlock(tables) = dimtable
    BY <1>1, NoNull, TopIs, DimsAre DEF Here, Good, Sound, Blocked
  <2>3. f.args = <<>> /\ f.i \in Nat /\ i \in Nat
    <3>1. MaxArgs(f.fn) = 0
      BY <1>1 DEF MaxArgs
    <3>2. f.args \in Seq(Ptr) /\ f.i \in Nat
      BY <2>1 DEF Filling
    <3>3. Len(f.args) \in Nat /\ Len(f.args) <= 0
      BY <2>1, <3>1, <3>2
    <3> QED BY <3>2, <3>3
  <2>4. f2 = [fn |-> "DIM", args |-> <<>>, i |-> i, of |-> {[array |-> Dimmed.id, index |-> i]},
              array |-> f.array, at |-> f.at]
    <3> DEFINE w == {[array |-> Dimmed.id, index |-> i]}
    <3> HIDE DEF f, i, w
    <3>1. f2 = Element1(f, "DIM", i, w)
      BY DEF f, w, Element1
    <3> HIDE DEF f2
    <3>2. Element1(f, "DIM", i, w) = [fn |-> "DIM", args |-> f.args, i |-> i, of |-> w, array |-> f.array, at |-> f.at]
      BY <2>1, FillSet
    <3> QED BY <2>3, <3>1, <3>2 DEF w
  <2> HIDE DEF f2
  <2>5. /\ f2.fn = "DIM" /\ f2.args = <<>> /\ f2.i = i /\ f2.of = {[array |-> f.array, index |-> i]}
        /\ f2.array = f.array /\ f2.at = f.at /\ f2 \in Filling
    <3> DEFINE name == [array |-> f.array, index |-> i]
    <3>1. name \in Naming /\ f.at \in Address /\ <<>> \in Seq(Ptr)
      BY <2>1, <2>3 DEF Naming, Filling
    <3>2. f2 = [fn |-> "DIM", args |-> <<>>, i |-> i, of |-> {name}, array |-> f.array, at |-> f.at]
      BY <2>1, <2>4
    <3> HIDE DEF name, f, i
    <3>3. f2 \in Filling
      BY <2>1, <2>3, <3>1, <3>2 DEF Filling
    <3> QED BY <3>2, <3>3 DEF name
  <2> HIDE DEF i, j, f
  <2>6. Aimed(f2, tables)
    <3>1. f2.at.block = DimBlock(tables) /\ f2.at.index = j /\ j \in 1 .. Len(DimsOf(tables))
          /\ DimsOf(tables)[j] = Dimmed /\ Dimmed.id = f2.array
      BY <2>1, <2>2, <2>5 DEF j, f
    <3> QED BY <2>1, <2>5, <3>1 DEF Aimed, Assigning
  <2>7. Refilled(s, f2, s2, tables)
    <3>1. OnTop(s, f2, s2)
      BY <1>1, <2>2, <2>5, TopSet DEF Stacked, Frame
    <3> QED BY <2>5, <2>6, <3>1 DEF Refilled
  <2> HIDE DEF s2
  <2>8. /\ Stacked(s2, tables) /\ s \in Seq(Frame) /\ Len(s2) = n /\ n \in Nat /\ n >= 1
        /\ \A k \in 1 .. n - 1 : s2[k] = s[k]
        /\ s2[n] = f2 /\ Unborn(s) = {} /\ Unborn(s2) = {<<j, i>>}
    <3>1. s[Len(s)].fn \in {"DIM", "DIM,"} /\ s[Len(s)].fn # "DIM"
      BY <1>1, <2>2 DEF f
    <3>2. /\ Stacked(s2, tables) /\ s \in Seq(Frame) /\ Len(s2) = Len(s) /\ Len(s) \in Nat /\ Len(s) >= 1
          /\ \A k \in 1 .. Len(s) - 1 : s[k].fn \in Lines /\ s2[k] = s[k]
          /\ s2[Len(s)] = f2
          /\ Unborn(s) = IF s[Len(s)].fn = "DIM" THEN {<<s[Len(s)].at.index, s[Len(s)].i>>} ELSE {}
          /\ Unborn(s2) = IF f2.fn = "DIM" THEN {<<f2.at.index, f2.i>>} ELSE {}
      <4>1. Stacked(s, tables) /\ s # <<>> /\ s[Len(s)].fn \in {"DIM", "DIM,"} /\ Refilled(s, f2, s2, tables)
        BY <1>1, <2>2, <2>7, <3>1
      <4> HIDE DEF s
      <4>2. Refill(s, f2, s2, tables)
        BY ONLY <4>1, FillStacked
      <4> QED BY <4>2 DEF Refill
    <3> QED BY <2>5, <3>1, <3>2 DEF f, j
  <2> HIDE DEF s, n
  <2> DEFINE H == Held(s, tables, rest)
             H2 == Held(s2, tables, rest)
  <2>9. q \in Places /\ H[q] = old
    <3>1. Tells(H, s, tables)
      BY <2>2, HeldThere
    <3> QED BY <2>1, <2>2, <2>8, <3>1 DEF Tells
  <2>10. H2 \in [Places -> Ptr]
    <3>1. s2 \in Seq(Frame)
      BY <2>8 DEF Stacked
    <3> QED BY <2>2, <3>1, HeldType
  <2>11. ASSUME NEW r \in Places PROVE H2[r] = IF r = q THEN Null ELSE H[r]
    <3>1. H2[r] = Holding(s2, tables, rest, r) /\ H[r] = Holding(s, tables, rest, r)
      BY HeldAt
    <3>2. r = <<r[1], r[2], r[3]>>
      BY PlaceIs
    <3> HIDE DEF H, H2
    <3>3. CASE r[1] = "elements"
      <4>1. <<r[2], r[3]>> = <<j, i>> <=> r = q
        BY <3>2, <3>3
      <4> QED BY <2>8, <3>1, <3>3, <4>1 DEF Holding
    <3>4. CASE r[1] = "stack"
      <4>1. ASSUME NEW k \in 1 .. Len(s) PROVE s2[k].args = s[k].args
        <5>1. CASE k = n
          BY <2>2, <2>3, <2>5, <2>8, <5>1
        <5>2. CASE k \in 1 .. n - 1
          BY <2>8, <5>2
        <5>3. n \in Nat /\ k \in 1 .. n
          BY <2>8 DEF n, s
        <5>4. k = n \/ k \in 1 .. n - 1
          BY ONLY <5>3
        <5> QED BY <5>1, <5>2, <5>4
      <4>2. Len(s2) = Len(s) /\ r # q
        BY <2>8, <3>4 DEF n, s
      <4> QED BY <3>1, <3>4, <4>1, <4>2 DEF Holding
    <3>5. CASE r[1] \notin {"elements", "stack"}
      <4>1. r # q
        BY <3>5
      <4> QED BY <3>1, <3>5, <4>1 DEF Holding
    <3> QED BY <3>3, <3>4, <3>5
  <2> DEFINE B == {old} \ {Null}
             X2 == lost \union B
  <2>12. Own((DOMAIN heap \ lost) \ B, H2)
    <3>1. {q} \in SUBSET Places /\ (\A b \in B : \E r \in {q} : b = H[r]) /\ \A r \in {q} : H[r] # Null => H[r] \in B
      BY <2>9
    <3>2. \A r \in Places : H2[r] = IF r \in {q} THEN Null ELSE H[r]
      BY <2>11
    <3> DEFINE Q == {q}
               D == DOMAIN heap \ lost
    <3>3. /\ Own(D, H) /\ H2 \in [Places -> Ptr] /\ Q \in SUBSET Places
          /\ \A r \in Places : H2[r] = IF r \in Q THEN Null ELSE H[r]
          /\ (\A b \in B : \E r \in Q : b = H[r]) /\ \A r \in Q : H[r] # Null => H[r] \in B
      BY <2>2, <2>10, <3>1, <3>2
    <3> HIDE DEF B, H, H2, Q, D
    <3>4. Own(D \ B, H2)
      BY ONLY <3>3, OwnDrop
    <3> QED BY <3>4 DEF D
  <2>13. B \subseteq DOMAIN heap \ lost
    BY <2>2, <2>9 DEF Own
  <2>14. (DOMAIN heap \ lost) \ B = DOMAIN heap \ X2 /\ Blocked(X2, heap)
    BY <2>2, <2>13 DEF Blocked
  <2>15. Shown(g, s2, heap, tables)
    BY <2>2, <2>8 DEF Shown
  <2>16. Good(X2, s2, heap, tables, rest, g)
    BY <2>2, <2>8, <2>12, <2>14, <2>15 DEF Good, Sound
  <2>17. {old} \subseteq X2 \union {Null} /\ X2 \ {old} = lost
    BY <2>2, <2>13
  <2> HIDE DEF X2, old
  <2>18. Good(X2 \ {old}, s2, free(heap, {old}), tables, rest, g)
    BY <2>16, <2>17, FreeKeeps
  <2>19. heap' = free(heap, {old}) /\ stack' = s2 /\ outcome' = outcome
    BY <1>1, <1>3 DEF old, s2, i
  <2> QED BY <1>1, <2>17, <2>18, <2>19 DEF There
<1> QED BY <1>2, <1>3

(* What was in one place is in another.                                    *)
LEMMA OwnMove ==
  ASSUME NEW D, NEW H, Own(D, H), NEW H2 \in [Places -> Ptr], NEW p \in Places, NEW q \in Places, p # q,
         H[q] = Null, \A r \in Places : H2[r] = IF r = p THEN Null ELSE IF r = q THEN H[p] ELSE H[r]
  PROVE  Own(D, H2)
<1>1. ASSUME NEW x \in Places, NEW y \in Places, H2[x] = H2[y], H2[x] # Null PROVE x = y
  <2>1. x # p /\ y # p
    BY <1>1
  <2>2. CASE x = q /\ y # q
    <3>1. H2[x] = H[p] /\ H2[y] = H[y]
      BY <2>1, <2>2
    <3>2. H[p] = H[y] /\ H[p] # Null
      BY <1>1, <3>1
    <3> QED BY <2>1, <3>2 DEF Own
  <2>3. CASE x # q /\ y = q
    <3>1. H2[x] = H[x] /\ H2[y] = H[p]
      BY <2>1, <2>3
    <3>2. H[x] = H[p] /\ H[x] # Null
      BY <1>1, <3>1
    <3> QED BY <2>1, <3>2 DEF Own
  <2>4. CASE x # q /\ y # q
    <3>1. H2[x] = H[x] /\ H2[y] = H[y]
      BY <2>1, <2>4
    <3> QED BY <1>1, <3>1 DEF Own
  <2> QED BY <2>2, <2>3, <2>4
<1>2. ASSUME NEW x \in Places, H2[x] # Null PROVE H2[x] \in D
  <2>1. H2[x] = H[x] \/ H2[x] = H[p]
    BY <1>2
  <2> QED BY <1>2, <2>1 DEF Own
<1>3. ASSUME NEW b \in D PROVE \E x \in Places : H2[x] = b
  <2>1. PICK x \in Places : H[x] = b
    BY DEF Own
  <2>2. CASE x = p
    BY <2>1, <2>2
  <2>3. CASE x = q
    <3>1. b = Null
      BY <2>1, <2>3
    <3>2. H2[p] = b
      BY <3>1
    <3> QED BY <3>2
  <2>4. CASE x # p /\ x # q
    BY <2>1, <2>4
  <2> QED BY <2>2, <2>3, <2>4
<1> QED BY <1>1, <1>2, <1>3 DEF Own

\* The frame of DIM has the string of an element, and DIM has stored it in d.
Stored(s, T, s2, T2, f2, j, i, p, d) ==
  /\ s # <<>> /\ s[Len(s)].fn = "DIM" /\ s[Len(s)].at.index = j /\ s[Len(s)].i = i
  /\ Len(s[Len(s)].args) = 1 /\ s[Len(s)].args[1] = p
  /\ j \in 1 .. Len(DimsOf(T)) /\ i \in 1 .. Len(DimsOf(T)[j].str) /\ DimsOf(T)[j].id \in StringArrays
  /\ d = MatrixWith(DimsOf(T)[j], i, p) /\ T2 = DimSet(T, j, d)
  /\ Refilled(s, f2, s2, T2) /\ f2.fn = "DIM,"

LEMMA StoredIs ==
  ASSUME NEW h, NEW T, Tabled(h, T), NEW j \in 1 .. Len(DimsOf(T)), NEW c, c = DimsOf(T)[j],
         NEW i \in 1 .. Len(c.str), c.id \in StringArrays, NEW p \in Ptr, NEW d, d = MatrixWith(c, i, p)
  PROVE  Element(c, d, i, p) /\ DimAt(T, DimSet(T, j, d), j, d) /\ Tabled(h, DimSet(T, j, d))
<1>0. DimsOf(T) \in Seq(Matrix)
  BY DEF Tabled
<1>1. c \in Matrix /\ c.str \in Seq(Ptr) /\ c.id \in Arrays /\ c.data \in Ptr
  <2>1. c \in Matrix
    BY <1>0
  <2> QED BY <2>1 DEF Matrix
<1>2. d.id = c.id /\ d.data = c.data /\ d.str = [c.str EXCEPT ![i] = p] /\ d \in Matrix
  <2>1. [c.str EXCEPT ![i] = p] \in Seq(Ptr)
    BY <1>1
  <2> QED BY <1>1, <2>1 DEF Matrix, MatrixWith
<1>3. Len(d.str) = Len(c.str) /\ \A k \in 1 .. Len(c.str) : d.str[k] = IF k = i THEN p ELSE c.str[k]
  BY <1>1, <1>2
<1>4. Element(c, d, i, p)
  BY <1>2, <1>3 DEF Element
<1>5. /\ Roomy(h, VarsOf(T), VarBlock(T)) /\ Roomy(h, DimsOf(T), DimBlock(T))
      /\ \A k \in 1 .. Len(DimsOf(T)) : Sizable(h, DimsOf(T)[k])
  BY DEF Tabled
<1>6. Sizable(h, d)
  <2>1. Sizable(h, c) /\ c.str # <<>>
    BY <1>1, <1>5
  <2> QED BY <1>2, <1>3, <2>1 DEF Sizable
<1>7. d.id \notin StringArrays => d.str = <<>>
  BY <1>2
<1> DEFINE T2 == DimSet(T, j, d)
<1>8. T2 = DimSet(T, j, d)
  OBVIOUS
<1> HIDE DEF T2
<1>9. DimAt(T, T2, j, d) /\ Tabled(h, T2)
  BY <1>2, <1>5, <1>6, <1>7, <1>8, DimSetIs
<1> QED BY <1>4, <1>8, <1>9

LEMMA StoredKeeps ==
  ASSUME NEW X, NEW s, NEW h, NEW T, NEW R, NEW g, Good(X, s, h, T, R, g), Strings(g),
         NEW s2, NEW T2, NEW f2, NEW j, NEW i, NEW p, NEW d, Stored(s, T, s2, T2, f2, j, i, p, d)
  PROVE  Good(X, s2, h, T2, R, See(g, T, <<"elements", j, i>>, Reads(h, p)))
<1> DEFINE n == Len(s)
           c == DimsOf(T)[j]
           H == Held(s, T, R)
           H2 == Held(s2, T2, R)
           q == <<"elements", j, i>>
           t == <<"stack", n, 1>>
           f == [g[2][c.id] EXCEPT ![i] = Reads(h, p)]
           g2 == See(g, T, q, Reads(h, p))
<1>1. /\ Blocked(X, h) /\ Tabled(h, T) /\ Filed(R) /\ Stacked(s, T) /\ s \in Seq(Frame)
      /\ Own(DOMAIN h \ X, H) /\ Shown(g, s, h, T) /\ Ordered(DimsOf(T)) /\ DimsOf(T) \in Seq(Matrix)
  BY DEF Good, Sound, Stacked, Tabled
<1>2. /\ s # <<>> /\ s[n].fn = "DIM" /\ s[n].at.index = j /\ s[n].i = i
      /\ Len(s[n].args) = 1 /\ s[n].args[1] = p
      /\ j \in 1 .. Len(DimsOf(T)) /\ i \in 1 .. Len(c.str) /\ c.id \in StringArrays
      /\ d = MatrixWith(c, i, p) /\ T2 = DimSet(T, j, d) /\ Refilled(s, f2, s2, T2) /\ f2.fn = "DIM,"
  BY DEF Stored
<1> HIDE DEF c
<1>3. Refill(s, f2, s2, T2)
  <2>1. Stacked(s, T) /\ s # <<>> /\ s[Len(s)].fn \in {"DIM", "DIM,"} /\ Refilled(s, f2, s2, T2)
    BY <1>1, <1>2
  <2> QED BY ONLY <2>1, FillStacked
<1>4. /\ Stacked(s2, T2) /\ n \in Nat /\ n >= 1 /\ \A k \in 1 .. n - 1 : s2[k] = s[k]
      /\ s2[n] = f2 /\ Len(s2) = n /\ f2.args = <<>> /\ Unborn(s) = {<<j, i>>} /\ Unborn(s2) = {}
  BY <1>2, <1>3 DEF Refill
<1>5. n \in 1 .. n /\ c \in Matrix /\ Len(c.str) \in Nat /\ Len(DimsOf(T)) \in Nat
  <2>0. DimsOf(T)[j] \in Matrix /\ Len(DimsOf(T)) \in Nat
    <3>1. DimsOf(T) \in Seq(Matrix) /\ j \in 1 .. Len(DimsOf(T))
      BY <1>1, <1>2
    <3> QED BY ONLY <3>1
  <2>1. c \in Matrix /\ Len(DimsOf(T)) \in Nat
    BY <2>0 DEF c
  <2>2. Len(c.str) \in Nat
    BY <2>1 DEF Matrix
  <2>3. n \in 1 .. n
    BY ONLY <1>4
  <2> QED BY <2>1, <2>2, <2>3
<1>6. q \in Places /\ t \in Places /\ q # t /\ j \in Nat /\ i \in Nat
  <2>1. j \in Nat /\ i \in Nat /\ n \in Nat /\ 1 \in Nat
    <3>1. j \in 1 .. Len(DimsOf(T)) /\ i \in 1 .. Len(c.str) /\ n \in Nat /\ Len(c.str) \in Nat /\ Len(DimsOf(T)) \in Nat
      BY <1>2, <1>4, <1>5
    <3> QED BY ONLY <3>1
  <2>2. "elements" \in Kinds /\ "stack" \in Kinds
    BY DEF Kinds
  <2>3. q # t
    OBVIOUS
  <2>4. q \in Places /\ t \in Places
    BY ONLY <2>1, <2>2, PlaceOf DEF q, t
  <2> QED BY <2>1, <2>3, <2>4
<1>7. p \in Ptr
  <2>1. s[n] \in Frame
    BY <1>1, <1>5
  <2> DEFINE a == s[n].args
  <2>2. a \in Seq(Ptr) /\ Len(a) = 1 /\ a[1] = p
    BY <1>2, <2>1, Fields
  <2> HIDE DEF a
  <2> QED BY ONLY <2>2
<1>8. Element(c, d, i, p) /\ DimAt(T, T2, j, d) /\ Tabled(h, T2)
  BY <1>1, <1>2, <1>7, StoredIs DEF c
<1> HIDE DEF n
<1>9. H2 \in [Places -> Ptr]
  BY <1>1, <1>4, <1>8, HeldType DEF Stacked
<1>10. H[t] = p /\ H[q] = Null
  <2>1. H[t] = Holding(s, T, R, t) /\ H[q] = Holding(s, T, R, q)
    BY <1>6, HeldAt
  <2>2. t[1] = "stack" /\ t[2] = n /\ t[3] = 1 /\ q[1] = "elements" /\ q[2] = j /\ q[3] = i
    OBVIOUS
  <2>3. 1 \in 1 .. Len(s[n].args)
    <3>1. Len(s[n].args) = 1
      BY <1>2
    <3> QED BY ONLY <3>1
  <2> HIDE DEF H, q, t
  <2>4. Holding(s, T, R, t) = p
    BY <1>2, <1>5, <2>2, <2>3 DEF Holding, n
  <2>5. Holding(s, T, R, q) = Null
    BY <1>4, <2>2 DEF Holding
  <2> QED BY <2>1, <2>4, <2>5
<1>11. ASSUME NEW r \in Places PROVE H2[r] = IF r = t THEN Null ELSE IF r = q THEN p ELSE H[r]
  <2>1. H2[r] = Holding(s2, T2, R, r) /\ H[r] = Holding(s, T, R, r)
    BY HeldAt
  <2>2. r[1] \in Kinds /\ r[2] \in Nat /\ r[3] \in Nat /\ r = <<r[1], r[2], r[3]>>
    BY PlaceIs
  <2> HIDE DEF H, H2
  <2>3. CASE r[1] \notin {"arrays", "elements", "stack"}
    <3>1. r # t /\ r # q
      BY <2>3
    <3> QED BY <1>8, <2>1, <2>3, <3>1 DEF Holding, DimAt
  <2>4. CASE r[1] = "arrays"
    <3>1. \A k \in 1 .. Len(DimsOf(T)) : DimsOf(T2)[k].data = DimsOf(T)[k].data
      BY <1>8 DEF DimAt, Element, c
    <3>2. Len(DimsOf(T2)) = Len(DimsOf(T)) /\ r # q /\ r # t
      BY <1>8, <2>4 DEF DimAt
    <3> QED BY <2>1, <2>4, <3>1, <3>2 DEF Holding
  <2>5. CASE r[1] = "elements"
    <3>0. r # t
      BY <2>5
    <3>1. CASE r[2] = j
      <4>1. DimsOf(T2)[r[2]] = d /\ DimsOf(T)[r[2]] = c /\ Len(DimsOf(T2)) = Len(DimsOf(T)) /\ Len(d.str) = Len(c.str)
        BY <1>8, <3>1 DEF DimAt, Element, c
      <4>2. r[3] \in 1 .. Len(c.str) => d.str[r[3]] = IF r[3] = i THEN p ELSE c.str[r[3]]
        BY <1>8 DEF Element
      <4>3. (r = q <=> r[3] = i) /\ (<<r[2], r[3]>> \in Unborn(s) <=> r[3] = i) /\ <<r[2], r[3]>> \notin Unborn(s2)
        BY <1>4, <2>2, <2>5, <3>1
      <4> QED BY <1>2, <2>1, <2>5, <3>0, <3>1, <4>1, <4>2, <4>3 DEF Holding
    <3>2. CASE r[2] # j
      <4>1. r # q /\ <<r[2], r[3]>> \notin Unborn(s) /\ <<r[2], r[3]>> \notin Unborn(s2)
        BY <1>4, <3>2
      <4>2. Len(DimsOf(T2)) = Len(DimsOf(T)) /\ (r[2] \in 1 .. Len(DimsOf(T)) => DimsOf(T2)[r[2]] = DimsOf(T)[r[2]])
        BY <1>8, <3>2 DEF DimAt
      <4> QED BY <2>1, <2>5, <3>0, <4>1, <4>2 DEF Holding
    <3> QED BY <3>1, <3>2
  <2>6. CASE r[1] = "stack"
    <3>0. r # q /\ (r = t <=> r[2] = n /\ r[3] = 1)
      BY <2>2, <2>6
    <3>1. CASE r[2] = n
      <4>1. s2[n].args = <<>> /\ ~(r[3] \in 1 .. Len(s2[n].args))
        BY <1>4
      <4>2. H2[r] = Null
        BY <2>1, <2>6, <3>1, <4>1 DEF Holding
      <4>3. r[3] # 1 => H[r] = Null
        <5>1. r[3] # 1 => ~(r[3] \in 1 .. Len(s[n].args))
          <6>1. Len(s[n].args) = 1 /\ r[3] \in Nat
            BY <1>2, <2>2
          <6> QED BY ONLY <6>1
        <5> QED BY <2>1, <2>6, <3>1, <5>1 DEF Holding
      <4> QED BY <3>0, <3>1, <4>2, <4>3
    <3>2. CASE r[2] # n
      <4>1. r[2] \in 1 .. Len(s) => r[2] \in 1 .. n - 1
        <5>1. n \in Nat /\ r[2] \in Nat /\ Len(s) = n /\ r[2] # n
          BY <1>4, <2>2, <3>2 DEF n
        <5> QED BY ONLY <5>1
      <4>2. Len(s2) = Len(s) /\ (r[2] \in 1 .. Len(s) => s2[r[2]] = s[r[2]])
        BY <1>4, <4>1 DEF n
      <4> QED BY <2>1, <2>6, <3>0, <3>2, <4>2 DEF Holding
    <3> QED BY <3>1, <3>2
  <2> QED BY <2>3, <2>4, <2>5, <2>6
<1>12. Own(DOMAIN h \ X, H2)
  <2> DEFINE D == DOMAIN h \ X
  <2>1. /\ Own(D, H) /\ H2 \in [Places -> Ptr] /\ t \in Places /\ q \in Places /\ t # q /\ H[q] = Null
        /\ \A r \in Places : H2[r] = IF r = t THEN Null ELSE IF r = q THEN H[t] ELSE H[r]
    BY <1>1, <1>6, <1>9, <1>10, <1>11
  <2> HIDE DEF D, H, H2, t, q
  <2> QED BY ONLY <2>1, OwnMove DEF D
<1>13. Shown(g2, s2, h, T2)
  <2>1. Alone(j, s, h, s2, h, T)
    BY <1>4 DEF Alone
  <2>2. d.id = c.id /\ Len(d.str) = Len(c.str) /\ \A k \in 1 .. Len(c.str) : d.str[k] = IF k = i THEN p ELSE c.str[k]
    BY <1>8 DEF Element
  <2>3. /\ DOMAIN g[2][c.id] = 1 .. Len(c.str)
        /\ \A k \in 1 .. Len(c.str) : k # i => g[2][c.id][k] = Reads(h, c.str[k])
    BY <1>1, <1>2, <1>4 DEF Shown, c
  <2>4. Seen(f, d, j, s2, h)
    <3>1. DOMAIN f = 1 .. Len(d.str) /\ \A k \in 1 .. Len(d.str) : f[k] = IF k = i THEN Reads(h, p) ELSE g[2][c.id][k]
      BY <2>2, <2>3
    <3> HIDE DEF f
    <3> QED BY <2>2, <2>3, <3>1 DEF Seen
  <2>5. SeesArray(g, g2, d.id, f)
    <3>1. g2 = <<g[1], [g[2] EXCEPT ![c.id] = f]>>
      BY DEF See, c
    <3> HIDE DEF f, g2
    <3> QED BY <1>2, <2>2, <3>1 DEF SeesArray, Strings
  <2>6. /\ Shown(g, s, h, T) /\ Ordered(DimsOf(T)) /\ j \in 1 .. Len(DimsOf(T)) /\ DimAt(T, T2, j, d)
        /\ Alone(j, s, h, s2, h, T) /\ Seen(f, d, j, s2, h) /\ SeesArray(g, g2, d.id, f)
    BY <1>1, <1>2, <1>8, <2>1, <2>4, <2>5
  <2> HIDE DEF f, g2
  <2> QED BY ONLY <2>6, DimShown
<1> QED BY <1>1, <1>4, <1>8, <1>12, <1>13 DEF Good, Sound

(* The value of an initialiser moves from the stack into the array.        *)
LEMMA DimstoreKeeps ==
  ASSUME NEW g, Here(g), Strings(g), dimstore PROVE Wrote(g)
<1> DEFINE i == Top.i
           j == Top.at.index
           s == stack
           n == Len(stack)
           f == Top
           p == arg[1]
           d == MatrixWith(Dimmed, i, p)
           T2 == DimSet(tables, j, d)
           f2 == Element2(Top, "DIM,", <<>>, {})
           s2 == [stack EXCEPT ![Len(stack)] = f2]
           q == <<"elements", j, i>>
<1>1. /\ outcome = "running" /\ stack # <<>> /\ Top.fn = "DIM" /\ Len(arg) = 1
      /\ rest' = rest /\ lost' = lost /\ outcome' = outcome /\ heap' = heap
      /\ variables' = variables /\ vartable' = vartable /\ dimtable' = dimtable
      /\ dimvariables' = [dimvariables EXCEPT ![j].str[i] = p]
      /\ stack' = [stack EXCEPT ![Len(stack)] = [Top EXCEPT !.fn = "DIM,", !.args = <<>>, !.of = {}]]
  <2>1. dimvariables' = [dimvariables EXCEPT ![j].str[i] = p]
    BY DEF dimstore
  <2>2. stack' = [stack EXCEPT ![Len(stack)] = [Top EXCEPT !.fn = "DIM,", !.args = <<>>, !.of = {}]]
    BY DEF dimstore, Top
  <2>3. Has("DIM", 1) /\ UNCHANGED <<variables, vartable, dimtable, system, heap, Serrorflag>>
    BY DEF dimstore
  <2>4. In("DIM") /\ Len(arg) = 1
    BY <2>3 DEF Has, arg
  <2>5. rest' = rest /\ lost' = lost /\ outcome' = outcome /\ heap' = heap
    BY <2>3 DEF rest, system
  <2> QED BY <2>1, <2>2, <2>3, <2>4, <2>5 DEF In
<1>2. /\ f \in Filling /\ j \in 1 .. Len(dimvariables) /\ f.at.block = dimtable
      /\ dimvariables[j].id = f.array /\ f.array \in StringArrays
      /\ Dimmed \in Matrix /\ i \in 1 .. Len(Dimmed.str) /\ j \in Nat /\ Len(Dimmed.str) \in Nat
      /\ f.of = {[array |-> f.array, index |-> i]} /\ n \in 1 .. n /\ Dimmed = dimvariables[j]
  BY <1>1, FillTop DEF Dimmed
<1>3. /\ Good(lost, s, heap, tables, rest, g) /\ Blocked(lost, heap) /\ Tabled(heap, tables)
      /\ Stacked(s, tables) /\ s[n] = f /\ s \in Seq(Frame)
      /\ DimsOf(tables) = dimvariables /\ DimBlock(tables) = dimtable
      /\ VarsOf(tables) = variables /\ VarBlock(tables) = vartable /\ p \in Ptr
  <2>1. Top = stack[Len(stack)] /\ Good(lost, stack, heap, tables, rest, g) /\ arg \in Seq(Ptr)
    BY <1>1, TopIs
  <2>2. p \in Ptr
    <3>1. arg \in Seq(Ptr) /\ Len(arg) = 1
      BY <1>1, <2>1
    <3> HIDE DEF arg
    <3> QED BY ONLY <3>1
  <2> HIDE DEF p
  <2> QED BY <2>1, <2>2, DimsAre DEF Good, Sound, Stacked
<1>4. stack' = s2
  <2>1. [Top EXCEPT !.fn = "DIM,", !.args = <<>>, !.of = {}] = f2
    BY DEF Element2
  <2> QED BY <1>1, <2>1
<1>5. tables' = T2
  <2>1. dimvariables' = [dimvariables EXCEPT ![j] = d]
    BY <1>1, <1>2 DEF MatrixWith
  <2> QED BY <1>1, <1>3, <2>1, TablesAre DEF DimSet
<1>6. f2 = [fn |-> "DIM,", args |-> <<>>, i |-> i, of |-> {}, array |-> f.array, at |-> f.at]
  <2> DEFINE u == "DIM,"
             a == <<>>
             w == {}
  <2> HIDE DEF f, u, a, w
  <2>1. Element2(f, u, a, w) = [fn |-> u, args |-> a, i |-> f.i, of |-> w, array |-> f.array, at |-> f.at]
    BY <1>2, FillSet
  <2> QED BY <2>1 DEF f, i, u, a, w
<1> HIDE DEF f2
<1>7. /\ f2.fn = "DIM," /\ f2.args = <<>> /\ f2.of = {} /\ f2.array = f.array /\ f2.at = f.at /\ f2 \in Filling
  <2>1. f.at \in Address /\ <<>> \in Seq(Ptr) /\ {} \in SUBSET Naming /\ i \in Nat
    <3>1. i = f.i
      OBVIOUS
    <3> HIDE DEF f, i
    <3>2. f.at \in Address /\ f.i \in Nat
      BY <1>2 DEF Filling
    <3> QED BY <3>1, <3>2
  <2> HIDE DEF f, i
  <2>2. f2 \in Filling
    BY <1>2, <1>6, <2>1 DEF Filling
  <2> QED BY <1>6, <2>2
<1>8. Element(Dimmed, d, i, p) /\ DimAt(tables, T2, j, d)
  <2>1. Dimmed.id \in StringArrays
    BY <1>2
  <2> QED BY <1>2, <1>3, <2>1, StoredIs
<1>9. Aimed(f2, T2)
  <2>1. f2.at.block = DimBlock(T2) /\ f2.at.index = j /\ j \in 1 .. Len(DimsOf(T2)) /\ DimsOf(T2)[j].id = f2.array
    BY <1>2, <1>3, <1>7, <1>8 DEF DimAt
  <2> QED BY <1>7, <2>1 DEF Aimed, Assigning
<1>10. Refilled(s, f2, s2, T2)
  <2>1. OnTop(s, f2, s2)
    BY <1>1, <1>3, <1>7, TopSet DEF Frame
  <2> QED BY <1>7, <1>9, <2>1 DEF Refilled
<1>11. Stored(s, tables, s2, T2, f2, j, i, p, d)
  <2>1. s[Len(s)] = f /\ f.fn = "DIM" /\ Len(f.args) = 1 /\ f.args[1] = p
    BY <1>1, <1>3 DEF arg
  <2>2. Dimmed = DimsOf(tables)[j]
    BY <1>2, <1>3
  <2> QED BY <1>1, <1>2, <1>3, <1>7, <1>10, <2>1, <2>2 DEF Stored
<1> DEFINE v == Reads(heap, p)
<1>12. Good(lost, s2, heap, T2, rest, See(g, tables, q, v))
  <2>1. Good(lost, s, heap, tables, rest, g) /\ Strings(g) /\ Stored(s, tables, s2, T2, f2, j, i, p, d)
    BY <1>3, <1>11
  <2> HIDE DEF s, s2, T2, i, j, p, d
  <2> QED BY ONLY <2>1, StoredKeeps
<1>13. There(See(g, tables, q, v)) /\ v \in Texts \union {Unset}
  <2>1. v \in Texts \union {Unset}
    BY <1>3, ReadsIs
  <2> HIDE DEF v, s2, T2
  <2> QED BY <1>1, <1>4, <1>5, <1>12, <2>1 DEF There
<1>14. Spot(tables, q)
  <2>1. "elements" \in Kinds /\ j \in Nat /\ i \in Nat
    BY <1>2 DEF Kinds
  <2>2. q \in Places
    BY <2>1, PlaceOf
  <2>3. q[1] = "elements" /\ q[2] = j /\ q[3] = i
    OBVIOUS
  <2>4. DimsOf(tables)[j] = Dimmed /\ Dimmed.id \in StringArrays /\ j \in 1 .. Len(DimsOf(tables))
    BY <1>2, <1>3
  <2> QED BY <1>2, <2>2, <2>3, <2>4 DEF Spot
<1>15. NameOf(tables, q) \in target
  <2>1. NameOf(tables, q) = [array |-> f.array, index |-> i]
    BY <1>2, <1>3 DEF NameOf
  <2>2. NameOf(tables, q) \in f.of
    BY <1>2, <2>1
  <2>3. f \in Pointers(stack)
    BY <1>2, <1>3 DEF Pointers
  <2>4. "of" \in DOMAIN f
    <3> HIDE DEF f
    <3> QED BY <1>2 DEF Filling
  <2> QED BY <2>2, <2>3, <2>4 DEF target
<1> QED BY <1>13, <1>14, <1>15 DEF Wrote, WroteAt

-----------------------------------------------------------------------------
(* A run begins and ends                                                   *)

LEMMA SetupKeeps ==
  ASSUME NEW g, Here(g), labels = Null, setup PROVE There(g)
<1>1. /\ tables' = tables /\ stack' = stack /\ lost' = lost /\ outcome' = "running"
      /\ files' = files /\ curinputptr' = curinputptr
      /\ (heap' = heap /\ labels' = labels) \/ \E m \in malloc(heap, Other) : m.p # Null /\ labels' = m.p /\ heap' = m.h
  BY DEF setup, tables
<1>2. Good(lost, stack, heap, tables, rest, g)
  BY DEF Here
<1>3. CASE heap' = heap /\ labels' = labels
  BY <1>1, <1>2, <1>3 DEF There, rest
<1>4. CASE \E m \in malloc(heap, Other) : m.p # Null /\ labels' = m.p /\ heap' = m.h
  <2>1. PICK m \in malloc(heap, Other) : m.p # Null /\ labels' = m.p /\ heap' = m.h
    BY <1>4
  <2>2. m \in Makes(heap)
    BY MakesAll
  <2>3. m.p \in Ptr /\ m.p \notin lost /\ Good(lost \union ({m.p} \ {Null}), stack, m.h, tables, rest, g)
    BY <1>2, <2>2, MakeKeeps
  <2> DEFINE X == lost \union ({m.p} \ {Null})
             R2 == <<m.p, rest[2], rest[3]>>
  <2>4. m.p \in X \union {Null} /\ Good(X, stack, m.h, tables, rest, g) /\ R2 = <<m.p, rest[2], rest[3]>>
    BY <2>3
  <2> HIDE DEF X, R2
  <2>5. Good((X \ {m.p}) \union ({rest[1]} \ {Null}), stack, m.h, tables, R2, g)
    BY <2>4, LabelsKeeps
  <2>6. (X \ {m.p}) \union ({rest[1]} \ {Null}) = lost
    BY <2>1, <2>3 DEF X, rest
  <2>7. rest' = R2
    BY <1>1, <2>1 DEF R2, rest
  <2> QED BY <1>1, <2>1, <2>5, <2>6, <2>7 DEF There
<1> QED BY <1>1, <1>3, <1>4

(* Nothing but what is nobody's is left.                                   *)
Bare == <<(<<>>), Null, (<<>>), Null>>
None == <<Null, [i \in 1 .. FATPTRNUM |-> NoFile], Null>>
Blank == <<[n \in StringNames |-> Unset], [a \in StringArrays |-> <<>>]>>

LEMMA BareIs ==
  /\ VarsOf(Bare) = <<>> /\ DimsOf(Bare) = <<>> /\ VarBlock(Bare) = Null /\ DimBlock(Bare) = Null
  /\ Len(VarsOf(Bare)) = 0 /\ Len(DimsOf(Bare)) = 0
BY DEF VarsOf, DimsOf, VarBlock, DimBlock, Bare

LEMMA BareKeeps ==
  ASSUME NEW X, NEW h, Blocked(X, h), DOMAIN h = X
  PROVE  Good(X, <<>>, h, Bare, None, Blank) /\ Strings(Blank)
<1> DEFINE s == <<>>
           H == Held(s, Bare, None)
<1>1. s \in Seq(Frame) /\ Len(s) = 0 /\ <<>> \in Seq(Scalar) /\ <<>> \in Seq(Matrix) /\ Null \in Ptr
  BY DEF Ptr
<1> HIDE DEF s
<1>2. Tabled(h, Bare)
  BY <1>1, BareIs DEF Tabled, Ordered, Roomy
<1>3. Filed(None)
  BY <1>1 DEF Filed, None, NoFile, File
<1>4. Stacked(s, Bare)
  BY <1>1 DEF Stacked, Shaped
<1>5. Unborn(s) = {}
  BY <1>1 DEF Unborn
<1>6. ASSUME NEW p \in Places PROVE H[p] = Null
  <2>1. H[p] = Holding(s, Bare, None, p)
    BY HeldAt
  <2>2. p[2] \in 1 .. FATPTRNUM => None[2][p[2]].ptr = Null
    BY DEF None, NoFile
  <2>3. None[1] = Null /\ None[3] = Null
    BY DEF None
  <2>4. ~(p[2] \in 1 .. Len(s)) /\ ~(p[2] \in 1 .. Len(VarsOf(Bare))) /\ ~(p[2] \in 1 .. Len(DimsOf(Bare)))
    BY <1>1, BareIs
  <2> HIDE DEF H
  <2> QED BY <2>1, <2>2, <2>3, <2>4, BareIs DEF Holding
<1>7. Own(DOMAIN h \ X, H)
  <2>1. DOMAIN h \ X = {}
    OBVIOUS
  <2>2. H \in [Places -> Ptr]
    BY <1>1, <1>2, <1>3, HeldType
  <2> HIDE DEF H
  <2> QED BY <1>6, <2>1, <2>2 DEF Own
<1>8. Shown(Blank, s, h, Bare)
  BY BareIs DEF Shown, Blank
<1>9. Strings(Blank)
  BY DEF Strings, Blank
<1>10. Good(X, s, h, Bare, None, Blank)
  BY <1>2, <1>3, <1>4, <1>7, <1>8 DEF Good, Sound
<1> QED BY <1>9, <1>10 DEF s

\* What cleanup frees.
OfFiles(R) == {f.ptr : f \in Pointers(R[2])}
OfVariables(T) == {v.sval : v \in Pointers(VarsOf(T))}
OfElements(T) == UNION {Pointers(d.str) : d \in Pointers(DimsOf(T))}
OfArrays(T) == {d.data : d \in Pointers(DimsOf(T))}
OfOthers(T, R) == {VarBlock(T), DimBlock(T), R[3], R[1]}
Everything(T, R) ==
  OfFiles(R) \union OfVariables(T) \union OfElements(T) \union OfArrays(T) \union OfOthers(T, R)

LEMMA EverythingIs ==
  ASSUME NEW X, NEW s, NEW h, NEW T, NEW R, Sound(X, s, h, T, R), s = <<>>
  PROVE  Everything(T, R) \ {Null} = DOMAIN h \ X
<1> DEFINE F == Everything(T, R)
           H == Held(s, T, R)
<1>1. /\ VarsOf(T) \in Seq(Scalar) /\ DimsOf(T) \in Seq(Matrix) /\ R[2] \in [1 .. FATPTRNUM -> File]
      /\ Own(DOMAIN h \ X, H) /\ Null \notin DOMAIN h
  BY NoNull DEF Sound, Tabled, Filed
<1>2. DOMAIN VarsOf(T) = 1 .. Len(VarsOf(T)) /\ DOMAIN DimsOf(T) = 1 .. Len(DimsOf(T)) /\ DOMAIN R[2] = 1 .. FATPTRNUM
  BY <1>1
<1>3. ASSUME NEW j \in 1 .. Len(DimsOf(T)) PROVE DOMAIN DimsOf(T)[j].str = 1 .. Len(DimsOf(T)[j].str)
  <2>1. DimsOf(T)[j] \in Matrix
    BY <1>1
  <2>2. DimsOf(T)[j].str \in Seq(Ptr)
    BY <2>1 DEF Matrix
  <2> QED BY <2>2
<1>4. Unborn(s) = {} /\ Len(s) = 0
  BY DEF Unborn
<1> DEFINE D == DOMAIN h \ X
<1>5. /\ VarBlock(T) # Null => VarBlock(T) \in D
      /\ DimBlock(T) # Null => DimBlock(T) \in D
      /\ R[1] # Null => R[1] \in D
      /\ R[3] # Null => R[3] \in D
      /\ \A i \in 1 .. FATPTRNUM : R[2][i].ptr # Null => R[2][i].ptr \in D
      /\ \A i \in 1 .. Len(VarsOf(T)) : VarsOf(T)[i].sval # Null => VarsOf(T)[i].sval \in D
      /\ \A j \in 1 .. Len(DimsOf(T)) : DimsOf(T)[j].data # Null => DimsOf(T)[j].data \in D
      /\ \A j \in 1 .. Len(DimsOf(T)) : \A i \in 1 .. Len(DimsOf(T)[j].str) :
           DimsOf(T)[j].str[i] # Null => DimsOf(T)[j].str[i] \in D
  <2> DEFINE N == Unborn(s)
  <2>1. \A j, i : <<j, i>> \notin N
    BY <1>4
  <2> HIDE DEF N
  <2>2. /\ VarBlock(T) # Null => VarBlock(T) \in D
        /\ DimBlock(T) # Null => DimBlock(T) \in D
        /\ R[1] # Null => R[1] \in D
        /\ R[3] # Null => R[3] \in D
        /\ \A i \in 1 .. FATPTRNUM : R[2][i].ptr # Null => R[2][i].ptr \in D
        /\ \A i \in 1 .. Len(VarsOf(T)) : VarsOf(T)[i].sval # Null => VarsOf(T)[i].sval \in D
        /\ \A j \in 1 .. Len(DimsOf(T)) : DimsOf(T)[j].data # Null => DimsOf(T)[j].data \in D
        /\ \A j \in 1 .. Len(DimsOf(T)) : \A i \in 1 .. Len(DimsOf(T)[j].str) :
             <<j, i>> \notin N /\ DimsOf(T)[j].str[i] # Null => DimsOf(T)[j].str[i] \in D
    BY ONLY Sound(X, s, h, T, R), InUse DEF D, N
  <2> HIDE DEF D
  <2> QED BY ONLY <2>1, <2>2
<1>6. ASSUME NEW b \in F, b # Null PROVE b \in D
  <2> HIDE DEF D
  <2>1. CASE b \in OfFiles(R)
    <3>1. PICK i \in DOMAIN R[2] : b = R[2][i].ptr
      BY <2>1 DEF Pointers, OfFiles
    <3> QED BY <1>2, <1>5, <1>6, <3>1
  <2>2. CASE b \in OfVariables(T)
    <3>1. PICK i \in DOMAIN VarsOf(T) : b = VarsOf(T)[i].sval
      BY <2>2 DEF Pointers, OfVariables
    <3> QED BY <1>2, <1>5, <1>6, <3>1
  <2>3. CASE b \in OfArrays(T)
    <3>1. PICK i \in DOMAIN DimsOf(T) : b = DimsOf(T)[i].data
      BY <2>3 DEF Pointers, OfArrays
    <3> QED BY <1>2, <1>5, <1>6, <3>1
  <2>4. CASE b \in OfElements(T)
    <3>1. PICK j \in DOMAIN DimsOf(T) : b \in Pointers(DimsOf(T)[j].str)
      BY <2>4 DEF Pointers, OfElements
    <3>2. PICK i \in DOMAIN DimsOf(T)[j].str : b = DimsOf(T)[j].str[i]
      BY <3>1 DEF Pointers
    <3> QED BY <1>2, <1>3, <1>5, <1>6, <3>1, <3>2
  <2>5. CASE b \in OfOthers(T, R)
    BY <1>5, <1>6, <2>5 DEF OfOthers
  <2> QED BY <2>1, <2>2, <2>3, <2>4, <2>5 DEF Everything
<1>7. ASSUME NEW b \in D PROVE b \in F
  <2>1. PICK p \in Places : H[p] = b
    BY <1>1 DEF Own
  <2>2. Holding(s, T, R, p) = b /\ b # Null
    BY <1>1, <2>1, HeldAt
  <2>3. \/ p[2] \in 1 .. Len(VarsOf(T)) /\ b = VarsOf(T)[p[2]].sval
        \/ p[2] \in 1 .. Len(DimsOf(T)) /\ b = DimsOf(T)[p[2]].data
        \/ p[2] \in 1 .. Len(DimsOf(T)) /\ p[3] \in 1 .. Len(DimsOf(T)[p[2]].str) /\ b = DimsOf(T)[p[2]].str[p[3]]
        \/ p[2] \in 1 .. FATPTRNUM /\ b = R[2][p[2]].ptr
        \/ b \in OfOthers(T, R)
    BY <1>4, <2>2 DEF Holding, OfOthers
  <2>4. CASE p[2] \in 1 .. Len(VarsOf(T)) /\ b = VarsOf(T)[p[2]].sval
    <3>1. b \in OfVariables(T)
      BY <1>2, <2>4 DEF Pointers, OfVariables
    <3> QED BY <3>1 DEF Everything
  <2>5. CASE p[2] \in 1 .. Len(DimsOf(T)) /\ b = DimsOf(T)[p[2]].data
    <3>1. b \in OfArrays(T)
      BY <1>2, <2>5 DEF Pointers, OfArrays
    <3> QED BY <3>1 DEF Everything
  <2>6. CASE p[2] \in 1 .. Len(DimsOf(T)) /\ p[3] \in 1 .. Len(DimsOf(T)[p[2]].str) /\ b = DimsOf(T)[p[2]].str[p[3]]
    <3> DEFINE d == DimsOf(T)[p[2]]
    <3>1. d \in Pointers(DimsOf(T)) /\ b \in Pointers(d.str)
      BY <1>2, <1>3, <2>6 DEF Pointers
    <3> HIDE DEF d
    <3>2. b \in OfElements(T)
      BY <3>1 DEF OfElements
    <3> QED BY <3>2 DEF Everything
  <2>7. CASE p[2] \in 1 .. FATPTRNUM /\ b = R[2][p[2]].ptr
    <3>1. b \in OfFiles(R)
      BY <1>2, <2>7 DEF Pointers, OfFiles
    <3> QED BY <3>1 DEF Everything
  <2>8. CASE b \in OfOthers(T, R)
    BY <2>8 DEF Everything
  <2> QED BY <2>3, <2>4, <2>5, <2>6, <2>7, <2>8
<1> QED BY <1>1, <1>6, <1>7

LEMMA CleanupKeeps ==
  ASSUME NEW g, Here(g), cleanup
  PROVE  /\ Good(lost', stack', heap', tables', rest', Blank) /\ Strings(Blank)
         /\ tables' = Bare /\ rest' = None /\ outcome' = "idle" /\ labels' = Null
<1>1. /\ stack = <<>> /\ stack' = <<>> /\ outcome' = "idle" /\ labels' = Null /\ lost' = lost
      /\ variables' = <<>> /\ vartable' = Null /\ dimvariables' = <<>> /\ dimtable' = Null
      /\ files' = [i \in 1 .. FATPTRNUM |-> NoFile] /\ curinputptr' = Null
  BY DEF cleanup
<1>2. heap' = free(heap, Everything(tables, rest))
  <2>1. VarsOf(tables) = variables /\ DimsOf(tables) = dimvariables /\ VarBlock(tables) = vartable /\ DimBlock(tables) = dimtable
        /\ rest[1] = labels /\ rest[2] = files /\ rest[3] = curinputptr
    BY DEF VarsOf, DimsOf, VarBlock, DimBlock, tables, rest
  <2> DEFINE A == {f.ptr : f \in Pointers(files)}
             B == {v.sval : v \in Pointers(variables)}
             C == UNION {Pointers(d.str) : d \in Pointers(dimvariables)}
             D == {d.data : d \in Pointers(dimvariables)}
             E == {vartable, dimtable, curinputptr, labels}
  <2>2. heap' = free(heap, A \union B \union C \union D \union E)
    BY DEF cleanup
  <2>3. A = OfFiles(rest) /\ B = OfVariables(tables) /\ C = OfElements(tables) /\ D = OfArrays(tables)
        /\ E = OfOthers(tables, rest)
    BY <2>1 DEF OfFiles, OfVariables, OfElements, OfArrays, OfOthers
  <2> HIDE DEF A, B, C, D, E
  <2> QED BY <2>2, <2>3 DEF Everything
<1>3. Sound(lost, stack, heap, tables, rest) /\ Blocked(lost, heap) /\ Null \notin DOMAIN heap
  BY NoNull DEF Here, Good, Sound
<1> DEFINE F == Everything(tables, rest)
<1>4. F \ {Null} = DOMAIN heap \ lost
  BY <1>1, <1>3, EverythingIs
<1> HIDE DEF F
<1>5. heap' = [c \in DOMAIN heap \ F |-> heap[c]]
  BY <1>2 DEF free, F
<1>6. DOMAIN heap' = lost
  BY <1>3, <1>4, <1>5 DEF Blocked
<1>7. Blocked(lost, heap')
  BY <1>3, <1>5, <1>6 DEF Blocked
<1>8. Good(lost, <<>>, heap', Bare, None, Blank) /\ Strings(Blank)
  BY <1>6, <1>7, BareKeeps
<1>9. tables' = Bare /\ rest' = None
  BY <1>1 DEF tables, rest, Bare, None
<1> QED BY <1>1, <1>8, <1>9

-----------------------------------------------------------------------------
(* What the program sees in the tables                                     *)

Says(h, p) == IF IsText(h, p) THEN h[p].text ELSE Unset
StringOf(h, T) == [n \in StringNames |->
  LET v == findvariable(VarsOf(T), n) IN IF v.found THEN Says(h, VarsOf(T)[v.at].sval) ELSE Unset]
ArrayOf(h, T) == [a \in StringArrays |->
  LET v == findvariable(DimsOf(T), a)
  IN  IF v.found THEN [i \in DOMAIN DimsOf(T)[v.at].str |-> Says(h, DimsOf(T)[v.at].str[i])] ELSE <<>>]

LEMMA SaysIs ==
  ASSUME NEW X, NEW h, Blocked(X, h), NEW p
  PROVE  Says(h, p) = Reads(h, p)
<1>1. CASE p \notin DOMAIN h
  BY <1>1 DEF Says, IsText, Reads
<1>2. CASE p \in DOMAIN h /\ h[p] \in [text : Texts]
  <2>1. "text" \in DOMAIN h[p]
    BY <1>2
  <2> QED BY <1>2, <2>1 DEF Says, IsText, Reads
<1>3. CASE p \in DOMAIN h /\ h[p] \in [room : Nat]
  <2>1. "text" \notin DOMAIN h[p]
    BY <1>3
  <2>2. h[p] \notin [text : Texts]
    BY <2>1
  <2> QED BY <1>3, <2>1, <2>2 DEF Says, IsText, Reads
<1>4. p \in DOMAIN h => h[p] \in [text : Texts] \/ h[p] \in [room : Nat]
  BY DEF Blocked, Content
<1> QED BY <1>1, <1>2, <1>3, <1>4

(* A name is at one place of its table, or nowhere.                        *)
LEMMA NameIs ==
  ASSUME NEW S, NEW s \in Seq(S), Ordered(s), NEW n \in Nat, NEW v, v = findvariable(s, n)
  PROVE  /\ v.found => v.at \in 1 .. Len(s) /\ s[v.at].id = n
         /\ ~v.found => \A i \in 1 .. Len(s) : s[i].id # n
         /\ \A i \in 1 .. Len(s) : s[i].id = n => v.found /\ v.at = i
BY FindsIs

LEMMA NamesAre ==
  /\ \A n \in StringNames : n \in Nat
  /\ \A a \in StringArrays : a \in Nat
BY NamesAssumption

LEMMA StringIs ==
  ASSUME NEW X, NEW h, Blocked(X, h), NEW T, Tabled(h, T), NEW n \in StringNames
  PROVE  /\ \A i \in 1 .. Len(VarsOf(T)) : VarsOf(T)[i].id = n => StringOf(h, T)[n] = Reads(h, VarsOf(T)[i].sval)
         /\ (\A i \in 1 .. Len(VarsOf(T)) : VarsOf(T)[i].id # n) => StringOf(h, T)[n] = Unset
<1> DEFINE s == VarsOf(T)
           v == findvariable(s, n)
<1>1. s \in Seq(Scalar) /\ Ordered(s) /\ n \in Nat
  BY NamesAre DEF Tabled
<1>2. /\ v.found => v.at \in 1 .. Len(s) /\ s[v.at].id = n
      /\ \A i \in 1 .. Len(s) : s[i].id = n => v.found /\ v.at = i
  BY <1>1, NameIs
<1>3. StringOf(h, T)[n] = IF v.found THEN Says(h, s[v.at].sval) ELSE Unset
  BY DEF StringOf
<1> HIDE DEF v
<1> QED BY <1>2, <1>3, SaysIs

LEMMA ArrayIs ==
  ASSUME NEW X, NEW h, Blocked(X, h), NEW T, Tabled(h, T), NEW a \in StringArrays
  PROVE  /\ \A j \in 1 .. Len(DimsOf(T)) : DimsOf(T)[j].id = a =>
              /\ DOMAIN ArrayOf(h, T)[a] = 1 .. Len(DimsOf(T)[j].str)
              /\ \A i \in 1 .. Len(DimsOf(T)[j].str) : ArrayOf(h, T)[a][i] = Reads(h, DimsOf(T)[j].str[i])
         /\ (\A j \in 1 .. Len(DimsOf(T)) : DimsOf(T)[j].id # a) => ArrayOf(h, T)[a] = <<>>
<1> DEFINE s == DimsOf(T)
           v == findvariable(s, a)
<1>1. s \in Seq(Matrix) /\ Ordered(s) /\ a \in Nat
  BY NamesAre DEF Tabled
<1>2. /\ v.found => v.at \in 1 .. Len(s) /\ s[v.at].id = a
      /\ \A i \in 1 .. Len(s) : s[i].id = a => v.found /\ v.at = i
  BY <1>1, NameIs
<1>3. ArrayOf(h, T)[a] = IF v.found THEN [i \in DOMAIN s[v.at].str |-> Says(h, s[v.at].str[i])] ELSE <<>>
  BY DEF ArrayOf
<1> HIDE DEF v
<1>4. ASSUME NEW j \in 1 .. Len(s), s[j].id = a
      PROVE  /\ DOMAIN ArrayOf(h, T)[a] = 1 .. Len(s[j].str)
             /\ \A i \in 1 .. Len(s[j].str) : ArrayOf(h, T)[a][i] = Reads(h, s[j].str[i])
  <2>1. s[j] \in Matrix
    BY <1>1
  <2>2. s[j].str \in Seq(Ptr)
    BY <2>1 DEF Matrix
  <2>3. DOMAIN s[j].str = 1 .. Len(s[j].str)
    BY <2>2
  <2>4. ArrayOf(h, T)[a] = [i \in 1 .. Len(s[j].str) |-> Says(h, s[j].str[i])]
    BY <1>2, <1>3, <1>4, <2>3
  <2> QED BY <2>4, SaysIs
<1>5. (\A j \in 1 .. Len(s) : s[j].id # a) => ArrayOf(h, T)[a] = <<>>
  BY <1>2, <1>3
<1> QED BY <1>4, <1>5

LEMMA SeesIs ==
  ASSUME NEW X, NEW h, Blocked(X, h), NEW T, Tabled(h, T), NEW s, NEW g, g = <<StringOf(h, T), ArrayOf(h, T)>>
  PROVE  Shown(g, s, h, T) /\ Strings(g)
<1>1. g[1] = StringOf(h, T) /\ g[2] = ArrayOf(h, T)
  OBVIOUS
<1>2. Strings(g)
  BY <1>1 DEF Strings, StringOf, ArrayOf
<1>3. ASSUME NEW i \in 1 .. Len(VarsOf(T)), VarsOf(T)[i].id \in StringNames
      PROVE  g[1][VarsOf(T)[i].id] = Reads(h, VarsOf(T)[i].sval)
  BY <1>1, <1>3, StringIs
<1>4. ASSUME NEW n \in StringNames, \A i \in 1 .. Len(VarsOf(T)) : VarsOf(T)[i].id # n PROVE g[1][n] = Unset
  BY <1>1, <1>4, StringIs
<1>5. ASSUME NEW j \in 1 .. Len(DimsOf(T)), DimsOf(T)[j].id \in StringArrays
      PROVE  /\ DOMAIN g[2][DimsOf(T)[j].id] = 1 .. Len(DimsOf(T)[j].str)
             /\ \A i \in 1 .. Len(DimsOf(T)[j].str) : g[2][DimsOf(T)[j].id][i] = Reads(h, DimsOf(T)[j].str[i])
  BY <1>1, <1>5, ArrayIs, SMTT(30)
<1>6. ASSUME NEW a \in StringArrays, \A j \in 1 .. Len(DimsOf(T)) : DimsOf(T)[j].id # a PROVE g[2][a] = <<>>
  BY <1>1, <1>6, ArrayIs
<1> QED BY <1>2, <1>3, <1>4, <1>5, <1>6 DEF Shown

Sight == <<string, array>>

LEMMA SightIs ==
  string = StringOf(heap, tables) /\ array = ArrayOf(heap, tables)
<1>1. VarsOf(tables) = variables /\ DimsOf(tables) = dimvariables
  BY DEF VarsOf, DimsOf, tables
<1>2. string = StringOf(heap, tables)
  BY <1>1 DEF string, StringOf, Shows, Says
<1>3. array = ArrayOf(heap, tables)
  BY <1>1 DEF array, ArrayOf, Shows, Says, finddimvar
<1> QED BY <1>2, <1>3

LEMMA SightAfter ==
  string' = StringOf(heap', tables') /\ array' = ArrayOf(heap', tables')
<1>1. VarsOf(tables') = variables' /\ DimsOf(tables') = dimvariables'
  BY DEF VarsOf, DimsOf, tables
<1>2. string' = StringOf(heap', tables')
  BY <1>1 DEF string, StringOf, Shows, Says
<1>3. array' = ArrayOf(heap', tables')
  BY <1>1 DEF array, ArrayOf, Shows, Says, finddimvar
<1> QED BY <1>2, <1>3

LEMMA SoundSight ==
  ASSUME Sound(lost, stack, heap, tables, rest) PROVE Here(Sight) /\ Strings(Sight)
<1>1. Blocked(lost, heap) /\ Tabled(heap, tables)
  BY DEF Sound
<1>2. Sight = <<StringOf(heap, tables), ArrayOf(heap, tables)>>
  BY SightIs DEF Sight
<1>3. Shown(Sight, stack, heap, tables) /\ Strings(Sight)
  BY <1>1, <1>2, SeesIs
<1> QED BY <1>3 DEF Here, Good

(* A step that assigns, or is DIM, leaves no element that waits.           *)
LEMMA NoneIs ==
  ASSUME NEW s, \A i \in 1 .. Len(s) : s[i].fn # "DIM" PROVE Unborn(s) = {}
BY DEF Unborn

LEMMA DoneUnborn ==
  ASSUME NEW s \in Seq(Frame), Calm(s) PROVE Unborn(Done(s)) = {}
<1>1. \A i \in 1 .. Len(s) : s[i].fn # "DIM"
  BY DEF Calm, Lines
<1>2. CASE s = <<>> \/ s[Len(s)].fn # "line"
  BY <1>1, <1>2, NoneIs DEF Done
<1>3. CASE ~(s = <<>> \/ s[Len(s)].fn # "line")
  <2> DEFINE n == Len(s)
             f2 == [s[n] EXCEPT !.fn = "line done"]
             s2 == [s EXCEPT ![n] = f2]
  <2>1. Done(s) = s2
    BY <1>3 DEF Done
  <2>2. s[n] \in Frame /\ n \in 1 .. n
    BY <1>3
  <2>3. s[n] \in Plain
    BY <1>3, <2>2, Fields DEF Assigning
  <2>4. f2.fn = "line done"
    BY <2>3 DEF Plain
  <2> HIDE DEF f2
  <2>5. Len(s2) = n /\ \A i \in 1 .. n : s2[i] = IF i = n THEN f2 ELSE s[i]
    OBVIOUS
  <2>6. \A i \in 1 .. Len(s2) : s2[i].fn # "DIM"
    BY <1>1, <2>4, <2>5
  <2> HIDE DEF s2
  <2> QED BY <2>1, <2>6, NoneIs
<1> QED BY <1>2, <1>3

LEMMA PushedUnborn ==
  ASSUME NEW s \in Seq(Frame), Calm(s), NEW f, f.fn # "DIM" PROVE Unborn(Append(s, f)) = {}
<1>1. \A i \in 1 .. Len(s) : s[i].fn # "DIM"
  BY DEF Calm, Lines
<1> DEFINE s2 == Append(s, f)
<1>2. Len(s2) = Len(s) + 1 /\ \A i \in 1 .. Len(s2) : s2[i] = IF i = Len(s) + 1 THEN f ELSE s[i]
  OBVIOUS
<1>3. \A i \in 1 .. Len(s2) : s2[i].fn # "DIM"
  BY <1>1, <1>2
<1> HIDE DEF s2
<1> QED BY <1>3, NoneIs DEF s2

LEMMA AssignedUnborn ==
  ASSUME NEW g, Here(g), dolet \/ domidstring \/ doinput PROVE Unborn(stack') = {}
<1>1. stack # <<>> /\ Top.fn \in {"LET", "MID", "INPUT"} /\ stack' = Done(Under)
  BY DEF dolet, domidstring, doinput, Has, In, Proceed
<1>2. Top = stack[Len(stack)] /\ Under = Below(stack) /\ Stacked(stack, tables)
  BY <1>1, TopIs
<1>3. Calm(Under)
  BY <1>1, <1>2, ShapeIs DEF Parts
<1>4. Under \in Seq(Frame)
  BY <1>1, <1>2, BelowIs DEF Stacked
<1> QED BY <1>1, <1>3, <1>4, DoneUnborn

LEMMA DodimUnborn ==
  ASSUME NEW g, Here(g), dodim PROVE Unborn(stack') = {}
<1>1. PICK a \in Arrays, size \in 0 .. MaxSize : \E x \in dimension(a, size) :
        /\ Begins /\ UNCHANGED <<variables, vartable, system>> /\ dimtable' = x.t
        /\ Dims(a, size, x, findvariable(x.s, a).at, x.s[findvariable(x.s, a).at])
  BY DodimIs
<1>2. PICK x \in dimension(a, size) :
        /\ Begins /\ UNCHANGED <<variables, vartable, system>> /\ dimtable' = x.t
        /\ Dims(a, size, x, findvariable(x.s, a).at, x.s[findvariable(x.s, a).at])
  BY <1>1
<1>3. Calm(stack) /\ stack \in Seq(Frame)
  BY <1>2, BeginsCalm DEF Here, Good, Sound, Stacked
<1> DEFINE f == IF a \notin StringArrays THEN Call("PRINT", <<>>)
                ELSE Initial(a, x.t, findvariable(x.s, a).at)
<1>4. stack' = Done(stack) \/ stack' = Append(stack, f)
  BY <1>2 DEF Dims
<1>5. f.fn # "DIM"
  <2>1. CASE a \notin StringArrays
    BY <2>1 DEF Call
  <2>2. CASE a \in StringArrays
    BY <2>2 DEF Initial
  <2> QED BY <2>1, <2>2
<1> HIDE DEF f
<1> QED BY <1>3, <1>4, <1>5, DoneUnborn, PushedUnborn

LEMMA DimstoreUnborn ==
  ASSUME NEW g, Here(g), dimstore PROVE Unborn(stack') = {}
<1> DEFINE f2 == [Top EXCEPT !.fn = "DIM,", !.args = <<>>, !.of = {}]
           n == Len(stack)
<1>1. stack # <<>> /\ Top.fn = "DIM" /\ stack' = [stack EXCEPT ![n] = f2]
  BY DEF dimstore, Has, In, Top
<1>2. Top = stack[n] /\ Under = Below(stack) /\ Stacked(stack, tables)
  BY <1>1, TopIs
<1>3. Calm(Below(stack)) /\ stack \in Seq(Frame) /\ n \in 1 .. n
  <2>1. stack \in Seq(Frame)
    BY <1>2 DEF Stacked
  <2>2. Calm(Below(stack))
    BY <1>1, <1>2, ShapeIs DEF Parts
  <2>3. n \in 1 .. n
    BY <1>1, <2>1
  <2> QED BY <2>1, <2>2, <2>3
<1>4. Top \in Filling
  <2>1. Top \in Frame
    BY <1>2, <1>3
  <2> QED BY <1>1, <2>1, Fields
<1>5. f2.fn = "DIM,"
  <2> HIDE DEF Top
  <2> QED BY <1>4 DEF Filling
<1> HIDE DEF f2
<1>6. \A i \in 1 .. n : i # n => stack[i].fn \in Lines
  <2>1. Len(Below(stack)) = n - 1 /\ \A i \in 1 .. n - 1 : Below(stack)[i] = stack[i]
    BY <1>1, <1>3, BelowIs
  <2>2. \A i \in 1 .. n : i # n => i \in 1 .. n - 1
    BY ONLY <1>3
  <2> QED BY <1>3, <2>1, <2>2 DEF Calm
<1>7. Len(stack') = n /\ \A i \in 1 .. n : stack'[i] = IF i = n THEN f2 ELSE stack[i]
  BY <1>1, <1>3
<1>8. \A i \in 1 .. Len(stack') : stack'[i].fn # "DIM"
  BY <1>5, <1>6, <1>7 DEF Lines
<1> QED BY <1>8, NoneIs

-----------------------------------------------------------------------------
(* Every step                                                              *)

\* What a statement does to what the program sees.
Steps(g) ==
  There(g) \/ (Unborn(stack') = {} /\ (Wrote(g) \/ \E g2 : DimSees(g, g2)))

\* After a name that is too long, what there is is as it was.
LEMMA LongnameKeeps ==
  ASSUME NEW g, Here(g), longname PROVE There(g)
<1>1. /\ tables' = tables /\ rest' = rest /\ lost' = lost /\ heap' = heap /\ stack' = stack
      /\ outcome' = "wild"
  BY DEF longname, rest, tables
<1> QED BY <1>1 DEF Here, There

LEMMA StatementKeeps ==
  ASSUME NEW g, Here(g), Strings(g), Statement PROVE Steps(g)
<1>1. CASE doprint \/ Prints \/ Printed
  BY <1>1, PrintKeeps DEF Steps
<1>2. CASE letnumber
  BY <1>2, LetnumberKeeps DEF Steps
<1>3. CASE lvalue
  BY <1>3, LvalueKeeps DEF Steps
<1>4. CASE lvaluedim
  BY <1>4, LvaluedimKeeps DEF Steps
<1>5. CASE getdimvar
  BY <1>5, GetdimvarKeeps DEF Steps
<1>6. CASE dolet
  BY <1>6, LetKeeps, AssignedUnborn DEF Steps
<1>7. CASE domidstring
  BY <1>7, MidKeeps, AssignedUnborn DEF Steps
<1>8. CASE inputbegins
  BY <1>8, InputbeginsKeeps DEF Steps
<1>9. CASE doinput
  BY <1>9, InputsKeep, AssignedUnborn DEF Steps
<1>10. CASE dodim
  BY <1>10, DodimKeeps, DodimUnborn DEF Steps
<1>11. CASE diminit
  BY <1>11, DiminitKeeps DEF Steps
<1>12. CASE dimstore
  BY <1>12, DimstoreKeeps, DimstoreUnborn DEF Steps
<1>13. CASE dimdone
  BY <1>13, DimdoneKeeps DEF Steps
<1>14. CASE doline
  BY <1>14, DolineKeeps DEF Steps
<1>15. CASE dolinetokens
  BY <1>15, DolinetokensKeeps DEF Steps
<1>16. CASE dodoline
  BY <1>16, DodolineKeeps DEF Steps
<1>17. CASE longname
  BY <1>17, LongnameKeeps DEF Steps
<1> QED
  BY <1>1, <1>2, <1>3, <1>4, <1>5, <1>6, <1>7, <1>8, <1>9, <1>10, <1>11, <1>12, <1>13, <1>14, <1>15, <1>16, <1>17
  DEF Statement

(* The invariant: every block in use is in one place, and a program that   *)
(* does not run has no table of labels.                                    *)
Inv ==
  /\ Sound(lost, stack, heap, tables, rest)
  /\ outcome = "idle" => labels = Null

LEMMA ThereIs ==
  ASSUME NEW g, There(g) PROVE Inv'
BY DEF There, Good, Inv

LEMMA StepsIs ==
  ASSUME NEW g, Steps(g) PROVE Inv'
<1>1. CASE There(g)
  BY <1>1, ThereIs
<1>2. CASE \E q, v : WroteAt(g, q, v)
  <2>1. PICK q, v : WroteAt(g, q, v)
    BY <1>2
  <2> QED BY <2>1, ThereIs DEF WroteAt
<1>3. CASE \E g2 : DimSees(g, g2)
  <2>1. PICK g2 : DimSees(g, g2)
    BY <1>3
  <2> QED BY <2>1, ThereIs DEF DimSees
<1> QED BY <1>1, <1>2, <1>3 DEF Steps, Wrote

LEMMA NextKeeps ==
  ASSUME Inv, [Next]_vars PROVE Inv'
<1>1. Here(Sight) /\ Strings(Sight)
  BY SoundSight DEF Inv
<1>2. CASE Operand
  BY <1>1, <1>2, OperandKeeps, ThereIs
<1>3. CASE Function
  BY <1>1, <1>3, FunctionKeeps, ThereIs
<1>4. CASE Statement
  BY <1>1, <1>4, StatementKeeps, StepsIs
<1>5. CASE setup
  <2>1. labels = Null
    BY <1>5 DEF setup, Inv
  <2> QED BY <1>1, <1>5, <2>1, SetupKeeps, ThereIs
<1>6. CASE cleanup
  BY <1>1, <1>6, CleanupKeeps DEF Inv, Good
<1>7. CASE UNCHANGED vars
  <2>1. /\ tables' = tables /\ rest' = rest /\ lost' = lost /\ stack' = stack /\ heap' = heap
        /\ outcome' = outcome /\ labels' = labels
    BY <1>7 DEF vars, system, rest
  <2> QED BY <2>1 DEF Inv
<1> QED BY <1>2, <1>3, <1>4, <1>5, <1>6, <1>7 DEF Next

LEMMA InitBare ==
  ASSUME Init
  PROVE  /\ Good(lost, stack, heap, tables, rest, Blank) /\ Strings(Blank) /\ Inv
         /\ tables = Bare /\ stack = <<>> /\ lost = {}
<1>1. tables = Bare /\ rest = None /\ stack = <<>> /\ lost = {} /\ heap = <<>> /\ labels = Null
  BY DEF Init, tables, rest, Bare, None
<1>2. Blocked({}, heap) /\ DOMAIN heap = {}
  BY <1>1 DEF Blocked
<1>3. Good(lost, stack, heap, tables, rest, Blank) /\ Strings(Blank)
  BY <1>1, <1>2, BareKeeps
<1> QED BY <1>1, <1>3 DEF Inv, Good

(* The invariant holds always.                                             *)
LEMMA InvHolds == Spec => []Inv
<1>1. Init => Inv
  BY InitBare
<1>2. Inv /\ [Next]_vars => Inv'
  BY NextKeeps
<1> QED BY <1>1, <1>2, PTL DEF Spec

-----------------------------------------------------------------------------
(* The properties                                                          *)

\* Holds, kind by kind.
StackHolds ==
  UNION {{<<"stack", i, k, stack[i].args[k]>> : k \in DOMAIN stack[i].args} : i \in DOMAIN stack}
VariableHolds == {<<"variables", i, 0, variables[i].sval>> : i \in DOMAIN variables}
ArrayHolds == {<<"arrays", j, 0, dimvariables[j].data>> : j \in DOMAIN dimvariables}
ElementHolds ==
  UNION {{<<"elements", j, i, dimvariables[j].str[i]>>
            : i \in {k \in DOMAIN dimvariables[j].str : <<j, k>> \notin Initialising}}
           : j \in DOMAIN dimvariables}
FileHolds == {<<"files", i, 0, files[i].ptr>> : i \in DOMAIN files}
OtherHolds ==
  {<<"vartable", 0, 0, vartable>>, <<"dimtable", 0, 0, dimtable>>,
   <<"labels", 0, 0, labels>>, <<"input", 0, 0, curinputptr>>}

LEMMA HoldsIs ==
  Holds = {x \in StackHolds \union VariableHolds \union ArrayHolds \union ElementHolds
                   \union FileHolds \union OtherHolds : x[4] # Null}
BY DEF Holds, StackHolds, VariableHolds, ArrayHolds, ElementHolds, FileHolds, OtherHolds

LEMMA InitialisingIs ==
  ASSUME stack \in Seq(Frame) PROVE Initialising = Unborn(stack)
<1>1. DOMAIN stack = 1 .. Len(stack)
  OBVIOUS
<1>2. ASSUME NEW x \in Initialising PROVE x \in Unborn(stack)
  <2>1. PICK f \in Pointers(stack) : f.fn = "DIM" /\ x = <<f.at.index, f.i>>
    BY DEF Initialising
  <2>2. PICK k \in DOMAIN stack : f = stack[k]
    BY DEF Pointers
  <2> QED BY <1>1, <2>1, <2>2 DEF Unborn
<1>3. ASSUME NEW x \in Unborn(stack) PROVE x \in Initialising
  <2>1. PICK k \in 1 .. Len(stack) : stack[k].fn = "DIM" /\ x = <<stack[k].at.index, stack[k].i>>
    BY DEF Unborn
  <2>2. stack[k] \in Pointers(stack)
    BY <1>1 DEF Pointers
  <2> QED BY <2>1, <2>2 DEF Initialising
<1> QED BY <1>2, <1>3

(* Places and what Holds says are the same.                                *)
Quad(p, b) == <<p[1], p[2], p[3], b>>

LEMMA HeldHolds ==
  ASSUME Sound(lost, stack, heap, tables, rest), NEW H, H = Held(stack, tables, rest)
  PROVE  /\ \A x \in Holds : \E p \in Places : x = Quad(p, H[p]) /\ H[p] # Null
         /\ \A p \in Places : H[p] # Null => Quad(p, H[p]) \in Holds
<1> DEFINE s == stack
           T == tables
           R == rest
<1>1. /\ stack \in Seq(Frame) /\ variables \in Seq(Scalar) /\ dimvariables \in Seq(Matrix)
      /\ files \in [1 .. FATPTRNUM -> File] /\ Tabled(heap, tables)
      /\ VarsOf(T) = variables /\ DimsOf(T) = dimvariables /\ VarBlock(T) = vartable /\ DimBlock(T) = dimtable
      /\ R[1] = labels /\ R[2] = files /\ R[3] = curinputptr
  <2>1. /\ VarsOf(T) = variables /\ DimsOf(T) = dimvariables /\ VarBlock(T) = vartable /\ DimBlock(T) = dimtable
        /\ R[1] = labels /\ R[2] = files /\ R[3] = curinputptr
    BY DEF VarsOf, DimsOf, VarBlock, DimBlock, tables, rest
  <2>2. Stacked(stack, T) /\ Tabled(heap, T) /\ Filed(R)
    BY DEF Sound
  <2> HIDE DEF T, R
  <2> QED BY <2>1, <2>2 DEF Stacked, Tabled, Filed, T
<1>2. /\ DOMAIN stack = 1 .. Len(stack) /\ DOMAIN variables = 1 .. Len(variables)
      /\ DOMAIN dimvariables = 1 .. Len(dimvariables) /\ DOMAIN files = 1 .. FATPTRNUM
      /\ Len(stack) \in Nat /\ Len(variables) \in Nat /\ Len(dimvariables) \in Nat /\ FATPTRNUM \in Nat
  BY <1>1, MemoryAssumption
<1>3. ASSUME NEW i \in 1 .. Len(stack)
      PROVE  DOMAIN stack[i].args = 1 .. Len(stack[i].args) /\ Len(stack[i].args) \in Nat
  <2>1. stack[i] \in Frame
    BY <1>1
  <2>2. stack[i].args \in Seq(Ptr)
    BY <2>1, Fields
  <2> QED BY <2>2
<1>4. ASSUME NEW j \in 1 .. Len(dimvariables)
      PROVE  DOMAIN dimvariables[j].str = 1 .. Len(dimvariables[j].str) /\ Len(dimvariables[j].str) \in Nat
  <2>1. dimvariables[j] \in Matrix
    BY <1>1
  <2>2. dimvariables[j].str \in Seq(Ptr)
    BY <2>1 DEF Matrix
  <2> QED BY <2>2
<1>5. Initialising = Unborn(stack)
  BY <1>1, InitialisingIs
<1>6. \A k \in Kinds, i \in Nat, j \in Nat : <<k, i, j>> \in Places
  BY PlaceOf
<1>7. \A p \in Places : H[p] = Holding(s, T, R, p)
  BY HeldAt
<1>8. ASSUME NEW x \in Holds PROVE \E p \in Places : x = Quad(p, H[p]) /\ H[p] # Null
  <2>1. x[4] # Null
    BY HoldsIs
  <2>2. SUFFICES \E k \in Kinds, i \in Nat, j \in Nat :
                    x = <<k, i, j, Holding(s, T, R, <<k, i, j>>)>>
    <3>1. PICK k \in Kinds, i \in Nat, j \in Nat : x = <<k, i, j, Holding(s, T, R, <<k, i, j>>)>>
      BY <2>2
    <3> DEFINE p == <<k, i, j>>
    <3>2. p \in Places /\ p[1] = k /\ p[2] = i /\ p[3] = j
      BY <1>6
    <3>3. H[p] = Holding(s, T, R, p)
      BY <1>7, <3>2
    <3> HIDE DEF p
    <3>4. x = <<p[1], p[2], p[3], H[p]>>
      BY <3>1, <3>2, <3>3 DEF p
    <3> QED BY <2>1, <3>2, <3>4 DEF Quad
  <2>3. CASE x \in StackHolds
    <3>1. PICK i \in DOMAIN stack : x \in {<<"stack", i, k, stack[i].args[k]>> : k \in DOMAIN stack[i].args}
      BY <2>3 DEF StackHolds
    <3>2. PICK k \in DOMAIN stack[i].args : x = <<"stack", i, k, stack[i].args[k]>>
      BY <3>1
    <3>3. i \in 1 .. Len(stack) /\ k \in 1 .. Len(stack[i].args) /\ i \in Nat /\ k \in Nat
      BY <1>2, <1>3
    <3>4. Holding(s, T, R, <<"stack", i, k>>) = stack[i].args[k]
      BY <3>3 DEF Holding
    <3> QED BY <3>2, <3>3, <3>4 DEF Kinds
  <2>4. CASE x \in VariableHolds
    <3>1. PICK i \in DOMAIN variables : x = <<"variables", i, 0, variables[i].sval>>
      BY <2>4 DEF VariableHolds
    <3>2. i \in 1 .. Len(variables) /\ i \in Nat /\ 0 \in Nat
      BY <1>2
    <3>3. Holding(s, T, R, <<"variables", i, 0>>) = variables[i].sval
      BY <1>1, <3>2 DEF Holding
    <3> QED BY <3>1, <3>2, <3>3 DEF Kinds
  <2>5. CASE x \in ArrayHolds
    <3>1. PICK i \in DOMAIN dimvariables : x = <<"arrays", i, 0, dimvariables[i].data>>
      BY <2>5 DEF ArrayHolds
    <3>2. i \in 1 .. Len(dimvariables) /\ i \in Nat /\ 0 \in Nat
      BY <1>2
    <3>3. Holding(s, T, R, <<"arrays", i, 0>>) = dimvariables[i].data
      BY <1>1, <3>2 DEF Holding
    <3> QED BY <3>1, <3>2, <3>3 DEF Kinds
  <2>6. CASE x \in ElementHolds
    <3>1. PICK j \in DOMAIN dimvariables :
            x \in {<<"elements", j, i, dimvariables[j].str[i]>>
                     : i \in {k \in DOMAIN dimvariables[j].str : <<j, k>> \notin Initialising}}
      BY <2>6 DEF ElementHolds
    <3>2. PICK i \in {k \in DOMAIN dimvariables[j].str : <<j, k>> \notin Initialising} :
            x = <<"elements", j, i, dimvariables[j].str[i]>>
      BY <3>1
    <3>3. j \in 1 .. Len(dimvariables) /\ i \in 1 .. Len(dimvariables[j].str) /\ i \in Nat /\ j \in Nat /\ <<j, i>> \notin Unborn(s)
      BY <1>2, <1>4, <1>5
    <3>4. Holding(s, T, R, <<"elements", j, i>>) = dimvariables[j].str[i]
      BY <1>1, <3>3 DEF Holding
    <3> QED BY <3>2, <3>3, <3>4 DEF Kinds
  <2>7. CASE x \in FileHolds
    <3>1. PICK i \in DOMAIN files : x = <<"files", i, 0, files[i].ptr>>
      BY <2>7 DEF FileHolds
    <3>2. i \in 1 .. FATPTRNUM /\ i \in Nat /\ 0 \in Nat
      BY <1>2
    <3>3. Holding(s, T, R, <<"files", i, 0>>) = files[i].ptr
      BY <1>1, <3>2 DEF Holding
    <3> QED BY <3>1, <3>2, <3>3 DEF Kinds
  <2>8. CASE x \in OtherHolds
    <3>1. /\ Holding(s, T, R, <<"vartable", 0, 0>>) = vartable /\ Holding(s, T, R, <<"dimtable", 0, 0>>) = dimtable
          /\ Holding(s, T, R, <<"labels", 0, 0>>) = labels /\ Holding(s, T, R, <<"input", 0, 0>>) = curinputptr
      BY <1>1 DEF Holding
    <3>2. \/ x = <<"vartable", 0, 0, vartable>> \/ x = <<"dimtable", 0, 0, dimtable>>
          \/ x = <<"labels", 0, 0, labels>> \/ x = <<"input", 0, 0, curinputptr>>
      BY <2>8 DEF OtherHolds
    <3>3. {"vartable", "dimtable", "labels", "input"} \subseteq Kinds /\ 0 \in Nat
      BY DEF Kinds
    <3> QED BY <3>1, <3>2, <3>3
  <2> QED BY <2>3, <2>4, <2>5, <2>6, <2>7, <2>8, HoldsIs
<1>9. ASSUME NEW p \in Places, H[p] # Null PROVE Quad(p, H[p]) \in Holds
  <2> DEFINE b == H[p]
             x == <<p[1], p[2], p[3], b>>
  <2>1. b = Holding(s, T, R, p) /\ b # Null
    BY <1>7, <1>9
  <2> HIDE DEF b
  <2>2. \/ p[1] = "stack" /\ p[2] \in 1 .. Len(s) /\ p[3] \in 1 .. Len(s[p[2]].args) /\ b = s[p[2]].args[p[3]]
        \/ p[1] = "variables" /\ p[2] \in 1 .. Len(variables) /\ p[3] = 0 /\ b = variables[p[2]].sval
        \/ p[1] = "arrays" /\ p[2] \in 1 .. Len(dimvariables) /\ p[3] = 0 /\ b = dimvariables[p[2]].data
        \/ /\ p[1] = "elements" /\ p[2] \in 1 .. Len(dimvariables) /\ p[3] \in 1 .. Len(dimvariables[p[2]].str)
           /\ <<p[2], p[3]>> \notin Unborn(s) /\ b = dimvariables[p[2]].str[p[3]]
        \/ p[1] = "files" /\ p[2] \in 1 .. FATPTRNUM /\ p[3] = 0 /\ b = files[p[2]].ptr
        \/ p[1] = "vartable" /\ p[2] = 0 /\ p[3] = 0 /\ b = vartable
        \/ p[1] = "dimtable" /\ p[2] = 0 /\ p[3] = 0 /\ b = dimtable
        \/ p[1] = "labels" /\ p[2] = 0 /\ p[3] = 0 /\ b = labels
        \/ p[1] = "input" /\ p[2] = 0 /\ p[3] = 0 /\ b = curinputptr
    BY <1>1, <2>1 DEF Holding
  <2>3. x[4] = b
    OBVIOUS
  <2>4. x \in StackHolds \union VariableHolds \union ArrayHolds \union ElementHolds \union FileHolds \union OtherHolds
    <3>1. CASE p[1] = "stack" /\ p[2] \in 1 .. Len(s) /\ p[3] \in 1 .. Len(s[p[2]].args) /\ b = s[p[2]].args[p[3]]
      <4> DEFINE A == {<<"stack", p[2], k, stack[p[2]].args[k]>> : k \in DOMAIN stack[p[2]].args}
      <4>1. x \in A
        BY <1>3, <3>1
      <4>2. A \in {{<<"stack", i, k, stack[i].args[k]>> : k \in DOMAIN stack[i].args} : i \in DOMAIN stack}
        BY <1>2, <3>1
      <4> HIDE DEF A, x
      <4>3. x \in StackHolds
        BY <4>1, <4>2 DEF StackHolds
      <4> QED BY <4>3
    <3>2. CASE p[1] = "variables" /\ p[2] \in 1 .. Len(variables) /\ p[3] = 0 /\ b = variables[p[2]].sval
      <4>1. x \in VariableHolds
        BY <1>2, <3>2 DEF VariableHolds
      <4> QED BY <4>1
    <3>3. CASE p[1] = "arrays" /\ p[2] \in 1 .. Len(dimvariables) /\ p[3] = 0 /\ b = dimvariables[p[2]].data
      <4>1. x \in ArrayHolds
        BY <1>2, <3>3 DEF ArrayHolds
      <4> QED BY <4>1
    <3>4. CASE /\ p[1] = "elements" /\ p[2] \in 1 .. Len(dimvariables) /\ p[3] \in 1 .. Len(dimvariables[p[2]].str)
               /\ <<p[2], p[3]>> \notin Unborn(s) /\ b = dimvariables[p[2]].str[p[3]]
      <4> DEFINE A(j) == {<<"elements", j, i, dimvariables[j].str[i]>>
                            : i \in {k \in DOMAIN dimvariables[j].str : <<j, k>> \notin Initialising}}
      <4>1. x \in A(p[2])
        BY <1>4, <1>5, <3>4
      <4>2. A(p[2]) \in {A(j) : j \in DOMAIN dimvariables}
        BY <1>2, <3>4
      <4>3. ElementHolds = UNION {A(j) : j \in DOMAIN dimvariables}
        BY DEF ElementHolds
      <4> HIDE DEF A, x
      <4>4. x \in ElementHolds
        BY <4>1, <4>2, <4>3
      <4> QED BY <4>4
    <3>5. CASE p[1] = "files" /\ p[2] \in 1 .. FATPTRNUM /\ p[3] = 0 /\ b = files[p[2]].ptr
      <4>1. x \in FileHolds
        BY <1>2, <3>5 DEF FileHolds
      <4> QED BY <4>1
    <3>6. CASE \/ p[1] = "vartable" /\ p[2] = 0 /\ p[3] = 0 /\ b = vartable
               \/ p[1] = "dimtable" /\ p[2] = 0 /\ p[3] = 0 /\ b = dimtable
               \/ p[1] = "labels" /\ p[2] = 0 /\ p[3] = 0 /\ b = labels
               \/ p[1] = "input" /\ p[2] = 0 /\ p[3] = 0 /\ b = curinputptr
      <4>1. x \in OtherHolds
        BY <3>6 DEF OtherHolds
      <4> QED BY <4>1
    <3> HIDE DEF x
    <3> QED BY <2>2, <3>1, <3>2, <3>3, <3>4, <3>5, <3>6
  <2>5. Quad(p, H[p]) = x
    BY DEF Quad, b
  <2> QED BY <2>1, <2>3, <2>4, <2>5, HoldsIs
<1> QED BY <1>8, <1>9

LEMMA SoundOwner ==
  ASSUME Inv PROVE OneOwner
<1> DEFINE H == Held(stack, tables, rest)
           D == DOMAIN heap \ lost
<1>1. Sound(lost, stack, heap, tables, rest)
  BY DEF Inv
<1>2. Own(D, H) /\ lost \subseteq DOMAIN heap
  BY <1>1 DEF Sound, Blocked
<1>3. /\ \A x \in Holds : \E p \in Places : x = Quad(p, H[p]) /\ H[p] # Null
      /\ \A p \in Places : H[p] # Null => Quad(p, H[p]) \in Holds
  BY <1>1, HeldHolds
<1> HIDE DEF H, D
<1>4. \A p \in Places : Quad(p, H[p])[4] = H[p]
  BY DEF Quad
<1>5. ASSUME NEW x \in Holds, NEW y \in Holds, x[4] = y[4] PROVE x = y
  <2>1. PICK p \in Places : x = Quad(p, H[p]) /\ H[p] # Null
    BY <1>3
  <2>2. PICK q \in Places : y = Quad(q, H[q]) /\ H[q] # Null
    BY <1>3
  <2>3. H[p] = H[q]
    BY <1>4, <1>5, <2>1, <2>2
  <2>4. p = q
    BY <1>2, <2>1, <2>3 DEF Own
  <2> QED BY <2>1, <2>2, <2>4
<1>6. ASSUME NEW x \in Holds PROVE x[4] \in D
  <2>1. PICK p \in Places : x = Quad(p, H[p]) /\ H[p] # Null
    BY <1>3
  <2> QED BY <1>2, <1>4, <2>1 DEF Own
<1>7. ASSUME NEW b \in D PROVE \E x \in Holds : x[4] = b
  <2>1. PICK p \in Places : H[p] = b
    BY <1>2 DEF Own
  <2>2. b # Null
    BY <1>1, NoNull DEF Sound, D
  <2>3. Quad(p, H[p]) \in Holds
    BY <1>3, <2>1, <2>2
  <2> QED BY <1>4, <2>1, <2>3
<1>8. {x[4] : x \in Holds} = DOMAIN heap \ lost
  BY <1>6, <1>7 DEF D
<1>9. \A x, y \in Initialising : x = y
  <2>1. stack \in Seq(Frame) /\ Shaped(stack)
    BY <1>1 DEF Sound, Stacked
  <2>2. ASSUME NEW i \in 1 .. Len(stack), NEW j \in 1 .. Len(stack),
               stack[i].fn = "DIM", stack[j].fn = "DIM"
        PROVE  i = j
    BY <2>1, <2>2 DEF Shaped, Lines, Parts
  <2>3. Initialising = Unborn(stack)
    BY <2>1, InitialisingIs
  <2> QED BY <2>2, <2>3 DEF Unborn
<1> QED BY <1>2, <1>5, <1>8, <1>9 DEF OneOwner

LEMMA SoundAddresses ==
  ASSUME Inv PROVE AddressesHold
<1>1. Sound(lost, stack, heap, tables, rest) /\ Stacked(stack, tables) /\ dimvariables \in Seq(Matrix)
  <2>1. Sound(lost, stack, heap, tables, rest)
    BY DEF Inv
  <2>2. DimsOf(tables) = dimvariables /\ DimsOf(tables) \in Seq(Matrix)
    BY <2>1 DEF Sound, Tabled, DimsOf, tables
  <2> QED BY <2>1, <2>2 DEF Sound
<1>2. /\ VarsOf(tables) = variables /\ DimsOf(tables) = dimvariables
      /\ VarBlock(tables) = vartable /\ DimBlock(tables) = dimtable
  BY DEF VarsOf, DimsOf, VarBlock, DimBlock, tables
<1>3. DOMAIN dimvariables = 1 .. Len(dimvariables)
  BY <1>1
<1> SUFFICES ASSUME NEW f \in Pointers(stack)
    PROVE /\ f.fn \in Assigning /\ f.at # NoAddress =>
               /\ \/ /\ f.at.block = vartable
                     /\ \E n \in StringNames : f.of = {[name |-> n]} /\ variables[f.at.index].id = n
                  \/ \E j \in DOMAIN dimvariables :
                       /\ f.at.block = dimvariables[j].data
                       /\ f.of = {[array |-> dimvariables[j].id, index |-> f.at.index]}
               /\ Stands(f.at) = f.old
          /\ f.fn \in {"lvalue", "DIM", "DIM,"} =>
               f.at.block = dimtable /\ dimvariables[f.at.index].id = f.array
  BY DEF AddressesHold
<1>4. Aimed(f, tables)
  <2>1. stack \in Seq(Frame) /\ \A i \in 1 .. Len(stack) : Aimed(stack[i], tables)
    BY <1>1 DEF Stacked
  <2>2. PICK i \in DOMAIN stack : f = stack[i]
    BY DEF Pointers
  <2> QED BY <2>1, <2>2
<1>5. ASSUME f.fn \in Assigning, f.at # NoAddress
      PROVE  /\ \/ /\ f.at.block = vartable
                   /\ \E n \in StringNames : f.of = {[name |-> n]} /\ variables[f.at.index].id = n
                \/ \E j \in DOMAIN dimvariables :
                     /\ f.at.block = dimvariables[j].data
                     /\ f.of = {[array |-> dimvariables[j].id, index |-> f.at.index]}
             /\ Stands(f.at) = f.old
  <2>1. Stands(f.at) = f.old
    <3>1. PICK q : Target(f, q)
      BY <1>1, <1>4, <1>5, TargetIs
    <3> QED BY <3>1 DEF Target
  <2>2. AtScalar(f, tables) \/ \E j \in 1 .. Len(DimsOf(tables)) : AtElement(f, tables, j)
    BY <1>4, <1>5 DEF Aimed
  <2>3. CASE AtScalar(f, tables)
    BY <1>2, <2>1, <2>3 DEF AtScalar
  <2>4. CASE \E j \in 1 .. Len(DimsOf(tables)) : AtElement(f, tables, j)
    <3>1. PICK j \in 1 .. Len(DimsOf(tables)) : AtElement(f, tables, j)
      BY <2>4
    <3>2. j \in DOMAIN dimvariables
      BY <1>2, <1>3
    <3>3. f.at.block = dimvariables[j].data /\ f.of = {[array |-> dimvariables[j].id, index |-> f.at.index]}
      BY <1>2, <3>1 DEF AtElement
    <3> QED BY <2>1, <3>2, <3>3
  <2> QED BY <2>2, <2>3, <2>4
<1>6. ASSUME f.fn \in {"lvalue", "DIM", "DIM,"}
      PROVE  f.at.block = dimtable /\ dimvariables[f.at.index].id = f.array
  BY <1>2, <1>4, <1>6 DEF Aimed
<1> QED BY <1>5, <1>6

LEMMA RoomyFits ==
  ASSUME NEW S, NEW s \in Seq(S), NEW b, Roomy(heap, s, b) PROVE Fits(s, b)
<1>1. Len(s) \in Nat
  OBVIOUS
<1>2. CASE s # <<>>
  <2>1. b \in DOMAIN heap /\ heap[b] \in [room : Nat] /\ nextlargest(Len(s)) <= heap[b].room
    BY <1>2 DEF Roomy
  <2>2. heap[b].room \in Nat
    BY <2>1
  <2>3. nextlargest(Len(s)) \in Nat /\ Len(s) <= nextlargest(Len(s))
    BY <1>1, Room1
  <2> DEFINE x == nextlargest(Len(s))
             y == heap[b].room
             z == Len(s)
  <2> HIDE DEF x, y, z
  <2>4. x \in Nat /\ y \in Nat /\ z \in Nat /\ z <= x /\ x <= y
    BY <1>1, <2>1, <2>2, <2>3 DEF x, y, z
  <2>5. z <= y
    BY ONLY <2>4
  <2> QED BY <2>1, <2>5 DEF Fits, y, z
<1> QED BY <1>2 DEF Fits

LEMMA OrderedSorted ==
  ASSUME NEW S, NEW s \in Seq(S), Ordered(s) PROVE Sorted(s)
<1>1. DOMAIN s = 1 .. Len(s)
  OBVIOUS
<1> QED BY <1>1 DEF Ordered, Sorted

LEMMA SoundTables ==
  ASSUME Inv PROVE TablesHold
<1>1. /\ VarsOf(tables) = variables /\ DimsOf(tables) = dimvariables
      /\ VarBlock(tables) = vartable /\ DimBlock(tables) = dimtable
  BY DEF VarsOf, DimsOf, VarBlock, DimBlock, tables
<1>2. Tabled(heap, tables)
  BY DEF Inv, Sound
<1>3. /\ variables \in Seq(Scalar) /\ dimvariables \in Seq(Matrix) /\ Ordered(variables) /\ Ordered(dimvariables)
      /\ Roomy(heap, variables, vartable) /\ Roomy(heap, dimvariables, dimtable)
      /\ \A j \in 1 .. Len(dimvariables) : Sizable(heap, dimvariables[j])
  BY <1>1, <1>2 DEF Tabled
<1>4. Sorted(variables) /\ Sorted(dimvariables) /\ Fits(variables, vartable) /\ Fits(dimvariables, dimtable)
  BY <1>3, OrderedSorted, RoomyFits
<1>5. ASSUME NEW d \in Pointers(dimvariables) PROVE Fits(d.str, d.data)
  <2>1. PICK j \in DOMAIN dimvariables : d = dimvariables[j]
    BY DEF Pointers
  <2>2. Sizable(heap, d)
    BY <1>3, <2>1
  <2> QED BY <2>2 DEF Sizable, Fits
<1> QED BY <1>4, <1>5 DEF TablesHold

(* Every block in use is in one place, and every pointer is to a block in  *)
(* use but that of the one element whose DIM initialiser is being          *)
(* evaluated, freed by then (malloc, realloc and free of basic.c): for any *)
(* number of names, arrays, blocks and frames, in runs that meet no name   *)
(* too long and no DIM of no elements with initialisers.                   *)
THEOREM BlocksHaveOneOwner == Spec => []OneOwner
<1>1. Inv => OneOwner
  BY SoundOwner
<1> QED BY <1>1, InvHolds, PTL

(* The address lvalue took before the rest of a statement was evaluated is *)
(* that of the same variable or element when the statement uses it, for    *)
(* LET, MID$ =, INPUT and DIM.                                             *)
THEOREM AddressesStayGood == Spec => []AddressesHold
<1>1. Inv => AddressesHold
  BY SoundAddresses
<1> QED BY <1>1, InvHolds, PTL

(* The tables of variables and arrays are sorted, as findvariable needs,   *)
(* and no table or array is longer than the block it is in (addnewvar,     *)
(* nextlargest, dodim).                                                    *)
THEOREM TablesStaySorted == Spec => []TablesHold
<1>1. Inv => TablesHold
  BY SoundTables
<1> QED BY <1>1, InvHolds, PTL

-----------------------------------------------------------------------------
(* Strings are values                                                      *)

TargetOf(s) == UNION {f.of : f \in {e \in Pointers(s) : "of" \in DOMAIN e}}

LEMMA TargetsAre ==
  target = TargetOf(stack) /\ target' = TargetOf(stack')
BY DEF target, TargetOf

LEMMA OfIs ==
  ASSUME NEW f \in Frame
  PROVE  "of" \in DOMAIN f => f.of \subseteq Naming
<1>1. CASE f \in Plain
  BY <1>1 DEF Plain
<1>2. CASE f \in Picking
  BY <1>2 DEF Picking
<1>3. CASE f \in Aiming
  BY <1>3 DEF Aiming
<1>4. CASE f \in Filling
  BY <1>4 DEF Filling
<1> QED BY <1>1, <1>2, <1>3, <1>4 DEF Frame

LEMMA TargetsIn ==
  ASSUME NEW s \in Seq(Frame) PROVE TargetOf(s) \subseteq Naming
<1> SUFFICES ASSUME NEW x \in TargetOf(s) PROVE x \in Naming
  OBVIOUS
<1>1. PICK f \in Pointers(s) : "of" \in DOMAIN f /\ x \in f.of
  BY DEF TargetOf
<1>2. PICK i \in DOMAIN s : f = s[i]
  BY DEF Pointers
<1>3. f \in Frame
  BY <1>2
<1> QED BY <1>1, <1>3, OfIs

(* At most one element waits for its initialiser, and DIM names it.        *)
Waits(s, T, j, i) ==
  /\ Unborn(s) = {<<j, i>>}
  /\ j \in 1 .. Len(DimsOf(T)) /\ i \in 1 .. Len(DimsOf(T)[j].str) /\ DimsOf(T)[j].id \in StringArrays
  /\ [array |-> DimsOf(T)[j].id, index |-> i] \in TargetOf(s)

LEMMA UnbornIs ==
  ASSUME NEW s, NEW T, Stacked(s, T)
  PROVE  Unborn(s) = {} \/ \E j, i : Waits(s, T, j, i)
<1>1. s \in Seq(Frame) /\ Shaped(s) /\ \A k \in 1 .. Len(s) : Aimed(s[k], T)
  BY DEF Stacked
<1>2. SUFFICES ASSUME Unborn(s) # {} PROVE \E j, i : Waits(s, T, j, i)
  OBVIOUS
<1>3. PICK k \in 1 .. Len(s) : s[k].fn = "DIM"
  BY <1>2 DEF Unborn
<1>4. ASSUME NEW m \in 1 .. Len(s), s[m].fn = "DIM" PROVE m = k
  <2>1. "DIM" \notin Lines \union Parts /\ "DIM" \notin Lines
    BY DEF Lines, Parts
  <2>2. m = 1 \/ (m = 2 /\ s[1].fn \in Lines)
    BY <1>1, <1>4, <2>1 DEF Shaped
  <2>3. k = 1 \/ (k = 2 /\ s[1].fn \in Lines)
    BY <1>1, <1>3, <2>1 DEF Shaped
  <2> QED BY <1>3, <1>4, <2>1, <2>2, <2>3
<1> DEFINE f == s[k]
           j == f.at.index
           i == f.i
<1>5. Unborn(s) = {<<j, i>>}
  <2>1. {m \in 1 .. Len(s) : s[m].fn = "DIM"} = {k}
    BY <1>3, <1>4
  <2> QED BY <2>1 DEF Unborn
<1>6. Aimed(f, T) /\ f \in Frame
  BY <1>1
<1>7. f \in Filling
  BY <1>3, <1>6, Fields
<1>8. /\ j \in 1 .. Len(DimsOf(T)) /\ DimsOf(T)[j].id = f.array
      /\ i \in 1 .. Len(DimsOf(T)[j].str) /\ f.of = {[array |-> f.array, index |-> i]}
  BY <1>3, <1>6 DEF Aimed
<1> HIDE DEF f
<1>9. f.array \in StringArrays /\ "of" \in DOMAIN f
  BY <1>7 DEF Filling
<1>10. f \in Pointers(s)
  BY <1>1 DEF Pointers, f
<1>11. [array |-> DimsOf(T)[j].id, index |-> i] \in TargetOf(s)
  <2>1. [array |-> f.array, index |-> i] \in f.of
    BY <1>8
  <2> QED BY <1>8, <1>9, <1>10, <2>1 DEF TargetOf
<1> QED BY <1>5, <1>8, <1>9, <1>11 DEF Waits

IsFun(f, S) == f = [x \in S |-> f[x]]
Full(g) ==
  /\ IsFun(g[1], StringNames) /\ IsFun(g[2], StringArrays)
  /\ \A a \in StringArrays : IsFun(g[2][a], DOMAIN g[2][a])

LEMMA SameFun ==
  ASSUME NEW S, NEW f, NEW f2, IsFun(f, S), IsFun(f2, S), \A x \in S : f[x] = f2[x]
  PROVE  f = f2
BY DEF IsFun

LEMMA FunIs ==
  ASSUME NEW S, NEW f, IsFun(f, S), NEW x, NEW v
  PROVE  DOMAIN f = S /\ IsFun([f EXCEPT ![x] = v], S)
BY DEF IsFun

LEMMA FullIs ==
  ASSUME NEW h, NEW T, NEW g, g = <<StringOf(h, T), ArrayOf(h, T)>>
  PROVE  Full(g)
<1>1. g[1] = StringOf(h, T) /\ g[2] = ArrayOf(h, T)
  OBVIOUS
<1>2. IsFun(StringOf(h, T), StringNames)
  BY DEF StringOf, IsFun
<1>3. IsFun(ArrayOf(h, T), StringArrays)
  BY DEF ArrayOf, IsFun
<1>4. ASSUME NEW a \in StringArrays PROVE IsFun(ArrayOf(h, T)[a], DOMAIN ArrayOf(h, T)[a])
  <2> DEFINE v == findvariable(DimsOf(T), a)
             f == [i \in DOMAIN DimsOf(T)[v.at].str |-> Says(h, DimsOf(T)[v.at].str[i])]
  <2>1. ArrayOf(h, T)[a] = f \/ ArrayOf(h, T)[a] = <<>>
    BY DEF ArrayOf
  <2>2. IsFun(f, DOMAIN f)
    BY DEF IsFun
  <2>3. IsFun(<<>>, DOMAIN <<>>)
    BY DEF IsFun
  <2> HIDE DEF f
  <2> QED BY <2>1, <2>2, <2>3
<1> QED BY <1>1, <1>2, <1>3, <1>4 DEF Full

(* What g says and what there is to see differ in the element that waits.  *)
Matches(g, g3, W) ==
  /\ \A n \in StringNames : g3[1][n] = g[1][n]
  /\ \A a \in StringArrays :
       /\ DOMAIN g3[2][a] = DOMAIN g[2][a]
       /\ \A i \in DOMAIN g3[2][a] : [array |-> a, index |-> i] \notin W => g3[2][a][i] = g[2][a][i]

LEMMA MatchesAll ==
  ASSUME NEW g, Full(g), NEW g3, Full(g3), Matches(g, g3, {})
  PROVE  g3[1] = g[1] /\ g3[2] = g[2]
<1>1. g3[1] = g[1]
  BY SameFun DEF Full, Matches
<1>2. ASSUME NEW a \in StringArrays PROVE g3[2][a] = g[2][a]
  <2> DEFINE f == g[2][a]
             f3 == g3[2][a]
             S == DOMAIN g[2][a]
  <2>1. IsFun(f, S) /\ IsFun(f3, S) /\ \A i \in S : f3[i] = f[i]
    BY DEF Full, Matches
  <2> HIDE DEF f, f3, S
  <2>2. f3 = f
    BY <2>1, SameFun
  <2> QED BY <2>2 DEF f, f3
<1>3. g3[2] = g[2]
  <2>1. IsFun(g3[2], StringArrays) /\ IsFun(g[2], StringArrays)
    BY DEF Full
  <2> QED BY <1>2, <2>1, SameFun
<1> QED BY <1>1, <1>3

LEMMA FullMatches ==
  ASSUME NEW X, NEW h, Blocked(X, h), NEW T, Tabled(h, T), NEW s, NEW g, Shown(g, s, h, T),
         NEW W, NEW g3, g3 = <<StringOf(h, T), ArrayOf(h, T)>>,
         \A j \in 1 .. Len(DimsOf(T)) : \A i : <<j, i>> \in Unborn(s) => [array |-> DimsOf(T)[j].id, index |-> i] \in W
  PROVE  Matches(g, g3, W)
<1>0. g3[1] = StringOf(h, T) /\ g3[2] = ArrayOf(h, T)
  OBVIOUS
<1>1. ASSUME NEW n \in StringNames PROVE g3[1][n] = g[1][n]
  <2>1. CASE \E i \in 1 .. Len(VarsOf(T)) : VarsOf(T)[i].id = n
    BY <1>0, <2>1, StringIs DEF Shown
  <2>2. CASE \A i \in 1 .. Len(VarsOf(T)) : VarsOf(T)[i].id # n
    BY <1>0, <2>2, StringIs DEF Shown
  <2> QED BY <2>1, <2>2
<1>2. ASSUME NEW a \in StringArrays
      PROVE  /\ DOMAIN g3[2][a] = DOMAIN g[2][a]
             /\ \A i \in DOMAIN g3[2][a] : [array |-> a, index |-> i] \notin W => g3[2][a][i] = g[2][a][i]
  <2>1. CASE \E j \in 1 .. Len(DimsOf(T)) : DimsOf(T)[j].id = a
    <3>1. PICK j \in 1 .. Len(DimsOf(T)) : DimsOf(T)[j].id = a
      BY <2>1
    <3>2. /\ DOMAIN g3[2][a] = 1 .. Len(DimsOf(T)[j].str)
          /\ \A i \in 1 .. Len(DimsOf(T)[j].str) : g3[2][a][i] = Reads(h, DimsOf(T)[j].str[i])
      BY <1>0, <3>1, ArrayIs
    <3>3. /\ DOMAIN g[2][a] = 1 .. Len(DimsOf(T)[j].str)
          /\ \A i \in 1 .. Len(DimsOf(T)[j].str) :
               <<j, i>> \notin Unborn(s) => g[2][a][i] = Reads(h, DimsOf(T)[j].str[i])
      BY <3>1 DEF Shown
    <3>4. \A i : [array |-> a, index |-> i] \notin W => <<j, i>> \notin Unborn(s)
      BY <3>1
    <3> QED BY <3>2, <3>3, <3>4
  <2>2. CASE \A j \in 1 .. Len(DimsOf(T)) : DimsOf(T)[j].id # a
    <3>1. g3[2][a] = <<>> /\ g[2][a] = <<>>
      BY <1>0, <2>2, ArrayIs DEF Shown
    <3> QED BY <3>1
  <2> QED BY <2>1, <2>2
<1> QED BY <1>1, <1>2 DEF Matches

(* They differ in one element only.                                        *)
LEMMA MatchesBut ==
  ASSUME NEW g, Full(g), NEW g3, Full(g3), NEW a \in StringArrays, NEW i \in DOMAIN g[2][a],
         Matches(g, g3, {[array |-> a, index |-> i]})
  PROVE  g3[1] = g[1] /\ g3[2] = [g[2] EXCEPT ![a][i] = g3[2][a][i]]
<1> DEFINE v == g3[2][a][i]
           f == g[2][a]
           f4 == [f EXCEPT ![i] = v]
           G == [g[2] EXCEPT ![a] = f4]
<1>1. g3[1] = g[1]
  BY SameFun DEF Full, Matches
<1>2. IsFun(g[2], StringArrays) /\ IsFun(f, DOMAIN f)
  BY DEF Full
<1>3. g3[2][a] = f4
  <2> DEFINE f3 == g3[2][a]
  <2>1. IsFun(f3, DOMAIN f) /\ \A k \in DOMAIN f : k # i => f3[k] = f[k]
    <3>1. DOMAIN f3 = DOMAIN f /\ IsFun(f3, DOMAIN f3)
      BY DEF Full, Matches
    <3>2. ASSUME NEW k \in DOMAIN f, k # i PROVE f3[k] = f[k]
      <4>1. [array |-> a, index |-> k] \notin {[array |-> a, index |-> i]}
        BY <3>2
      <4> QED BY <3>1, <4>1 DEF Matches
    <3> QED BY <3>1, <3>2
  <2>2. v = f3[i]
    OBVIOUS
  <2> HIDE DEF v, f, f3
  <2>3. IsFun(f4, DOMAIN f) /\ \A k \in DOMAIN f : f4[k] = IF k = i THEN v ELSE f[k]
    BY <1>2 DEF IsFun
  <2> HIDE DEF f4
  <2>4. f3 = f4
    BY <2>1, <2>2, <2>3, SameFun
  <2> QED BY <2>4 DEF f3
<1>4. ASSUME NEW b \in StringArrays, b # a PROVE g3[2][b] = g[2][b]
  <2> DEFINE S == DOMAIN g[2][b]
             h == g[2][b]
             h3 == g3[2][b]
  <2>1. IsFun(h, S) /\ IsFun(h3, S)
    BY DEF Full, Matches
  <2>2. \A k \in S : h3[k] = h[k]
    <3> SUFFICES ASSUME NEW k \in S PROVE h3[k] = h[k]
      OBVIOUS
    <3>1. [array |-> b, index |-> k] \notin {[array |-> a, index |-> i]}
      BY <1>4
    <3> QED BY <3>1 DEF Matches
  <2> HIDE DEF S, h, h3
  <2>3. h3 = h
    BY <2>1, <2>2, SameFun
  <2> QED BY <2>3 DEF h, h3
<1>5. g3[2] = G
  <2> DEFINE g2 == g[2]
             e == g3[2]
  <2>1. IsFun(g2, StringArrays) /\ IsFun(e, StringArrays)
    BY DEF Full
  <2>2. e[a] = f4 /\ \A b \in StringArrays : b # a => e[b] = g2[b]
    BY <1>3, <1>4
  <2>3. G = [g2 EXCEPT ![a] = f4]
    OBVIOUS
  <2> HIDE DEF f4, g2, e, G
  <2>4. IsFun(G, StringArrays) /\ \A b \in StringArrays : G[b] = IF b = a THEN f4 ELSE g2[b]
    BY <2>1, <2>3 DEF IsFun
  <2>5. e = G
    BY <2>1, <2>2, <2>4, SameFun
  <2> QED BY <2>5 DEF e
<1>6. G = [g[2] EXCEPT ![a][i] = v]
  OBVIOUS
<1> HIDE DEF G
<1> QED BY <1>1, <1>5, <1>6

LEMMA SightFull ==
  Full(Sight) /\ Sight[1] = string /\ Sight[2] = array
<1>1. Sight = <<StringOf(heap, tables), ArrayOf(heap, tables)>>
  BY SightIs DEF Sight
<1> QED BY <1>1, FullIs DEF Sight

(* A step that leaves no element to wait shows what g says.                *)
LEMMA ThereQuiet ==
  ASSUME NEW g, There(g), Full(g), Unborn(stack') = {} PROVE string' = g[1] /\ array' = g[2]
<1> DEFINE g3 == <<StringOf(heap', tables'), ArrayOf(heap', tables')>>
<1>1. g3[1] = string' /\ g3[2] = array'
  BY SightAfter
<1>2. Blocked(lost', heap') /\ Tabled(heap', tables') /\ Shown(g, stack', heap', tables')
  BY DEF There, Good, Sound
<1>3. Full(g3)
  BY FullIs
<1> HIDE DEF g3
<1>4. Matches(g, g3, {})
  <2>1. \A j \in 1 .. Len(DimsOf(tables')) : \A i :
          <<j, i>> \in Unborn(stack') => [array |-> DimsOf(tables')[j].id, index |-> i] \in {}
    OBVIOUS
  <2> QED BY <1>2, <2>1, FullMatches DEF g3
<1>5. g3[1] = g[1] /\ g3[2] = g[2]
  BY <1>3, <1>4, MatchesAll
<1> QED BY <1>1, <1>5

(* One that leaves an element to wait may change that one.                 *)
Changed(a, i, g) ==
  /\ a \in StringArrays /\ [array |-> a, index |-> i] \in target' /\ i \in DOMAIN g[2][a]
  /\ string' = g[1] /\ array' = [g[2] EXCEPT ![a][i] = array'[a][i]]
  /\ array'[a][i] \in Texts \union {Unset}

LEMMA ThereWaits ==
  ASSUME NEW g, There(g), Full(g), NEW j, NEW i, Waits(stack', tables', j, i)
  PROVE  Changed(DimsOf(tables')[j].id, i, g)
<1> DEFINE g3 == <<StringOf(heap', tables'), ArrayOf(heap', tables')>>
           D == DimsOf(tables')
           a == D[j].id
           W == {[array |-> a, index |-> i]}
<1>1. g3[1] = string' /\ g3[2] = array'
  BY SightAfter
<1>2. Blocked(lost', heap') /\ Tabled(heap', tables') /\ Shown(g, stack', heap', tables')
  BY DEF There, Good, Sound
<1>3. Full(g3)
  BY FullIs
<1>4. Unborn(stack') = {<<j, i>>} /\ j \in 1 .. Len(D) /\ i \in 1 .. Len(D[j].str) /\ a \in StringArrays
      /\ [array |-> a, index |-> i] \in TargetOf(stack')
  BY DEF Waits
<1>5. Matches(g, g3, W)
  <2>1. \A k \in 1 .. Len(D) : \A m : <<k, m>> \in Unborn(stack') => [array |-> D[k].id, index |-> m] \in W
    BY <1>4
  <2> HIDE DEF W
  <2> QED BY <1>2, <2>1, FullMatches
<1>6. DOMAIN g[2][a] = 1 .. Len(D[j].str)
  BY <1>2, <1>4 DEF Shown
<1>7. array'[a][i] \in Texts \union {Unset}
  <2>1. array'[a][i] = Reads(heap', D[j].str[i])
    <3>1. ArrayOf(heap', tables')[a][i] = Reads(heap', D[j].str[i])
      <4>1. /\ Blocked(lost', heap') /\ Tabled(heap', tables') /\ a \in StringArrays
            /\ j \in 1 .. Len(DimsOf(tables')) /\ DimsOf(tables')[j].id = a
            /\ i \in 1 .. Len(DimsOf(tables')[j].str)
        BY <1>2, <1>4
      <4> HIDE DEF a, W, g3
      <4>2. \A k \in 1 .. Len(DimsOf(tables')[j].str) : ArrayOf(heap', tables')[a][k] = Reads(heap', DimsOf(tables')[j].str[k])
        BY ONLY <4>1, ArrayIs
      <4> QED BY <4>1, <4>2
    <3> QED BY <3>1, SightAfter
  <2> QED BY <1>2, <2>1, ReadsIs
<1> HIDE DEF g3, a
<1>8. g3[1] = g[1] /\ g3[2] = [g[2] EXCEPT ![a][i] = g3[2][a][i]]
  <2>1. /\ Full(g) /\ Full(g3) /\ a \in StringArrays /\ i \in DOMAIN g[2][a]
        /\ Matches(g, g3, {[array |-> a, index |-> i]})
    BY <1>3, <1>4, <1>5, <1>6
  <2> HIDE DEF W
  <2> QED BY ONLY <2>1, MatchesBut
<1>9. [array |-> a, index |-> i] \in target'
  BY <1>4, TargetsAre
<1> QED BY <1>1, <1>4, <1>6, <1>7, <1>8, <1>9 DEF Changed, a

(* The steps of BasicVariables.                                            *)
LEMMA TargetsOf == Abstract!Targets = Naming
BY DEF Abstract!Targets, Naming

LEMMA AssignElementIs ==
  ASSUME NEW a, NEW i, [array |-> a, index |-> i] \in target \union target',
         NEW v \in Texts \union {Unset}, i \in DOMAIN array[a],
         string' = string, array' = [array EXCEPT ![a][i] = v]
  PROVE  Abstract!AssignElement
<1> DEFINE t == [array |-> a, index |-> i]
<1>1. t.array = a /\ t.index = i
  OBVIOUS
<1>2. t \notin [name : StringNames]
  <2> SUFFICES ASSUME t \in [name : StringNames] PROVE FALSE
    OBVIOUS
  <2>1. DOMAIN t = {"name"} /\ DOMAIN t = {"array", "index"}
    OBVIOUS
  <2> QED BY <2>1
<1>3. t \in target \union target'
  OBVIOUS
<1> HIDE DEF t
<1> QED BY <1>1, <1>2, <1>3 DEF Abstract!AssignElement, Abstract!Values

LEMMA AssignIs ==
  ASSUME NEW n \in StringNames, [name |-> n] \in target \union target',
         NEW v \in Texts \union {Unset}, array' = array, string' = [string EXCEPT ![n] = v]
  PROVE  Abstract!Assign
<1> DEFINE t == [name |-> n]
<1>1. t.name = n /\ t \in [name : StringNames] /\ t \in target \union target'
  OBVIOUS
<1> HIDE DEF t
<1> QED BY <1>1 DEF Abstract!Assign, Abstract!Values

LEMMA DimensionIs ==
  ASSUME NEW a \in StringArrays, NEW n \in Nat, string' = string, DOMAIN array = StringArrays,
         array' = [array EXCEPT ![a] =
           [k \in 1 .. n |-> IF k \in DOMAIN array[a] THEN array[a][k] ELSE Unset]]
  PROVE  Abstract!Dimension
<1> DEFINE f == [k \in 1 .. n |-> IF k \in DOMAIN array[a] THEN array[a][k] ELSE Unset]
<1>1. array'[a] = f
  OBVIOUS
<1>2. Len(f) = n
  OBVIOUS
<1>3. f = Abstract!Resized(array[a], Len(array'[a]))
  BY <1>1, <1>2 DEF Abstract!Resized
<1>4. array' = [array EXCEPT ![a] = f]
  OBVIOUS
<1> HIDE DEF f
<1> QED BY <1>3, <1>4 DEF Abstract!Dimension

LEMMA LoseIs ==
  ASSUME NEW a \in StringArrays, NEW Q, DOMAIN array[a] \subseteq Q, string' = string,
         array' = [array EXCEPT ![a] = [k \in DOMAIN array[a] |-> IF k \in Q THEN Unset ELSE array[a][k]]]
  PROVE  Abstract!Lose
<1>1. [k \in DOMAIN array[a] |-> IF k \in Q THEN Unset ELSE array[a][k]] = [k \in DOMAIN array[a] |-> Unset]
  OBVIOUS
<1>2. array' = [array EXCEPT ![a] = [k \in DOMAIN array[a] |-> Unset]]
  BY <1>1
<1> QED BY <1>2 DEF Abstract!Lose

LEMMA SetFull ==
  ASSUME NEW g, Full(g), NEW a, NEW f, IsFun(f, DOMAIN f)
  PROVE  Full(<<g[1], [g[2] EXCEPT ![a] = f]>>)
<1> DEFINE e == g[2]
           G == [e EXCEPT ![a] = f]
<1>1. IsFun(e, StringArrays) /\ IsFun(g[1], StringNames) /\ \A b \in StringArrays : IsFun(e[b], DOMAIN e[b])
  BY DEF Full
<1> HIDE DEF e
<1>2. IsFun(G, StringArrays) /\ \A b \in StringArrays : G[b] = IF b = a THEN f ELSE e[b]
  BY <1>1 DEF IsFun
<1>3. \A b \in StringArrays : IsFun(G[b], DOMAIN G[b])
  BY <1>1, <1>2
<1> HIDE DEF G
<1>4. Full(<<g[1], G>>)
  BY <1>1, <1>2, <1>3 DEF Full
<1> QED BY <1>4 DEF G, e

LEMMA NameFull ==
  ASSUME NEW g, Full(g), NEW n, NEW v
  PROVE  Full(<<[g[1] EXCEPT ![n] = v], g[2]>>)
<1> DEFINE e == g[1]
           G == [e EXCEPT ![n] = v]
<1>1. IsFun(e, StringNames)
  BY DEF Full
<1> HIDE DEF e
<1>2. IsFun(G, StringNames)
  BY <1>1 DEF IsFun
<1> HIDE DEF G
<1>3. Full(<<G, g[2]>>)
  BY <1>2 DEF Full
<1> QED BY <1>3 DEF G, e

LEMMA TurnIs ==
  ASSUME There(Sight) PROVE Abstract!Turn \/ Abstract!AssignElement
<1>1. Full(Sight) /\ Sight[1] = string /\ Sight[2] = array
  BY SightFull
<1>2. Stacked(stack', tables')
  BY DEF There, Good, Sound
<1>3. CASE Unborn(stack') = {}
  <2>1. string' = string /\ array' = array
    BY <1>1, <1>3, ThereQuiet
  <2> QED BY <2>1 DEF Abstract!Turn
<1>4. CASE \E j, i : Waits(stack', tables', j, i)
  <2>1. PICK j, i : Waits(stack', tables', j, i)
    BY <1>4
  <2> DEFINE a == DimsOf(tables')[j].id
  <2>2. Changed(a, i, Sight)
    BY <1>1, <2>1, ThereWaits
  <2> HIDE DEF a
  <2>3. /\ [array |-> a, index |-> i] \in target' /\ i \in DOMAIN array[a] /\ string' = string
        /\ array' = [array EXCEPT ![a][i] = array'[a][i]] /\ array'[a][i] \in Texts \union {Unset}
    BY <1>1, <2>2 DEF Changed
  <2> QED BY <2>3, AssignElementIs
<1> QED BY <1>2, <1>3, <1>4, UnbornIs

LEMMA WroteIs ==
  ASSUME Here(Sight), NEW q, NEW v, WroteAt(Sight, q, v), Unborn(stack') = {}
  PROVE  Abstract!Assign \/ Abstract!AssignElement
<1> DEFINE g == See(Sight, tables, q, v)
<1>1. Full(Sight) /\ Sight[1] = string /\ Sight[2] = array
  BY SightFull
<1>2. Spot(tables, q) /\ NameOf(tables, q) \in target /\ v \in Texts \union {Unset} /\ There(g)
  BY DEF WroteAt
<1>3. CASE q[1] = "variables"
  <2> DEFINE n == VarsOf(tables)[q[2]].id
             G == <<[Sight[1] EXCEPT ![n] = v], Sight[2]>>
  <2>1. n \in StringNames /\ NameOf(tables, q) = [name |-> n] /\ g = G
    BY <1>2, <1>3 DEF Spot, NameOf, See
  <2>2. Full(G)
    BY <1>1, NameFull
  <2>3. string' = G[1] /\ array' = G[2]
    <3>1. There(G)
      BY <1>2, <2>1
    <3> HIDE DEF G
    <3> QED BY <2>2, <3>1, ThereQuiet
  <2>4. string' = [string EXCEPT ![n] = v] /\ array' = array
    BY <1>1, <2>3
  <2> HIDE DEF n
  <2> QED BY <1>2, <2>1, <2>4, AssignIs
<1>4. CASE q[1] # "variables"
  <2> DEFINE a == DimsOf(tables)[q[2]].id
             i == q[3]
             f == [Sight[2][a] EXCEPT ![i] = v]
             G == <<Sight[1], [Sight[2] EXCEPT ![a] = f]>>
  <2>1. /\ a \in StringArrays /\ NameOf(tables, q) = [array |-> a, index |-> i] /\ g = G
        /\ q[2] \in 1 .. Len(DimsOf(tables)) /\ i \in 1 .. Len(DimsOf(tables)[q[2]].str)
    BY <1>2, <1>4 DEF Spot, NameOf, See
  <2>2. Full(G)
    <3>1. IsFun(Sight[2][a], DOMAIN Sight[2][a])
      BY <1>1, <2>1 DEF Full
    <3>2. IsFun(f, DOMAIN f)
      BY DEF IsFun
    <3> HIDE DEF f
    <3> QED BY <1>1, <3>2, SetFull
  <2>3. string' = G[1] /\ array' = G[2]
    <3>1. There(G)
      BY <1>2, <2>1
    <3> HIDE DEF G
    <3> QED BY <2>2, <3>1, ThereQuiet
  <2>4. string' = string /\ array' = [array EXCEPT ![a][i] = v]
    BY <1>1, <2>3
  <2>5. i \in DOMAIN array[a]
    <3>1. DOMAIN Sight[2][a] = 1 .. Len(DimsOf(tables)[q[2]].str)
      BY <2>1 DEF Here, Good, Shown
    <3> QED BY <1>1, <2>1, <3>1
  <2> HIDE DEF a, i
  <2> QED BY <1>2, <2>1, <2>4, <2>5, AssignElementIs
<1> QED BY <1>3, <1>4

LEMMA DimIs ==
  ASSUME NEW g2, DimSees(Sight, g2), Unborn(stack') = {}
  PROVE  Abstract!Turn \/ Abstract!Dimension \/ Abstract!Lose
<1>1. Full(Sight) /\ Sight[1] = string /\ Sight[2] = array
  BY SightFull
<1>2. There(g2)
  BY DEF DimSees
<1>3. CASE g2 = Sight
  <2>1. string' = string /\ array' = array
    BY <1>1, <1>2, <1>3, ThereQuiet
  <2> QED BY <2>1 DEF Abstract!Turn
<1>4. CASE Resizing(Sight, g2)
  <2>1. PICK a \in StringArrays, n \in Nat : g2 = Resizes(Sight, a, n)
    BY <1>4 DEF Resizing
  <2> DEFINE f == [k \in 1 .. n |-> IF k \in DOMAIN Sight[2][a] THEN Sight[2][a][k] ELSE Unset]
             G == <<Sight[1], [Sight[2] EXCEPT ![a] = f]>>
  <2>2. g2 = G
    BY <2>1 DEF Resizes
  <2>3. Full(G)
    <3>1. IsFun(f, DOMAIN f)
      BY DEF IsFun
    <3> HIDE DEF f
    <3> QED BY <1>1, <3>1, SetFull
  <2>4. string' = G[1] /\ array' = G[2]
    <3> HIDE DEF G
    <3> QED BY <1>2, <2>2, <2>3, ThereQuiet
  <2>5. DOMAIN array = StringArrays
    BY DEF array
  <2>6. string' = string /\ array' = [array EXCEPT ![a] =
           [k \in 1 .. n |-> IF k \in DOMAIN array[a] THEN array[a][k] ELSE Unset]]
    BY <1>1, <2>4
  <2> QED BY <2>5, <2>6, DimensionIs
<1>5. CASE Losing(Sight, g2)
  <2>0. PICK a \in StringArrays : \E Q : DOMAIN Sight[2][a] \subseteq Q /\ g2 = Forgets(Sight, a, Q)
    BY <1>5 DEF Losing
  <2>1. PICK Q : DOMAIN Sight[2][a] \subseteq Q /\ g2 = Forgets(Sight, a, Q)
    BY <2>0
  <2> DEFINE f == [k \in DOMAIN Sight[2][a] |-> IF k \in Q THEN Unset ELSE Sight[2][a][k]]
             G == <<Sight[1], [Sight[2] EXCEPT ![a] = f]>>
  <2>2. g2 = G
    BY <2>1 DEF Forgets
  <2>3. Full(G)
    <3>1. IsFun(f, DOMAIN f)
      BY DEF IsFun
    <3> HIDE DEF f
    <3> QED BY <1>1, <3>1, SetFull
  <2>4. string' = G[1] /\ array' = G[2]
    <3> HIDE DEF G
    <3> QED BY <1>2, <2>2, <2>3, ThereQuiet
  <2>5. string' = string /\ DOMAIN array[a] \subseteq Q /\ array' = [array EXCEPT ![a] =
           [k \in DOMAIN array[a] |-> IF k \in Q THEN Unset ELSE array[a][k]]]
    BY <1>1, <2>1, <2>4
  <2> QED BY <2>5, LoseIs
<1> QED BY <1>3, <1>4, <1>5 DEF DimSees

LEMMA StepsAre ==
  ASSUME Here(Sight), Steps(Sight)
  PROVE  Abstract!Turn \/ Abstract!Assign \/ Abstract!AssignElement \/ Abstract!Dimension \/ Abstract!Lose
<1>1. CASE There(Sight)
  BY <1>1, TurnIs
<1>2. CASE Unborn(stack') = {} /\ \E q, v : WroteAt(Sight, q, v)
  BY <1>2, WroteIs
<1>3. CASE Unborn(stack') = {} /\ \E g2 : DimSees(Sight, g2)
  BY <1>3, DimIs
<1> QED BY <1>1, <1>2, <1>3 DEF Steps, Wrote

LEMMA TargetsKeep ==
  ASSUME Inv' PROVE target' \subseteq Abstract!Targets
<1>1. stack' \in Seq(Frame)
  BY DEF Inv, Sound, Stacked
<1> QED BY <1>1, TargetsIn, TargetsAre, TargetsOf

LEMMA CleanupIs ==
  ASSUME Inv, cleanup PROVE Abstract!Clear
<1>1. Here(Sight)
  BY SoundSight DEF Inv
<1>2. Good(lost', stack', heap', tables', rest', Blank)
  BY <1>1, CleanupKeeps
<1> DEFINE g3 == <<StringOf(heap', tables'), ArrayOf(heap', tables')>>
<1>3. Blocked(lost', heap') /\ Tabled(heap', tables') /\ Shown(Blank, stack', heap', tables') /\ stack' = <<>>
  BY <1>2 DEF Good, Sound, cleanup
<1>4. Full(g3) /\ Full(Blank)
  <2>1. Full(g3)
    BY FullIs
  <2>2. Full(Blank)
    BY DEF Full, IsFun, Blank
  <2> QED BY <2>1, <2>2
<1>5. Matches(Blank, g3, {})
  <2>1. Unborn(stack') = {}
    BY <1>3 DEF Unborn
  <2> QED BY <1>3, <2>1, FullMatches
<1>6. string' = g3[1] /\ array' = g3[2]
  BY SightAfter
<1> HIDE DEF g3
<1>7. string' = Blank[1] /\ array' = Blank[2]
  BY <1>4, <1>5, <1>6, MatchesAll
<1>8. target' = {}
  BY <1>3, TargetsAre DEF TargetOf, Pointers
<1> QED BY <1>7, <1>8 DEF Abstract!Clear, Blank

(* Each step of the interpreter is one of BasicVariables.                  *)
LEMMA NextIs ==
  ASSUME Inv, [Next]_vars PROVE [Abstract!Next]_Abstract!vars
<1>1. Here(Sight) /\ Strings(Sight)
  BY SoundSight DEF Inv
<1>2. target' \subseteq Abstract!Targets
  BY NextKeeps, TargetsKeep
<1>3. CASE Operand \/ Function
  BY <1>1, <1>2, <1>3, OperandKeeps, FunctionKeeps, TurnIs DEF Abstract!Next
<1>4. CASE Statement
  BY <1>1, <1>2, <1>4, StatementKeeps, StepsAre DEF Abstract!Next
<1>5. CASE setup
  <2>1. labels = Null
    BY <1>5 DEF setup, Inv
  <2> QED BY <1>1, <1>2, <1>5, <2>1, SetupKeeps, TurnIs DEF Abstract!Next
<1>6. CASE cleanup
  BY <1>2, <1>6, CleanupIs DEF Abstract!Next
<1>7. CASE UNCHANGED vars
  <2>1. tables' = tables /\ stack' = stack /\ heap' = heap
    BY <1>7 DEF vars
  <2>2. string' = string /\ array' = array /\ target' = target
    BY <2>1, SightIs, SightAfter, TargetsAre
  <2> QED BY <2>2 DEF Abstract!vars
<1> QED BY <1>3, <1>4, <1>5, <1>6, <1>7 DEF Next

LEMMA InitIs ==
  ASSUME Init PROVE Abstract!Init
<1>1. Good(lost, stack, heap, tables, rest, Blank) /\ stack = <<>>
  BY InitBare
<1> DEFINE g3 == <<StringOf(heap, tables), ArrayOf(heap, tables)>>
<1>2. Blocked(lost, heap) /\ Tabled(heap, tables) /\ Shown(Blank, stack, heap, tables)
  BY <1>1 DEF Good, Sound
<1>3. Full(g3) /\ Full(Blank)
  <2>1. Full(g3)
    BY FullIs
  <2>2. Full(Blank)
    BY DEF Full, IsFun, Blank
  <2> QED BY <2>1, <2>2
<1>4. Matches(Blank, g3, {})
  <2>1. Unborn(stack) = {}
    BY <1>1 DEF Unborn
  <2> QED BY <1>2, <2>1, FullMatches
<1>5. string = g3[1] /\ array = g3[2]
  BY SightIs
<1> HIDE DEF g3
<1>6. string = Blank[1] /\ array = Blank[2]
  BY <1>3, <1>4, <1>5, MatchesAll
<1>7. target = {}
  BY <1>1, TargetsAre DEF TargetOf, Pointers
<1> QED BY <1>6, <1>7 DEF Abstract!Init, Blank

(* The strings of a program are values, as BasicVariables says: a step of  *)
(* the interpreter changes no variable and no element of an array but the  *)
(* one the statement under way names, and DIM keeps the elements that fit, *)
(* whatever is freed, moved or made on the way (stringexpr, LET, MID$ =,   *)
(* INPUT, DIM and its initialisers).  Which text the one named gets is not *)
(* said.                                                                   *)
THEOREM StringsAreValues == Spec => Values
<1>1. Init => Abstract!Init
  BY InitIs
<1>2. Inv /\ [Next]_vars => [Abstract!Next]_Abstract!vars
  BY NextIs
<1> QED BY <1>1, <1>2, InvHolds, PTL DEF Spec, Values, Abstract!Spec
=============================================================================
