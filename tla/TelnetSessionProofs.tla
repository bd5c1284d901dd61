------------------------- MODULE TelnetSessionProofs -------------------------
(***************************************************************************)
(* For rings, segments and texts of every length: the state of the telnet  *)
(* console has its types, the input ring loses a key only when it is full, *)
(* and a session no second connection disturbs mirrors the console.        *)
(***************************************************************************)
EXTENDS TelnetSession, WellFoundedInduction, TLAPS

Slots == 0 .. FIFOSIZE - 1

(* Arithmetic on the ring, as the code writes it, without a modulo.        *)
LEMMA ModIsSlot == ASSUME NEW a \in Int PROVE a % FIFOSIZE \in Slots
BY RingAssumption DEF Slots

LEMMA Distance ==
  ASSUME NEW a \in Slots, NEW b \in Slots
  PROVE  (a - b) % FIFOSIZE = IF a >= b THEN a - b ELSE a - b + FIFOSIZE
BY RingAssumption DEF Slots

LEMMA Onward ==
  ASSUME NEW a \in Slots, NEW n \in Slots
  PROVE  (a + n) % FIFOSIZE = IF a + n < FIFOSIZE THEN a + n ELSE a + n - FIFOSIZE
BY RingAssumption DEF Slots
LEMMA Backward ==
  ASSUME NEW a \in Slots, NEW n \in Slots
  PROVE  (a - n) % FIFOSIZE = IF a >= n THEN a - n ELSE a - n + FIFOSIZE
BY RingAssumption DEF Slots

-------------------------------------------------------------------------------
(* Loops.  What holds before the first turn and is kept by each holds      *)
(* after the last.                                                         *)
LEMMA Smallest ==
  ASSUME NEW S, S \subseteq Nat, S # {}
  PROVE  \E x \in S : \A y \in S : x <= y
<1> DEFINE R == OpToRel(<, Nat)
<1>1. IsWellFoundedOn(R, Nat)
  BY NatLessThanWellFounded
<1>2. \A x, y \in Nat : y < x => <<y, x>> \in R
  BY DEF OpToRel
<1> HIDE DEF R
<1>3. \E x \in S : \A y \in S : ~(<<y, x>> \in R)
  BY ONLY S \subseteq Nat, S # {}, <1>1, WFMin
<1>4. PICK x \in S : \A y \in S : ~(<<y, x>> \in R)
  BY <1>3
<1>5. ASSUME NEW y \in S
      PROVE  x <= y
  <2>1. x \in Nat /\ y \in Nat /\ ~(<<y, x>> \in R)
    BY <1>4
  <2>2. ~(y < x)
    BY <1>2, <2>1
  <2> QED BY <2>1, <2>2
<1> QED BY <1>5

LEMMA Turns ==
  ASSUME NEW n \in Nat, NEW T, 0 \in T, \A i \in 1 .. n : i - 1 \in T => i \in T
  PROVE  \A i \in 0 .. n : i \in T
<1> DEFINE S == {i \in 0 .. n : i \notin T}
<1> SUFFICES ASSUME S # {} PROVE FALSE
  OBVIOUS
<1>1. S \subseteq Nat
  OBVIOUS
<1>2. PICK m \in S : \A y \in S : m <= y
  BY <1>1, Smallest
<1>3. m \in 1 .. n /\ m - 1 \in 0 .. n /\ m \notin T
  BY <1>2
<1>4. m - 1 \in T
  BY <1>2, <1>3
<1> QED BY <1>3, <1>4

(* The recursive functions of the module exist, and take one turn for each *)
(* character.                                                              *)
LEMMA Putting ==
  ASSUME NEW f, NEW n \in Nat
  PROVE  \E a : /\ a[0] = f
                /\ \A i \in 1 .. n : a[i] = puttelnetfifo(a[i - 1])
                /\ puttelnetfifostring(f, n) = a[n]
<1> DEFINE Is(g, m) == g = [i \in 0 .. m |-> IF i = 0 THEN f ELSE puttelnetfifo(g[i - 1])]
           T == {m \in 0 .. n : \E g : Is(g, m)}
<1>1. 0 \in T
  <2> DEFINE g == [i \in 0 .. 0 |-> f]
  <2>1. Is(g, 0)
    OBVIOUS
  <2> HIDE DEF g, Is
  <2> QED BY <2>1
<1>2. ASSUME NEW m \in 1 .. n, m - 1 \in T PROVE m \in T
  <2>1. PICK g : Is(g, m - 1)
    BY <1>2
  <2> DEFINE h == [i \in 0 .. m |-> IF i = m THEN puttelnetfifo(g[m - 1]) ELSE g[i]]
  <2>2. \A i \in 0 .. m : h[i] = IF i = 0 THEN f ELSE puttelnetfifo(h[i - 1])
    <3> SUFFICES ASSUME NEW i \in 0 .. m
                 PROVE  h[i] = IF i = 0 THEN f ELSE puttelnetfifo(h[i - 1])
      OBVIOUS
    <3>1. CASE i = 0
      BY <2>1, <3>1
    <3>2. CASE i # 0 /\ i # m
      <4>1. i \in 0 .. m - 1 /\ i - 1 \in 0 .. m /\ i - 1 # m
        BY <3>2
      <4>2. g[i] = puttelnetfifo(g[i - 1])
        BY <2>1, <3>2, <4>1
      <4> QED BY <3>2, <4>1, <4>2
    <3>3. CASE i # 0 /\ i = m
      <4>1. m - 1 \in 0 .. m /\ m - 1 # m
        OBVIOUS
      <4> QED BY <3>3, <4>1
    <3> QED BY <3>1, <3>2, <3>3
  <2>3. Is(h, m)
    BY <2>2
  <2> HIDE DEF h, Is
  <2> QED BY <2>3
<1>3. n \in T
  <2> HIDE DEF T
  <2> QED BY <1>1, <1>2, Turns
<1> DEFINE after == CHOOSE g : Is(g, n)
<1>4. Is(after, n)
  BY <1>3
<1>5. puttelnetfifostring(f, n) = after[n]
  BY DEF puttelnetfifostring
<1> HIDE DEF after
<1>6. after[0] = f /\ \A i \in 1 .. n : after[i] = puttelnetfifo(after[i - 1])
  BY <1>4
<1> QED BY <1>5, <1>6

LEMMA Receiving ==
  ASSUME NEW w, NEW bytes \in Seq(Char)
  PROVE  \E a : /\ a[0] = w
                /\ \A i \in 1 .. Len(bytes) : a[i] = NewByte(a[i - 1], bytes[i])
                /\ newdata(w, bytes) = a[Len(bytes)]
<1> DEFINE n == Len(bytes)
           Is(g, m) == g = [i \in 0 .. m |-> IF i = 0 THEN w ELSE NewByte(g[i - 1], bytes[i])]
           T == {m \in 0 .. n : \E g : Is(g, m)}
<1>0. n \in Nat
  OBVIOUS
<1> HIDE DEF n
<1>1. 0 \in T
  <2> DEFINE g == [i \in 0 .. 0 |-> w]
  <2>1. Is(g, 0)
    OBVIOUS
  <2> HIDE DEF g, Is
  <2> QED BY <1>0, <2>1
<1>2. ASSUME NEW m \in 1 .. n, m - 1 \in T PROVE m \in T
  <2> USE <1>0
  <2>1. PICK g : Is(g, m - 1)
    BY <1>2
  <2> DEFINE h == [i \in 0 .. m |-> IF i = m THEN NewByte(g[m - 1], bytes[m]) ELSE g[i]]
  <2>2. \A i \in 0 .. m : h[i] = IF i = 0 THEN w ELSE NewByte(h[i - 1], bytes[i])
    <3> SUFFICES ASSUME NEW i \in 0 .. m
                 PROVE  h[i] = IF i = 0 THEN w ELSE NewByte(h[i - 1], bytes[i])
      OBVIOUS
    <3>1. CASE i = 0
      BY <2>1, <3>1
    <3>2. CASE i # 0 /\ i # m
      <4>1. i \in 0 .. m - 1 /\ i - 1 \in 0 .. m /\ i - 1 # m
        BY <3>2
      <4>2. g[i] = NewByte(g[i - 1], bytes[i])
        BY <2>1, <3>2, <4>1
      <4> QED BY <3>2, <4>1, <4>2
    <3>3. CASE i # 0 /\ i = m
      <4>1. m - 1 \in 0 .. m /\ m - 1 # m
        OBVIOUS
      <4> QED BY <3>3, <4>1
    <3> QED BY <3>1, <3>2, <3>3
  <2>3. Is(h, m)
    BY <2>2
  <2> HIDE DEF h, Is
  <2> QED BY <2>3
<1>3. n \in T
  <2> HIDE DEF T
  <2>1. \A m \in 1 .. n : m - 1 \in T => m \in T
    BY <1>2
  <2>2. \A m \in 0 .. n : m \in T
    BY ONLY <1>0, <1>1, <2>1, Turns
  <2> QED BY ONLY <1>0, <2>2
<1> DEFINE after == CHOOSE g : Is(g, n)
<1>4. Is(after, n)
  BY <1>3
<1>5. newdata(w, bytes) = after[n]
  BY DEF newdata, n
<1> HIDE DEF after
<1>6. after[0] = w /\ \A i \in 1 .. n : after[i] = NewByte(after[i - 1], bytes[i])
  BY <1>0, <1>4
<1> QED BY <1>5, <1>6 DEF n
-------------------------------------------------------------------------------
(* The rings.  Ordered: the second tail is between the tail and the head.  *)
(* Holds: the ring is the last bytes offered to it, none missing.          *)
Ordered(f) == f \in Ring /\ fifoaheadused(f) <= fifoused(f)
Holds(f) ==
  \A i \in 0 .. fifoused(f) - 1 :
    f.buf[(f.fifotail + i) % FIFOSIZE] = f.seen - fifoused(f) + 1 + i

LEMMA RingFields ==
  ASSUME NEW f \in Ring
  PROVE  /\ f.fifohead \in Slots /\ f.fifotail \in Slots /\ f.fifoaheadtail \in Slots
         /\ f.seen \in Nat /\ f.buf \in [Slots -> Nat]
         /\ fifoused(f) \in Slots /\ fifoaheadused(f) \in Slots
<1>1. /\ f.fifohead \in Slots /\ f.fifotail \in Slots /\ f.fifoaheadtail \in Slots
      /\ f.seen \in Nat /\ f.buf \in [Slots -> Nat]
  BY DEF Ring, Slots
<1>2. f.fifohead - f.fifotail \in Int /\ f.fifohead - f.fifoaheadtail \in Int
  BY <1>1 DEF Slots
<1>3. fifoused(f) \in Slots /\ fifoaheadused(f) \in Slots
  BY <1>2, ModIsSlot DEF fifoused, fifoaheadused
<1> QED BY <1>1, <1>3

LEMMA RingNumbers ==
  ASSUME NEW f \in Ring
  PROVE  /\ fifoused(f) \in Nat /\ fifoused(f) < FIFOSIZE
         /\ fifoaheadused(f) \in Nat /\ fifoaheadused(f) < FIFOSIZE
         /\ f.seen \in Nat
<1>1. fifoused(f) \in Slots /\ fifoaheadused(f) \in Slots /\ f.seen \in Nat
  BY RingFields
<1>2. \A x \in Slots : x \in Nat /\ x < FIFOSIZE
  BY RingAssumption DEF Slots
<1> QED BY <1>1, <1>2

LEMMA EmptyRing ==
  ASSUME NEW f \in Ring
  PROVE  LET g == inittelnetfifo(f)
         IN  /\ g \in Ring /\ g.seen = f.seen
             /\ fifoused(g) = 0 /\ fifoaheadused(g) = 0
<1> DEFINE g == inittelnetfifo(f)
<1>1. /\ g \in Ring /\ g.seen = f.seen
      /\ g.fifohead = 0 /\ g.fifotail = 0 /\ g.fifoaheadtail = 0 /\ 0 \in Slots
  <2>1. 0 \in 0 .. FIFOSIZE - 1
    BY RingAssumption
  <2>2. g = [f EXCEPT !.fifohead = 0, !.fifotail = 0, !.fifoaheadtail = 0]
    BY DEF inittelnetfifo
  <2> HIDE DEF g
  <2> QED BY <2>1, <2>2 DEF Ring, Slots
<1> HIDE DEF g
<1>2. (0 - 0) % FIFOSIZE = 0
  BY <1>1, Distance
<1>3. fifoused(g) = 0 /\ fifoaheadused(g) = 0
  BY <1>1, <1>2 DEF fifoused, fifoaheadused
<1> QED BY <1>1, <1>3 DEF g

(* A byte offered to the ring.                                             *)
LEMMA PutTypes ==
  ASSUME NEW f \in Ring
  PROVE  LET g == puttelnetfifo(f)
         IN  /\ g \in Ring /\ g.seen = f.seen + 1
             /\ g.fifotail = f.fifotail /\ g.fifoaheadtail = f.fifoaheadtail
<1> DEFINE g == puttelnetfifo(f)
           pos == (f.fifohead + 1) % FIFOSIZE
           e == [f EXCEPT !.seen = @ + 1]
           h == [e EXCEPT !.buf[f.fifohead] = e.seen, !.fifohead = pos]
<1>1. pos \in Slots
  <2>1. f.fifohead + 1 \in Int
    BY RingFields DEF Slots
  <2> QED BY <2>1, ModIsSlot
<1>2. g = e \/ g = h
  BY DEF puttelnetfifo
<1> HIDE DEF g, pos
<1>3. /\ e \in Ring /\ e.seen = f.seen + 1 /\ e.seen \in Nat
      /\ e.fifotail = f.fifotail /\ e.fifoaheadtail = f.fifoaheadtail
  BY DEF Ring
<1> HIDE DEF e
<1>4. /\ h \in Ring /\ h.seen = e.seen
      /\ h.fifotail = e.fifotail /\ h.fifoaheadtail = e.fifoaheadtail
  BY <1>1, <1>3 DEF Ring, Slots
<1> HIDE DEF h
<1> QED BY <1>2, <1>3, <1>4 DEF g

LEMMA PutAtHead ==
  ASSUME NEW f, Ordered(f)
  PROVE  LET g == puttelnetfifo(f)
         IN  /\ Ordered(g)
             /\ fifoused(f) < FIFOSIZE - 1 =>
                  /\ fifoused(g) = fifoused(f) + 1
                  /\ fifoaheadused(g) = fifoaheadused(f) + 1
                  /\ g.buf = [f.buf EXCEPT ![f.fifohead] = f.seen + 1]
             /\ fifoused(f) = FIFOSIZE - 1 => fifoused(g) = fifoused(f)
<1> DEFINE g == puttelnetfifo(f)
           pos == (f.fifohead + 1) % FIFOSIZE
<1> USE RingAssumption
<1>0. /\ f \in Ring /\ f.fifohead \in Slots /\ f.fifotail \in Slots /\ f.fifoaheadtail \in Slots
      /\ f.seen \in Nat /\ 1 \in Slots
      /\ fifoused(f) \in Slots /\ fifoaheadused(f) \in Slots
  BY RingFields DEF Ordered, Slots
<1>1. /\ pos \in Slots
      /\ pos = IF f.fifohead + 1 < FIFOSIZE THEN f.fifohead + 1 ELSE f.fifohead + 1 - FIFOSIZE
  <2>1. f.fifohead + 1 \in Int
    BY <1>0 DEF Slots
  <2> QED BY <1>0, <2>1, Onward, ModIsSlot
<1>2. /\ g \in Ring /\ g.fifotail = f.fifotail /\ g.fifoaheadtail = f.fifoaheadtail
  BY <1>0, PutTypes
<1>3. IF pos \in {f.fifotail, f.fifoaheadtail} THEN g.fifohead = f.fifohead
      ELSE g.fifohead = pos /\ g.buf = [f.buf EXCEPT ![f.fifohead] = f.seen + 1]
  <2> DEFINE e == [f EXCEPT !.seen = @ + 1]
             h == [e EXCEPT !.buf[f.fifohead] = e.seen, !.fifohead = pos]
  <2>1. g = IF pos \in {f.fifotail, f.fifoaheadtail} THEN e ELSE h
    BY DEF puttelnetfifo
  <2>2. e \in Ring /\ e.fifohead = f.fifohead /\ e.seen = f.seen + 1 /\ e.buf = f.buf
    BY <1>0, SMTT(30) DEF Ring
  <2> HIDE DEF e, g, pos
  <2>3. h.fifohead = pos /\ h.buf = [e.buf EXCEPT ![f.fifohead] = e.seen]
    BY <2>2 DEF Ring
  <2> QED BY <2>1, <2>2, <2>3
<1> HIDE DEF g, pos
<1>4. /\ fifoused(f) = IF f.fifohead >= f.fifotail THEN f.fifohead - f.fifotail
                       ELSE f.fifohead - f.fifotail + FIFOSIZE
      /\ fifoaheadused(f) = IF f.fifohead >= f.fifoaheadtail THEN f.fifohead - f.fifoaheadtail
                            ELSE f.fifohead - f.fifoaheadtail + FIFOSIZE
  BY <1>0, Distance DEF fifoused, fifoaheadused
<1>5. /\ g.fifohead \in Slots
      /\ fifoused(g) = IF g.fifohead >= f.fifotail THEN g.fifohead - f.fifotail
                       ELSE g.fifohead - f.fifotail + FIFOSIZE
      /\ fifoaheadused(g) = IF g.fifohead >= f.fifoaheadtail THEN g.fifohead - f.fifoaheadtail
                            ELSE g.fifohead - f.fifoaheadtail + FIFOSIZE
  BY <1>0, <1>2, RingFields, Distance DEF fifoused, fifoaheadused
<1>6. fifoaheadused(f) <= fifoused(f)
  BY DEF Ordered
<1>7. CASE fifoused(f) = FIFOSIZE - 1
  <2>1. pos = f.fifotail
    BY <1>0, <1>1, <1>4, <1>7 DEF Slots
  <2>2. g.fifohead = f.fifohead
    BY <1>3, <2>1
  <2>3. fifoused(g) = fifoused(f) /\ fifoaheadused(g) = fifoaheadused(f)
    BY <1>4, <1>5, <2>2
  <2> QED BY <1>0, <1>2, <1>6, <1>7, <2>3 DEF Ordered, g, Slots
<1>8. CASE fifoused(f) < FIFOSIZE - 1
  <2>1. pos # f.fifotail /\ pos # f.fifoaheadtail
    BY <1>0, <1>1, <1>4, <1>6, <1>8 DEF Slots
  <2>2. g.fifohead = pos /\ g.buf = [f.buf EXCEPT ![f.fifohead] = f.seen + 1]
    BY <1>3, <2>1
  <2>3. fifoused(g) = fifoused(f) + 1 /\ fifoaheadused(g) = fifoaheadused(f) + 1
    BY <1>0, <1>1, <1>4, <1>5, <1>6, <1>8, <2>1, <2>2 DEF Slots
  <2> QED BY <1>0, <1>2, <1>6, <1>8, <2>2, <2>3 DEF Ordered, g, Slots
<1>9. fifoused(f) = FIFOSIZE - 1 \/ fifoused(f) < FIFOSIZE - 1
  BY <1>0 DEF Slots
<1> QED BY <1>7, <1>8, <1>9

LEMMA PutHolds ==
  ASSUME NEW f, Ordered(f), Holds(f), fifoused(f) < FIFOSIZE - 1
  PROVE  Holds(puttelnetfifo(f))
<1> DEFINE g == puttelnetfifo(f)
<1> USE RingAssumption
<1>0. /\ f \in Ring /\ f.fifohead \in Slots /\ f.fifotail \in Slots
      /\ f.seen \in Nat /\ f.buf \in [Slots -> Nat] /\ fifoused(f) \in Slots
  BY RingFields DEF Ordered
<1>1. /\ g.fifotail = f.fifotail /\ g.seen = f.seen + 1
      /\ fifoused(g) = fifoused(f) + 1
      /\ g.buf = [f.buf EXCEPT ![f.fifohead] = f.seen + 1]
  BY <1>0, PutTypes, PutAtHead
<1> HIDE DEF g
<1>2. fifoused(f) = IF f.fifohead >= f.fifotail THEN f.fifohead - f.fifotail
                    ELSE f.fifohead - f.fifotail + FIFOSIZE
  BY <1>0, Distance DEF fifoused
<1>3. ASSUME NEW i \in 0 .. fifoused(f)
      PROVE  g.buf[(f.fifotail + i) % FIFOSIZE] = f.seen - fifoused(f) + 1 + i
  <2> DEFINE p == (f.fifotail + i) % FIFOSIZE
  <2>1. /\ i \in Slots /\ p \in Slots
        /\ p = IF f.fifotail + i < FIFOSIZE THEN f.fifotail + i ELSE f.fifotail + i - FIFOSIZE
    <3>1. i \in Slots /\ f.fifotail + i \in Int
      BY <1>0 DEF Slots
    <3> QED BY <1>0, <3>1, Onward, ModIsSlot
  <2> HIDE DEF p
  <2>2. CASE i = fifoused(f)
    <3>1. p = f.fifohead
      BY <1>0, <1>2, <2>1, <2>2 DEF Slots
    <3>2. g.buf[p] = f.seen + 1
      BY <1>0, <1>1, <3>1
    <3>3. f.seen \in Int /\ fifoused(f) \in Int
      BY <1>0 DEF Slots
    <3>4. f.seen - fifoused(f) + 1 + i = f.seen + 1
      BY <2>2, <3>3
    <3> QED BY <3>2, <3>4 DEF p
  <2>3. CASE i # fifoused(f)
    <3>1. p # f.fifohead
      BY <1>0, <1>2, <2>1, <2>3 DEF Slots
    <3>2. i \in 0 .. fifoused(f) - 1
      BY <1>0, <2>3 DEF Slots
    <3>3. f.buf[p] = f.seen - fifoused(f) + 1 + i
      BY <3>2 DEF Holds, p
    <3>4. g.buf[p] = f.buf[p]
      BY <1>0, <1>1, <2>1, <3>1
    <3> QED BY <3>3, <3>4 DEF p
  <2> QED BY <2>2, <2>3
<1>4. /\ fifoused(g) - 1 = fifoused(f)
      /\ g.seen - fifoused(g) = f.seen - fifoused(f)
  <2>1. fifoused(f) \in Int /\ f.seen \in Int
    BY <1>0 DEF Slots
  <2> QED BY <1>1, <2>1
<1>5. Holds(g)
  BY <1>1, <1>3, <1>4 DEF Holds
<1> QED BY <1>5 DEF g
(* A text offered to the ring, and one that fits.                          *)
LEMMA StringTypes ==
  ASSUME NEW f \in Ring, NEW n \in Nat
  PROVE  LET g == puttelnetfifostring(f, n)
         IN  g \in Ring /\ g.seen = f.seen + n
<1>1. PICK a : /\ a[0] = f
               /\ \A i \in 1 .. n : a[i] = puttelnetfifo(a[i - 1])
               /\ puttelnetfifostring(f, n) = a[n]
  BY Putting
<1> DEFINE T == {i \in 0 .. n : a[i] \in Ring /\ a[i].seen = f.seen + i}
<1>2. 0 \in T
  BY <1>1, RingFields
<1>3. ASSUME NEW i \in 1 .. n, i - 1 \in T PROVE i \in T
  <2>1. /\ a[i - 1] \in Ring /\ a[i - 1].seen = f.seen + (i - 1)
        /\ a[i] = puttelnetfifo(a[i - 1]) /\ f.seen \in Nat
    BY <1>1, <1>3, RingFields
  <2>2. a[i] \in Ring /\ a[i].seen = a[i - 1].seen + 1
    BY ONLY <2>1, PutTypes
  <2> QED BY <2>1, <2>2
<1>4. \A i \in 1 .. n : i - 1 \in T => i \in T
  BY <1>3
<1> HIDE DEF T
<1>5. n \in T
  <2>1. \A i \in 0 .. n : i \in T
    BY ONLY n \in Nat, <1>2, <1>4, Turns
  <2> QED BY <2>1
<1> QED BY <1>1, <1>5 DEF T

LEMMA StringHolds ==
  ASSUME NEW f, Ordered(f), Holds(f), NEW n \in Nat, fifoused(f) + n <= FIFOSIZE - 1
  PROVE  LET g == puttelnetfifostring(f, n)
         IN  /\ Ordered(g) /\ Holds(g)
             /\ fifoused(g) = fifoused(f) + n
             /\ fifoaheadused(g) = fifoaheadused(f) + n
<1>0. /\ f \in Ring /\ fifoused(f) \in Int /\ fifoaheadused(f) \in Int /\ FIFOSIZE \in Int
  BY RingAssumption, RingFields DEF Ordered, Slots
<1>1. PICK a : /\ a[0] = f
               /\ \A i \in 1 .. n : a[i] = puttelnetfifo(a[i - 1])
               /\ puttelnetfifostring(f, n) = a[n]
  BY Putting
<1> DEFINE T == {i \in 0 .. n : /\ Ordered(a[i]) /\ Holds(a[i])
                                /\ fifoused(a[i]) = fifoused(f) + i
                                /\ fifoaheadused(a[i]) = fifoaheadused(f) + i}
<1>2. 0 \in T
  BY <1>0, <1>1
<1>3. ASSUME NEW i \in 1 .. n, i - 1 \in T PROVE i \in T
  <2>1. /\ Ordered(a[i - 1]) /\ Holds(a[i - 1])
        /\ fifoused(a[i - 1]) = fifoused(f) + (i - 1)
        /\ fifoaheadused(a[i - 1]) = fifoaheadused(f) + (i - 1)
        /\ a[i] = puttelnetfifo(a[i - 1])
    BY <1>1, <1>3
  <2>2. fifoused(a[i - 1]) < FIFOSIZE - 1
    BY <1>0, <2>1
  <2>3. /\ Ordered(a[i]) /\ Holds(a[i])
        /\ fifoused(a[i]) = fifoused(a[i - 1]) + 1
        /\ fifoaheadused(a[i]) = fifoaheadused(a[i - 1]) + 1
    BY ONLY <2>1, <2>2, PutAtHead, PutHolds
  <2> QED BY <1>0, <2>1, <2>3
<1>4. \A i \in 1 .. n : i - 1 \in T => i \in T
  BY <1>3
<1> HIDE DEF T
<1>5. n \in T
  <2>1. \A i \in 0 .. n : i \in T
    BY ONLY n \in Nat, <1>2, <1>4, Turns
  <2> QED BY <2>1
<1> QED BY <1>1, <1>5 DEF T

(* The one reader of the input ring.                                       *)
LEMMA ReadKeeps == ASSUME NEW f \in Ring PROVE Ordered(Read(f)) /\ Read(f).seen = f.seen
<1> DEFINE g == Read(f)
           e == [f EXCEPT !.fifoaheadtail = f.fifohead]
           pos == (f.fifotail + 1) % FIFOSIZE
<1>1. /\ f.fifohead \in Slots /\ f.fifotail + 1 \in Int
  BY RingFields DEF Slots
<1>2. pos \in Slots
  BY <1>1, ModIsSlot
<1>3. g = e \/ g = [e EXCEPT !.fifotail = pos]
  BY DEF Read, Ring
<1> HIDE DEF g, pos
<1>4. g \in Ring /\ g.seen = f.seen /\ g.fifohead = f.fifohead /\ g.fifoaheadtail = f.fifohead
  BY <1>1, <1>2, <1>3 DEF Ring, Slots
<1>5. fifoaheadused(g) = 0
  BY <1>1, <1>4, Distance DEF fifoaheadused, Slots
<1>6. fifoused(g) >= 0
  BY <1>4, RingFields DEF Slots
<1> QED BY <1>4, <1>5, <1>6 DEF Ordered, g

-------------------------------------------------------------------------------
(* What telnetd_appcall works on.                                          *)
Flags == {"connected", "acked", "newdata", "close", "abort", "timedout", "rexmit", "poll"}
Works ==
  [connected : BOOLEAN, authenticated : -2 .. PasswordLength, sendfifo : Ring,
   recvfifo : Ring, k : Connections, flags : SUBSET Flags, options : Nat]

(* The send ring with n bytes under way.                                   *)
Sends(f, n) == Ordered(f) /\ Holds(f) /\ n = fifoused(f) - fifoaheadused(f)

(* The ring of keys after n more of them.                                  *)
Filled(f, g) ==
  /\ g.seen >= f.seen
  /\ fifoused(g) = LET n == fifoused(f) + g.seen - f.seen
                   IN  IF n < FIFOSIZE THEN n ELSE FIFOSIZE - 1

(* What the peer's bytes do: keys are stored, telnetd says something that  *)
(* is ordered and complete if it fits, and nothing else of the connection  *)
(* changes but the state of newdata.                                       *)
Said(w, r) ==
  LET n == r.options - w.options
  IN  /\ n \in Nat
      /\ \A under : Sends(w.sendfifo, under) /\ fifoused(w.sendfifo) + n <= FIFOSIZE - 1 =>
           /\ Sends(r.sendfifo, under)
           /\ fifoused(r.sendfifo) = fifoused(w.sendfifo) + n
           /\ r.sendfifo.seen = w.sendfifo.seen + n

SameButState(k, j) ==
  /\ j.tcp = k.tcp /\ j.nrtx = k.nrtx /\ j.outstanding = k.outstanding
  /\ j.arrived = k.arrived /\ j.didconnect = k.didconnect
  /\ j.waiting_for = k.waiting_for

Fed(w, r) ==
  /\ r \in Works
  /\ r.connected = w.connected
  /\ r.flags = w.flags \/ r.flags = {"close"}
  /\ SameButState(w.k, r.k)
  /\ Said(w, r)
  /\ Ordered(w.recvfifo) => Ordered(r.recvfifo) /\ Filled(w.recvfifo, r.recvfifo)

LEMMA SayTypes ==
  ASSUME NEW w \in Works, NEW n \in Nat
  PROVE  LET r == Say(w, n)
         IN  /\ r \in Works /\ r.options = w.options + n
             /\ r.sendfifo = puttelnetfifostring(w.sendfifo, n)
             /\ r.connected = w.connected /\ r.authenticated = w.authenticated
             /\ r.recvfifo = w.recvfifo /\ r.k = w.k /\ r.flags = w.flags
<1>1. w.sendfifo \in Ring
  BY DEF Works
<1>2. puttelnetfifostring(w.sendfifo, n) \in Ring
  BY <1>1, StringTypes
<1> DEFINE g == puttelnetfifostring(w.sendfifo, n)
           r == Say(w, n)
<1>3. r = [w EXCEPT !.sendfifo = g, !.options = w.options + n] /\ w.options + n \in Nat
  BY DEF Say, Works
<1>4. g \in Ring
  BY <1>2
<1> HIDE DEF g, r
<1>5. /\ r \in Works /\ r.options = w.options + n /\ r.sendfifo = g
      /\ r.connected = w.connected /\ r.authenticated = w.authenticated
      /\ r.recvfifo = w.recvfifo /\ r.k = w.k /\ r.flags = w.flags
  BY <1>3, <1>4 DEF Works
<1> QED BY <1>5 DEF g, r

LEMMA SaySaid == ASSUME NEW w \in Works, NEW n \in Nat PROVE Said(w, Say(w, n))
<1> DEFINE r == Say(w, n)
<1>1. /\ r.options = w.options + n /\ w.options \in Nat /\ w.sendfifo \in Ring
      /\ r.sendfifo = puttelnetfifostring(w.sendfifo, n)
  BY SayTypes DEF Works
<1> HIDE DEF r
<1>2. r.options - w.options = n
  BY <1>1
<1>3. r.sendfifo.seen = w.sendfifo.seen + n
  BY <1>1, StringTypes
<1>4. ASSUME NEW under, Sends(w.sendfifo, under), fifoused(w.sendfifo) + n <= FIFOSIZE - 1
      PROVE  Sends(r.sendfifo, under) /\ fifoused(r.sendfifo) = fifoused(w.sendfifo) + n
  <2>1. fifoused(w.sendfifo) \in Int /\ fifoaheadused(w.sendfifo) \in Int
    BY <1>1, RingFields DEF Slots
  <2>2. /\ Ordered(r.sendfifo) /\ Holds(r.sendfifo)
        /\ fifoused(r.sendfifo) = fifoused(w.sendfifo) + n
        /\ fifoaheadused(r.sendfifo) = fifoaheadused(w.sendfifo) + n
    BY <1>1, <1>4, StringHolds DEF Sends
  <2> QED BY <1>4, <2>1, <2>2 DEF Sends
<1>5. Said(w, r)
  BY <1>2, <1>3, <1>4 DEF Said
<1> QED BY <1>5 DEF r

LEMMA SaidTwice ==
  ASSUME NEW w \in Works, NEW v \in Works, NEW r \in Works, Said(w, v), Said(v, r)
  PROVE  Said(w, r)
<1> DEFINE m == v.options - w.options
           n == r.options - v.options
<1>1. /\ m \in Nat /\ n \in Nat /\ r.options - w.options = m + n
      /\ w.options \in Nat /\ v.options \in Nat /\ r.options \in Nat
      /\ w.sendfifo \in Ring /\ v.sendfifo \in Ring
  BY DEF Said, Works
<1>2. /\ fifoused(w.sendfifo) \in Int /\ w.sendfifo.seen \in Int /\ FIFOSIZE \in Int
      /\ fifoused(v.sendfifo) \in Int /\ v.sendfifo.seen \in Int
  BY <1>1, RingNumbers, RingAssumption
<1>3. ASSUME NEW under, Sends(w.sendfifo, under),
             fifoused(w.sendfifo) + (m + n) <= FIFOSIZE - 1
      PROVE  /\ Sends(r.sendfifo, under)
             /\ fifoused(r.sendfifo) = fifoused(w.sendfifo) + (m + n)
             /\ r.sendfifo.seen = w.sendfifo.seen + (m + n)
  <2>1. /\ Sends(v.sendfifo, under)
        /\ fifoused(v.sendfifo) = fifoused(w.sendfifo) + m
        /\ v.sendfifo.seen = w.sendfifo.seen + m
    <3>1. fifoused(w.sendfifo) + m <= FIFOSIZE - 1
      BY <1>1, <1>2, <1>3
    <3> QED BY <1>3, <3>1 DEF Said
  <2>2. fifoused(v.sendfifo) + n <= FIFOSIZE - 1
    BY <1>1, <1>2, <1>3, <2>1
  <2>3. /\ Sends(r.sendfifo, under)
        /\ fifoused(r.sendfifo) = fifoused(v.sendfifo) + n
        /\ r.sendfifo.seen = v.sendfifo.seen + n
    BY <2>1, <2>2 DEF Said
  <2> QED BY <1>1, <1>2, <2>1, <2>3
<1> HIDE DEF m, n
<1>4. m + n \in Nat
  BY <1>1
<1> QED BY <1>1, <1>3, <1>4 DEF Said
(* One turn of newdata keeps what the turns before it did.                 *)
LEMMA FedBySay ==
  ASSUME NEW w \in Works, NEW v, Fed(w, v), NEW n \in Nat
  PROVE  Fed(w, Say(v, n))
<1> DEFINE r == Say(v, n)
<1>1. v \in Works
  BY DEF Fed
<1>2. /\ r \in Works /\ r.connected = v.connected /\ r.recvfifo = v.recvfifo
      /\ r.k = v.k /\ r.flags = v.flags /\ Said(v, r)
  BY <1>1, SayTypes, SaySaid
<1> HIDE DEF r
<1>3. Said(w, r)
  BY <1>1, <1>2, SaidTwice DEF Fed
<1>4. Fed(w, r)
  BY <1>2, <1>3 DEF Fed
<1> QED BY <1>4 DEF r

(* A change that touches neither the rings nor the connection.             *)
LEMMA FedAnyhow ==
  ASSUME NEW w \in Works, NEW v, Fed(w, v), NEW r \in Works,
         r.connected = v.connected, r.sendfifo = v.sendfifo, r.recvfifo = v.recvfifo,
         r.options = v.options, r.flags = v.flags \/ r.flags = {"close"},
         SameButState(v.k, r.k)
  PROVE  Fed(w, r)
<1>1. Said(w, r)
  BY DEF Fed, Said
<1>2. SameButState(w.k, r.k)
  BY DEF Fed, SameButState
<1> QED BY <1>1, <1>2 DEF Fed

LEMMA FedByKey == ASSUME NEW w \in Works, NEW v, Fed(w, v) PROVE Fed(w, Key(v))
<1> DEFINE r == Key(v)
           g == puttelnetfifo(v.recvfifo)
<1>1. v \in Works /\ v.recvfifo \in Ring /\ w.recvfifo \in Ring
  BY DEF Fed, Works
<1>2. g \in Ring /\ g.seen = v.recvfifo.seen + 1
  BY <1>1, PutTypes
<1>3. r = [v EXCEPT !.recvfifo = g]
  BY DEF Key
<1>4. ASSUME Ordered(w.recvfifo)
      PROVE  Ordered(g) /\ Filled(w.recvfifo, g)
  <2>1. Ordered(v.recvfifo) /\ Filled(w.recvfifo, v.recvfifo)
    BY <1>4 DEF Fed
  <2>2. /\ Ordered(g)
        /\ fifoused(v.recvfifo) < FIFOSIZE - 1 => fifoused(g) = fifoused(v.recvfifo) + 1
        /\ fifoused(v.recvfifo) = FIFOSIZE - 1 => fifoused(g) = fifoused(v.recvfifo)
    BY <2>1, PutAtHead
  <2>3. /\ fifoused(v.recvfifo) \in 0 .. FIFOSIZE - 1 /\ fifoused(w.recvfifo) \in Int
        /\ v.recvfifo.seen \in Int /\ w.recvfifo.seen \in Int /\ FIFOSIZE \in Int
    BY <1>1, RingFields, RingAssumption DEF Slots
  <2> HIDE DEF g
  <2> QED BY <1>2, <2>1, <2>2, <2>3 DEF Filled
<1> HIDE DEF r, g
<1>5. /\ r \in Works /\ r.connected = v.connected /\ r.sendfifo = v.sendfifo
      /\ r.recvfifo = g /\ r.k = v.k /\ r.flags = v.flags /\ r.options = v.options
  BY <1>1, <1>2, <1>3 DEF Works
<1>6. Said(w, r)
  BY <1>5 DEF Fed, Said
<1>7. Fed(w, r)
  BY <1>4, <1>5, <1>6 DEF Fed
<1> QED BY <1>7 DEF r

(* The state of newdata after a turn.                                      *)
LEMMA FedByState ==
  ASSUME NEW w \in Works, NEW v, Fed(w, v), NEW t \in {"normal", "iac", "verb"}
  PROVE  Fed(w, [v EXCEPT !.k.state = t])
<1> DEFINE j == [v.k EXCEPT !.state = t]
           r == [v EXCEPT !.k = j]
<1>1. v \in Works /\ v.k \in Connections
  BY DEF Fed, Works
<1>2. j \in Connections /\ SameButState(v.k, j)
  BY <1>1 DEF Connections, SameButState
<1> HIDE DEF j
<1>3. /\ r \in Works /\ r.connected = v.connected /\ r.sendfifo = v.sendfifo
      /\ r.recvfifo = v.recvfifo /\ r.options = v.options /\ r.flags = v.flags /\ r.k = j
  BY <1>1, <1>2 DEF Works
<1>4. [v EXCEPT !.k.state = t] = r
  BY <1>1 DEF Works, Connections, j
<1> HIDE DEF r
<1> QED BY <1>2, <1>3, <1>4, FedAnyhow

LEMMA FedByLogin ==
  ASSUME NEW w \in Works, NEW v, Fed(w, v), NEW c \in Char
  PROVE  Fed(w, Login(v, c))
<1>1. v \in Works /\ v.authenticated \in -2 .. PasswordLength
  BY DEF Fed, Works
<1>2. CASE c = "return" /\ v.authenticated = PasswordLength
  <2> DEFINE u == Say(v, Text["accepted"])
             r == [u EXCEPT !.authenticated = -1]
  <2>1. Text["accepted"] \in Nat /\ -1 \in -2 .. PasswordLength
    BY LoginAssumption
  <2>2. Fed(w, u) /\ u \in Works
    BY <2>1, FedBySay DEF Fed
  <2>3. Login(v, c) = r
    BY <1>2 DEF Login
  <2> HIDE DEF u
  <2>4. /\ r \in Works /\ r.connected = u.connected /\ r.sendfifo = u.sendfifo
        /\ r.recvfifo = u.recvfifo /\ r.options = u.options /\ r.flags = u.flags
        /\ SameButState(u.k, r.k)
    BY <2>1, <2>2 DEF Works, SameButState
  <2> HIDE DEF r
  <2> QED BY <2>2, <2>3, <2>4, FedAnyhow
<1>3. CASE c = "return" /\ v.authenticated # PasswordLength
  <2> DEFINE r == [v EXCEPT !.flags = {"close"}]
  <2>1. Login(v, c) = r
    BY <1>3 DEF Login
  <2>2. /\ r \in Works /\ r.connected = v.connected /\ r.sendfifo = v.sendfifo
        /\ r.recvfifo = v.recvfifo /\ r.options = v.options /\ r.flags = {"close"}
        /\ SameButState(v.k, r.k)
    BY <1>1 DEF Works, SameButState, Flags
  <2> HIDE DEF r
  <2> QED BY <2>1, <2>2, FedAnyhow
<1>4. CASE c # "return" /\ v.authenticated >= 0
  <2> DEFINE m == IF c = "good" /\ v.authenticated < PasswordLength THEN v.authenticated + 1
                  ELSE -2
             r == [v EXCEPT !.authenticated = m]
  <2>1. Login(v, c) = r
    BY <1>1, <1>4 DEF Login, Works
  <2>2. m \in -2 .. PasswordLength
    BY <1>1, LoginAssumption
  <2> HIDE DEF m
  <2>3. /\ r \in Works /\ r.connected = v.connected /\ r.sendfifo = v.sendfifo
        /\ r.recvfifo = v.recvfifo /\ r.options = v.options /\ r.flags = v.flags
        /\ SameButState(v.k, r.k)
    BY <1>1, <2>2 DEF Works, SameButState
  <2> HIDE DEF r
  <2> QED BY <2>1, <2>3, FedAnyhow
<1>5. CASE c # "return" /\ ~(v.authenticated >= 0)
  <2>1. Login(v, c) = v
    BY <1>5 DEF Login
  <2> QED BY <2>1
<1> QED BY <1>2, <1>3, <1>4, <1>5

LEMMA FedByByte ==
  ASSUME NEW w \in Works, NEW v, Fed(w, v), NEW c \in Char
  PROVE  Fed(w, NewByte(v, c))
<1>1. v.k.state \in {"normal", "iac", "verb"}
  BY DEF Fed, Works, Connections
<1>2. CASE v.k.state = "normal" /\ c = "iac"
  BY <1>2, FedByState DEF NewByte
<1>3. CASE v.k.state = "normal" /\ c # "iac"
  <2>1. NewByte(v, c) = IF v.authenticated # -1 THEN Login(v, c) ELSE Key(v)
    BY <1>3 DEF NewByte
  <2> QED BY <2>1, FedByLogin, FedByKey
<1>4. CASE v.k.state = "iac" /\ c = "verb"
  BY <1>4, FedByState DEF NewByte
<1>5. CASE v.k.state = "iac" /\ c # "verb"
  <2> DEFINE u == IF c = "iac" /\ v.authenticated = -1 THEN Key(v) ELSE v
  <2>1. Fed(w, u)
    BY FedByKey
  <2>2. NewByte(v, c) = [u EXCEPT !.k.state = "normal"]
    BY <1>5 DEF NewByte
  <2> HIDE DEF u
  <2> QED BY <2>1, <2>2, FedByState
<1>6. CASE v.k.state = "verb"
  <2> DEFINE u == sendopt(v)
  <2>1. Text["option"] \in Nat
    BY LoginAssumption
  <2>2. Fed(w, u)
    BY <2>1, FedBySay DEF sendopt
  <2>3. NewByte(v, c) = [u EXCEPT !.k.state = "normal"]
    BY <1>6 DEF NewByte
  <2> HIDE DEF u
  <2> QED BY <2>2, <2>3, FedByState
<1> QED BY <1>1, <1>2, <1>3, <1>4, <1>5, <1>6

LEMMA FedToStart == ASSUME NEW w \in Works PROVE Fed(w, w)
<1>1. w.options \in Nat /\ w.sendfifo \in Ring /\ w.recvfifo \in Ring
  BY DEF Works
<1>2. /\ fifoused(w.sendfifo) \in Nat /\ w.sendfifo.seen \in Nat
      /\ fifoused(w.recvfifo) \in Nat /\ w.recvfifo.seen \in Nat
      /\ fifoused(w.recvfifo) < FIFOSIZE
  BY <1>1, RingFields, RingAssumption DEF Slots
<1>3. Said(w, w)
  BY <1>1, <1>2 DEF Said
<1>4. Filled(w.recvfifo, w.recvfifo)
  BY <1>2 DEF Filled
<1> QED BY <1>3, <1>4 DEF Fed, SameButState

LEMMA NewdataFeeds ==
  ASSUME NEW w \in Works, NEW bytes \in Seq(Char)
  PROVE  Fed(w, newdata(w, bytes))
<1> DEFINE n == Len(bytes)
<1>0. n \in Nat
  OBVIOUS
<1>1. PICK a : /\ a[0] = w
               /\ \A i \in 1 .. n : a[i] = NewByte(a[i - 1], bytes[i])
               /\ newdata(w, bytes) = a[n]
  BY Receiving
<1>2. \A i \in 1 .. n : bytes[i] \in Char
  OBVIOUS
<1> HIDE DEF n
<1> DEFINE T == {i \in 0 .. n : Fed(w, a[i])}
<1>3. 0 \in T
  BY <1>0, <1>1, FedToStart
<1>4. \A i \in 1 .. n : i - 1 \in T => i \in T
  <2> SUFFICES ASSUME NEW i \in 1 .. n, i - 1 \in T PROVE i \in T
    OBVIOUS
  <2>1. Fed(w, a[i - 1]) /\ a[i] = NewByte(a[i - 1], bytes[i]) /\ bytes[i] \in Char
    BY <1>1, <1>2
  <2>2. Fed(w, a[i])
    BY ONLY w \in Works, <2>1, FedByByte
  <2> QED BY <1>0, <2>2
<1> HIDE DEF T
<1>5. \A i \in 0 .. n : i \in T
  BY ONLY <1>0, <1>3, <1>4, Turns
<1>6. n \in T
  BY <1>0, <1>5
<1> QED BY <1>1, <1>6 DEF T
(* An acknowledgement moves the tail over what was under way.              *)
LEMMA AckedTypes ==
  ASSUME NEW w \in Works
  PROVE  LET r == acked(w)
         IN  /\ r \in Works
             /\ r.connected = w.connected /\ r.authenticated = w.authenticated
             /\ r.recvfifo = w.recvfifo /\ r.flags = w.flags /\ r.options = w.options
             /\ r.k = [w.k EXCEPT !.waiting_for = 0]
             /\ r.sendfifo = [w.sendfifo EXCEPT !.fifotail = (@ + w.k.waiting_for) % FIFOSIZE]
             /\ r.sendfifo \in Ring
<1> DEFINE pos == (w.sendfifo.fifotail + w.k.waiting_for) % FIFOSIZE
           g == [w.sendfifo EXCEPT !.fifotail = pos]
           j == [w.k EXCEPT !.waiting_for = 0]
           r == acked(w)
<1>1. w.sendfifo \in Ring /\ w.k \in Connections
  BY DEF Works
<1>2. w.sendfifo.fifotail + w.k.waiting_for \in Int
  BY <1>1, RingFields, StackAssumption DEF Connections, Slots
<1>3. pos \in Slots
  BY <1>2, ModIsSlot
<1>4. r = [w EXCEPT !.sendfifo = g, !.k = j]
  BY DEF acked, Works
<1> HIDE DEF pos
<1>5. g \in Ring
  BY <1>1, <1>3 DEF Ring, Slots
<1>6. j \in Connections
  BY <1>1, StackAssumption DEF Connections
<1> HIDE DEF g, j, r
<1>7. /\ r \in Works /\ r.connected = w.connected /\ r.authenticated = w.authenticated
      /\ r.recvfifo = w.recvfifo /\ r.flags = w.flags /\ r.options = w.options
      /\ r.k = j /\ r.sendfifo = g
  BY <1>4, <1>5, <1>6 DEF Works
<1> QED BY <1>5, <1>7 DEF g, j, r, pos

LEMMA AckedSends ==
  ASSUME NEW w \in Works, Sends(w.sendfifo, w.k.waiting_for)
  PROVE  LET r == acked(w)
         IN  /\ Sends(r.sendfifo, 0)
             /\ fifoused(r.sendfifo) = fifoused(w.sendfifo) - w.k.waiting_for
             /\ r.sendfifo.seen = w.sendfifo.seen
<1> DEFINE f == w.sendfifo
           n == w.k.waiting_for
           g == acked(w).sendfifo
<1> USE RingAssumption
<1>1. /\ f \in Ring /\ g \in Ring
      /\ f.fifohead \in Slots /\ f.fifotail \in Slots /\ f.fifoaheadtail \in Slots
      /\ f.seen \in Nat /\ f.buf \in [Slots -> Nat]
      /\ fifoused(f) \in Slots /\ fifoaheadused(f) \in Slots
  BY AckedTypes, RingFields DEF Works
<1>2. /\ Ordered(f) /\ Holds(f) /\ n = fifoused(f) - fifoaheadused(f)
      /\ fifoaheadused(f) <= fifoused(f) /\ n \in Slots
  <2>1. /\ Ordered(f) /\ Holds(f) /\ n = fifoused(f) - fifoaheadused(f)
        /\ fifoaheadused(f) <= fifoused(f)
    BY DEF Sends, Ordered
  <2>2. /\ fifoused(f) \in Nat /\ fifoused(f) < FIFOSIZE /\ fifoaheadused(f) \in Nat
        /\ FIFOSIZE \in Nat
    BY <1>1, RingNumbers
  <2> HIDE DEF f, n
  <2>3. n \in 0 .. FIFOSIZE - 1
    BY ONLY <2>1, <2>2
  <2> QED BY <2>1, <2>3 DEF Slots
<1>3. g = [f EXCEPT !.fifotail = (@ + n) % FIFOSIZE]
  BY AckedTypes
<1> HIDE DEF f, n, g
<1>4. /\ g.fifotail = (f.fifotail + n) % FIFOSIZE /\ g.fifohead = f.fifohead
      /\ g.fifoaheadtail = f.fifoaheadtail /\ g.buf = f.buf /\ g.seen = f.seen
  BY <1>1, <1>3 DEF Ring
<1>5. /\ g.fifotail \in Slots
      /\ g.fifotail = IF f.fifotail + n < FIFOSIZE THEN f.fifotail + n
                      ELSE f.fifotail + n - FIFOSIZE
  BY <1>1, <1>2, <1>4, RingFields, Onward
<1>6. /\ fifoused(f) = IF f.fifohead >= f.fifotail THEN f.fifohead - f.fifotail
                       ELSE f.fifohead - f.fifotail + FIFOSIZE
      /\ fifoaheadused(f) = IF f.fifohead >= f.fifoaheadtail THEN f.fifohead - f.fifoaheadtail
                            ELSE f.fifohead - f.fifoaheadtail + FIFOSIZE
  BY <1>1, Distance DEF fifoused, fifoaheadused
<1>7. /\ fifoused(g) = IF f.fifohead >= g.fifotail THEN f.fifohead - g.fifotail
                       ELSE f.fifohead - g.fifotail + FIFOSIZE
      /\ fifoaheadused(g) = fifoaheadused(f)
  BY <1>1, <1>4, <1>5, Distance DEF fifoused, fifoaheadused
<1>n. /\ f.fifohead \in Int /\ 0 <= f.fifohead /\ f.fifohead < FIFOSIZE
      /\ f.fifotail \in Int /\ 0 <= f.fifotail /\ f.fifotail < FIFOSIZE
      /\ f.fifoaheadtail \in Int /\ 0 <= f.fifoaheadtail /\ f.fifoaheadtail < FIFOSIZE
      /\ g.fifotail \in Int /\ fifoused(f) \in Int /\ fifoaheadused(f) \in Int
      /\ 0 <= fifoaheadused(f) /\ fifoaheadused(f) <= fifoused(f) /\ fifoused(f) < FIFOSIZE
      /\ n = fifoused(f) - fifoaheadused(f) /\ f.seen \in Int /\ FIFOSIZE \in Int
  <2>1. \A x \in Slots : x \in Int /\ 0 <= x /\ x < FIFOSIZE
    BY DEF Slots
  <2>2. /\ f.fifohead \in Slots /\ f.fifotail \in Slots /\ f.fifoaheadtail \in Slots
        /\ g.fifotail \in Slots /\ fifoused(f) \in Slots /\ fifoaheadused(f) \in Slots
        /\ f.seen \in Nat
    BY <1>1, <1>5
  <2>3. n = fifoused(f) - fifoaheadused(f) /\ fifoaheadused(f) <= fifoused(f)
    BY <1>2
  <2> QED BY ONLY RingAssumption, <2>1, <2>2, <2>3
<1>8. fifoused(g) = fifoused(f) - n
  BY ONLY <1>n, <1>5, <1>6, <1>7
<1>9. ASSUME NEW i \in 0 .. fifoused(g) - 1
      PROVE  g.buf[(g.fifotail + i) % FIFOSIZE] = g.seen - fifoused(g) + 1 + i
  <2>1. i \in Slots /\ i + n \in Slots /\ i + n \in 0 .. fifoused(f) - 1
    BY ONLY <1>n, <1>8, i \in 0 .. fifoused(g) - 1 DEF Slots
  <2>2. (g.fifotail + i) % FIFOSIZE = IF g.fifotail + i < FIFOSIZE THEN g.fifotail + i
                                      ELSE g.fifotail + i - FIFOSIZE
    BY <1>5, <2>1, Onward
  <2>3. (f.fifotail + (i + n)) % FIFOSIZE
          = IF f.fifotail + (i + n) < FIFOSIZE THEN f.fifotail + (i + n)
            ELSE f.fifotail + (i + n) - FIFOSIZE
    BY <1>1, <2>1, Onward
  <2>4. (g.fifotail + i) % FIFOSIZE = (f.fifotail + (i + n)) % FIFOSIZE
    BY ONLY <1>n, <1>5, <2>1, <2>2, <2>3
  <2>5. f.buf[(f.fifotail + (i + n)) % FIFOSIZE] = f.seen - fifoused(f) + 1 + (i + n)
    BY <1>2, <2>1 DEF Holds
  <2>6. f.seen - fifoused(f) + 1 + (i + n) = f.seen - fifoused(g) + 1 + i
    BY ONLY <1>n, <1>8, i \in 0 .. fifoused(g) - 1
  <2> QED BY <1>4, <2>4, <2>5, <2>6
<1>10. Ordered(g) /\ Holds(g) /\ 0 = fifoused(g) - fifoaheadused(g)
  BY <1>1, <1>2, <1>7, <1>8, <1>9 DEF Ordered, Holds, Slots
<1> QED BY <1>4, <1>8, <1>10 DEF Sends, f, n, g

(* A segment is the oldest bytes not acknowledged, once more or for the    *)
(* first time.                                                             *)
LEMMA SenddataTypes ==
  ASSUME NEW w \in Works
  PROVE  LET r == senddata(w)
         IN  /\ r \in Works
             /\ r.connected = w.connected /\ r.authenticated = w.authenticated
             /\ r.recvfifo = w.recvfifo /\ r.flags = w.flags /\ r.options = w.options
             /\ r.k.tcp = w.k.tcp /\ r.k.nrtx = w.k.nrtx /\ r.k.arrived = w.k.arrived
             /\ r.k.didconnect = w.k.didconnect
<1> DEFINE again == w.k.waiting_for # 0
           f == IF again THEN StepBack(w) ELSE w.sendfifo
           used == IF again THEN w.k.waiting_for ELSE fifoaheadused(f)
           n == IF used > MSS THEN MSS ELSE used
           out == IF n > 0 THEN GotAhead(f, n) ELSE w.k.outstanding
           g == AfterAhead(f, n)
           j == [w.k EXCEPT !.waiting_for = n, !.outstanding = out]
           r == senddata(w)
<1>1. w.sendfifo \in Ring /\ w.k \in Connections /\ w.k.waiting_for \in 0 .. MSS
  BY DEF Works, Connections
<1>2. f \in Ring
  <2>1. w.sendfifo.fifoaheadtail - w.k.waiting_for \in Int
    BY <1>1, RingFields, StackAssumption DEF Slots
  <2> DEFINE pos == (w.sendfifo.fifoaheadtail - w.k.waiting_for) % FIFOSIZE
  <2>2. pos \in Slots
    BY <2>1, ModIsSlot
  <2>3. StepBack(w) = [w.sendfifo EXCEPT !.fifoaheadtail = pos]
    BY DEF StepBack
  <2> HIDE DEF pos
  <2>4. StepBack(w) \in Ring
    BY <1>1, <2>2, <2>3 DEF Ring, Slots
  <2> QED BY <1>1, <2>4
<1>3. r = [w EXCEPT !.sendfifo = g, !.k = j]
  BY DEF senddata, Works, Connections
<1> HIDE DEF f
<1>4. n \in 0 .. MSS
  BY <1>1, <1>2, RingFields, StackAssumption DEF Slots
<1> HIDE DEF n
<1>5. g \in Ring
  <2> DEFINE by == IF n < fifoaheadused(f) THEN n ELSE fifoaheadused(f)
             pos == (f.fifoaheadtail + by) % FIFOSIZE
  <2>1. f.fifoaheadtail + by \in Int
    BY <1>2, <1>4, RingFields, StackAssumption DEF Slots
  <2>2. pos \in Slots
    BY <2>1, ModIsSlot
  <2>3. g = [f EXCEPT !.fifoaheadtail = pos]
    BY DEF AfterAhead
  <2> HIDE DEF pos, g
  <2> QED BY <1>2, <2>2, <2>3 DEF Ring, Slots
<1>6. out \in Seq(Int)
  <2>1. \A i \in 1 .. n : (IF i <= fifoaheadused(f)
                           THEN f.buf[(f.fifoaheadtail + i - 1) % FIFOSIZE] ELSE -1) \in Int
    <3> SUFFICES ASSUME NEW i \in 1 .. n
                 PROVE  f.buf[(f.fifoaheadtail + i - 1) % FIFOSIZE] \in Int
      OBVIOUS
    <3>1. f.fifoaheadtail + i - 1 \in Int
      BY <1>2, <1>4, RingFields, StackAssumption DEF Slots
    <3>2. (f.fifoaheadtail + i - 1) % FIFOSIZE \in Slots
      BY <3>1, ModIsSlot
    <3> QED BY <1>2, <3>2, RingFields
  <2>2. GotAhead(f, n) \in Seq(Int)
    BY <1>4, <2>1, StackAssumption DEF GotAhead
  <2> QED BY <1>1, <2>2 DEF Connections
<1> HIDE DEF g, out
<1>7. /\ j \in Connections /\ j.tcp = w.k.tcp /\ j.nrtx = w.k.nrtx
      /\ j.arrived = w.k.arrived /\ j.didconnect = w.k.didconnect
  BY <1>1, <1>4, <1>6 DEF Connections
<1> HIDE DEF j, r
<1>8. /\ r \in Works /\ r.connected = w.connected /\ r.authenticated = w.authenticated
      /\ r.recvfifo = w.recvfifo /\ r.flags = w.flags /\ r.options = w.options
      /\ r.k = j
  BY <1>3, <1>5, <1>7 DEF Works
<1> QED BY <1>7, <1>8 DEF r

LEMMA SenddataSends ==
  ASSUME NEW w \in Works, Sends(w.sendfifo, w.k.waiting_for)
  PROVE  LET r == senddata(w)
             n == r.k.waiting_for
         IN  /\ Sends(r.sendfifo, n)
             /\ fifoused(r.sendfifo) = fifoused(w.sendfifo)
             /\ r.sendfifo.seen = w.sendfifo.seen
             /\ w.k.waiting_for # 0 => n = w.k.waiting_for
             /\ IF n = 0 THEN r.k.outstanding = w.k.outstanding
                ELSE r.k.outstanding
                       = [i \in 1 .. n |-> r.sendfifo.seen - fifoused(r.sendfifo) + i]
<1> DEFINE m == w.k.waiting_for
           again == m # 0
           f == IF again THEN StepBack(w) ELSE w.sendfifo
           used == IF again THEN m ELSE fifoaheadused(f)
           n == IF used > MSS THEN MSS ELSE used
           g == AfterAhead(f, n)
           r == senddata(w)
           e == w.sendfifo
<1> USE RingAssumption, StackAssumption
<1>1. /\ e \in Ring /\ w.k \in Connections /\ m \in 0 .. MSS
      /\ e.fifohead \in Slots /\ e.fifotail \in Slots /\ e.fifoaheadtail \in Slots
      /\ e.seen \in Nat /\ e.buf \in [Slots -> Nat]
      /\ fifoused(e) \in Slots /\ fifoaheadused(e) \in Slots
  BY RingFields DEF Works, Connections
<1>2. /\ Holds(e) /\ m = fifoused(e) - fifoaheadused(e)
      /\ fifoaheadused(e) <= fifoused(e) /\ m \in Slots
  BY <1>1 DEF Sends, Ordered, Slots
<1>3. /\ r.sendfifo = g /\ r.k.waiting_for = n
      /\ r.k.outstanding = IF n > 0 THEN GotAhead(f, n) ELSE w.k.outstanding
  BY DEF senddata, Works, Connections
<1>e. /\ fifoused(e) = IF e.fifohead >= e.fifotail THEN e.fifohead - e.fifotail
                       ELSE e.fifohead - e.fifotail + FIFOSIZE
      /\ fifoaheadused(e) = IF e.fifohead >= e.fifoaheadtail THEN e.fifohead - e.fifoaheadtail
                            ELSE e.fifohead - e.fifoaheadtail + FIFOSIZE
  BY <1>1, Distance DEF fifoused, fifoaheadused
<1>n. /\ e.fifohead \in Int /\ 0 <= e.fifohead /\ e.fifohead < FIFOSIZE
      /\ e.fifotail \in Int /\ 0 <= e.fifotail /\ e.fifotail < FIFOSIZE
      /\ e.fifoaheadtail \in Int /\ 0 <= e.fifoaheadtail /\ e.fifoaheadtail < FIFOSIZE
      /\ fifoused(e) \in Int /\ fifoaheadused(e) \in Int
      /\ 0 <= fifoaheadused(e) /\ fifoaheadused(e) <= fifoused(e) /\ fifoused(e) < FIFOSIZE
      /\ m = fifoused(e) - fifoaheadused(e) /\ FIFOSIZE \in Int
  <2>1. \A x \in Slots : x \in Int /\ 0 <= x /\ x < FIFOSIZE
    BY DEF Slots
  <2> QED BY <1>1, <1>2, <2>1
<1>4. f = [e EXCEPT !.fifoaheadtail = e.fifotail]
  <2>1. CASE again
    <3>1. (e.fifoaheadtail - m) % FIFOSIZE
            = IF e.fifoaheadtail >= m THEN e.fifoaheadtail - m
              ELSE e.fifoaheadtail - m + FIFOSIZE
      BY <1>1, <1>2, Backward
    <3>2. (e.fifoaheadtail - m) % FIFOSIZE = e.fifotail
      BY ONLY <1>n, <1>e, <3>1
    <3> QED BY <2>1, <3>2 DEF StepBack
  <2>2. CASE ~again
    <3>1. e.fifoaheadtail = e.fifotail
      BY ONLY <1>n, <1>e, <2>2
    <3> QED BY <1>1, <2>2, <3>1 DEF Ring
  <2> QED BY <2>1, <2>2
<1> HIDE DEF f, e, m
<1>5. /\ f \in Ring /\ f.fifohead = e.fifohead /\ f.fifotail = e.fifotail
      /\ f.fifoaheadtail = e.fifotail /\ f.buf = e.buf /\ f.seen = e.seen
  BY <1>1, <1>4 DEF Ring, Slots
<1>6. fifoaheadused(f) = fifoused(e)
  BY <1>5 DEF fifoused, fifoaheadused
<1>7. /\ n \in 0 .. fifoused(e) /\ n \in Slots /\ n \in Nat
      /\ again => n = m
      /\ n = 0 => m = 0
  <2>1. /\ fifoused(e) \in Nat /\ fifoused(e) < FIFOSIZE /\ fifoaheadused(e) \in Nat
        /\ FIFOSIZE \in Nat /\ MSS \in Nat \ {0}
    BY <1>1, RingNumbers
  <2>2. /\ m = fifoused(e) - fifoaheadused(e) /\ fifoaheadused(e) <= fifoused(e)
        /\ m \in 0 .. MSS
    BY <1>1, <1>2
  <2>3. used = IF m # 0 THEN m ELSE fifoused(e)
    BY <1>6
  <2> HIDE DEF used
  <2>4. /\ n \in 0 .. fifoused(e) /\ n \in Nat
        /\ m # 0 => n = m
        /\ n = 0 => m = 0
    BY ONLY <2>1, <2>2, <2>3 DEF n
  <2> HIDE DEF n
  <2>5. n \in 0 .. FIFOSIZE - 1
    BY ONLY <2>1, <2>4
  <2> QED BY <2>4, <2>5 DEF Slots
<1> HIDE DEF n
<1>8. g = [f EXCEPT !.fifoaheadtail = (e.fifotail + n) % FIFOSIZE]
  <2>1. (IF n < fifoaheadused(f) THEN n ELSE fifoaheadused(f)) = n
    BY <1>1, <1>6, <1>7 DEF Slots
  <2> QED BY <1>5, <2>1 DEF AfterAhead
<1> HIDE DEF g
<1>9. /\ (e.fifotail + n) % FIFOSIZE \in Slots
      /\ (e.fifotail + n) % FIFOSIZE = IF e.fifotail + n < FIFOSIZE THEN e.fifotail + n
                                       ELSE e.fifotail + n - FIFOSIZE
  <2>1. e.fifotail + n \in Int
    BY <1>1, <1>7 DEF Slots
  <2> QED BY <1>1, <1>7, <2>1, ModIsSlot, Onward
<1>10. /\ g \in Ring /\ g.fifohead = e.fifohead /\ g.fifotail = e.fifotail
       /\ g.fifoaheadtail = (e.fifotail + n) % FIFOSIZE /\ g.buf = e.buf /\ g.seen = e.seen
  BY <1>5, <1>8, <1>9 DEF Ring, Slots
<1>11. fifoused(g) = fifoused(e)
  BY <1>10 DEF fifoused
<1>12. fifoaheadused(g) = fifoused(e) - n
  <2>1. fifoaheadused(g) = IF e.fifohead >= g.fifoaheadtail THEN e.fifohead - g.fifoaheadtail
                           ELSE e.fifohead - g.fifoaheadtail + FIFOSIZE
    BY <1>1, <1>9, <1>10, Distance DEF fifoaheadused
  <2>2. n \in Int /\ 0 <= n /\ n <= fifoused(e)
    BY <1>1, <1>7 DEF Slots
  <2>3. g.fifoaheadtail = IF e.fifotail + n < FIFOSIZE THEN e.fifotail + n
                          ELSE e.fifotail + n - FIFOSIZE
    BY <1>9, <1>10
  <2> QED BY ONLY <1>n, <1>e, <2>1, <2>2, <2>3
<1>13. Sends(g, n)
  <2>1. Ordered(g) /\ n = fifoused(g) - fifoaheadused(g)
    BY <1>1, <1>7, <1>10, <1>11, <1>12 DEF Ordered, Slots
  <2>2. Holds(g)
    BY <1>2, <1>10, <1>11 DEF Holds
  <2> QED BY <2>1, <2>2 DEF Sends
<1>14. n > 0 => GotAhead(f, n) = [i \in 1 .. n |-> e.seen - fifoused(e) + i]
  <2> SUFFICES ASSUME NEW i \in 1 .. n
               PROVE  (IF i <= fifoaheadused(f)
                       THEN f.buf[(f.fifoaheadtail + i - 1) % FIFOSIZE] ELSE -1)
                        = e.seen - fifoused(e) + i
    BY DEF GotAhead
  <2>1. i <= fifoaheadused(f) /\ i - 1 \in 0 .. fifoused(e) - 1
    BY <1>1, <1>6, <1>7 DEF Slots
  <2>2. e.buf[(e.fifotail + (i - 1)) % FIFOSIZE] = e.seen - fifoused(e) + 1 + (i - 1)
    BY <1>2, <2>1 DEF Holds
  <2>3. e.fifotail + (i - 1) = f.fifoaheadtail + i - 1
    BY <1>1, <1>5 DEF Slots
  <2>4. e.seen - fifoused(e) + 1 + (i - 1) = e.seen - fifoused(e) + i
    BY <1>1 DEF Slots
  <2> QED BY <1>5, <2>1, <2>2, <2>3, <2>4
<1>15. IF n = 0 THEN r.k.outstanding = w.k.outstanding
       ELSE r.k.outstanding = [i \in 1 .. n |-> g.seen - fifoused(g) + i]
  BY <1>3, <1>7, <1>10, <1>11, <1>14
<1> QED BY <1>3, <1>7, <1>10, <1>11, <1>13, <1>15 DEF e, m, r
-------------------------------------------------------------------------------
(* A connection opens.                                                     *)
LEMMA OpenedIs ==
  ASSUME NEW w \in Works
  PROVE  LET r == Opened(w)
         IN  /\ r \in Works /\ r.connected = TRUE
             /\ r.flags = IF w.connected THEN {"abort"} ELSE w.flags
             /\ r.k.didconnect = ~w.connected /\ r.k.waiting_for = 0
             /\ r.k.tcp = w.k.tcp /\ r.k.nrtx = w.k.nrtx
             /\ r.k.outstanding = w.k.outstanding /\ r.k.arrived = w.k.arrived
             /\ Ordered(r.recvfifo)
             /\ w.options = 0 /\ r.options <= FIFOSIZE - 1 =>
                  /\ Sends(r.sendfifo, 0)
                  /\ fifoused(r.sendfifo) = r.options
                  /\ r.sendfifo.seen = w.sendfifo.seen + r.options
<1> DEFINE f == inittelnetfifo(w.recvfifo)
           g == inittelnetfifo(w.sendfifo)
           j == [w.k EXCEPT !.waiting_for = 0, !.didconnect = ~w.connected, !.state = "normal"]
           m == IF PasswordLength > 0 THEN 0 ELSE -1
           fl == IF w.connected THEN {"abort"} ELSE w.flags
           t == [w EXCEPT !.flags = fl, !.authenticated = m, !.recvfifo = f,
                          !.sendfifo = g, !.k = j, !.connected = TRUE]
           r == Opened(w)
<1>1. /\ w.recvfifo \in Ring /\ w.sendfifo \in Ring /\ w.k \in Connections
      /\ w.connected \in BOOLEAN /\ w.flags \in SUBSET Flags /\ w.options \in Nat
  BY DEF Works
<1>2. /\ f \in Ring /\ fifoused(f) = 0 /\ fifoaheadused(f) = 0
      /\ g \in Ring /\ g.seen = w.sendfifo.seen /\ fifoused(g) = 0 /\ fifoaheadused(g) = 0
  BY <1>1, EmptyRing
<1>3. /\ j \in Connections /\ j.tcp = w.k.tcp /\ j.nrtx = w.k.nrtx
      /\ j.outstanding = w.k.outstanding /\ j.arrived = w.k.arrived
      /\ j.didconnect = ~w.connected /\ j.waiting_for = 0
  <2> DEFINE b == ~w.connected
             i == [w.k EXCEPT !.waiting_for = 0, !.didconnect = b, !.state = "normal"]
  <2>1. b \in BOOLEAN /\ i = j
    BY <1>1
  <2> HIDE DEF b, j
  <2>2. i \in Connections
    <3> DEFINE e == [w.k EXCEPT !.waiting_for = 0, !.state = "normal"]
    <3>0. w.k \in Connections
      BY <1>1
    <3>1. e \in Connections
      <4>1. \A m1 \in 0 .. MSS, s1 \in {"normal", "iac", "verb"} :
              [w.k EXCEPT !.waiting_for = m1, !.state = s1] \in Connections
        BY ONLY <3>0 DEF Connections
      <4>2. 0 \in 0 .. MSS /\ "normal" \in {"normal", "iac", "verb"}
        BY ONLY StackAssumption
      <4> QED BY ONLY <4>1, <4>2
    <3>2. i = [e EXCEPT !.didconnect = b]
      BY <1>1 DEF Connections
    <3> HIDE DEF e, i
    <3> QED BY <2>1, <3>1, <3>2 DEF Connections
  <2>3. /\ i.tcp = w.k.tcp /\ i.nrtx = w.k.nrtx
        /\ i.outstanding = w.k.outstanding /\ i.arrived = w.k.arrived
        /\ i.waiting_for = 0
    BY <1>1 DEF Connections
  <2>4. i.didconnect = b
    BY <1>1, <2>1 DEF Connections
  <2> HIDE DEF i
  <2> QED BY <2>1, <2>2, <2>3, <2>4 DEF b
<1>4. m \in -2 .. PasswordLength /\ fl \in SUBSET Flags
  BY <1>1, LoginAssumption DEF Flags
<1>5. /\ Text["option"] \in Nat /\ Text["prompt"] \in Nat
  BY LoginAssumption
<1>6. r = IF PasswordLength > 0 THEN Say(sendopt(sendopt(t)), Text["prompt"])
          ELSE sendopt(sendopt(t))
  BY DEF Opened, Works, Connections
<1> HIDE DEF f, g, j, m, fl
<1>7. /\ t \in Works /\ t.connected = TRUE /\ t.flags = fl /\ t.k = j
      /\ t.recvfifo = f /\ t.sendfifo = g /\ t.options = w.options
  BY <1>1, <1>2, <1>3, <1>4 DEF Works
<1> HIDE DEF t, r
<1>8. Fed(t, r) /\ r.recvfifo = f /\ r.flags = fl /\ r.k = j
  <2> DEFINE u == sendopt(t)
             v == sendopt(u)
             x == Say(v, Text["prompt"])
  <2>1. u \in Works /\ u.recvfifo = f /\ u.flags = fl /\ u.k = j
    BY <1>5, <1>7, SayTypes DEF sendopt
  <2>2. Fed(t, u)
    BY <1>5, <1>7, FedToStart, FedBySay DEF sendopt
  <2> HIDE DEF u
  <2>3. v \in Works /\ v.recvfifo = f /\ v.flags = fl /\ v.k = j
    BY <1>5, <2>1, SayTypes DEF sendopt
  <2>4. Fed(t, v)
    BY <1>5, <1>7, <2>2, FedBySay DEF sendopt
  <2>5. r = x \/ r = v
    BY <1>6 DEF u
  <2> HIDE DEF v
  <2>6. x \in Works /\ x.recvfifo = f /\ x.flags = fl /\ x.k = j
    BY <1>5, <2>3, SayTypes
  <2>7. Fed(t, x)
    BY <1>5, <1>7, <2>4, FedBySay
  <2> QED BY <2>3, <2>4, <2>5, <2>6, <2>7
<1>9. Ordered(f)
  BY <1>2 DEF Ordered
<1>10. ASSUME w.options = 0, r.options <= FIFOSIZE - 1
       PROVE  /\ Sends(r.sendfifo, 0)
              /\ fifoused(r.sendfifo) = r.options
              /\ r.sendfifo.seen = w.sendfifo.seen + r.options
  <2>1. Sends(t.sendfifo, 0)
    BY <1>2, <1>7 DEF Sends, Ordered, Holds
  <2>2. r.options \in Nat /\ t.options = 0 /\ fifoused(t.sendfifo) = 0
    BY <1>2, <1>7, <1>8, <1>10 DEF Fed, Works
  <2>3. LET n == r.options - t.options
        IN  /\ Sends(r.sendfifo, 0)
            /\ fifoused(r.sendfifo) = fifoused(t.sendfifo) + n
            /\ r.sendfifo.seen = t.sendfifo.seen + n
    BY <1>8, <1>10, <2>1, <2>2 DEF Fed, Said
  <2> QED BY <1>2, <1>7, <2>2, <2>3
<1>11. r \in Works /\ r.connected = TRUE
  BY <1>7, <1>8 DEF Fed
<1> QED BY <1>3, <1>8, <1>9, <1>10, <1>11 DEF fl, r

(* What is under way to the peer: the oldest bytes of the ring.            *)
Base(f) == f.seen - fifoused(f)
Under(f, k) ==
  /\ Sends(f, k.waiting_for)
  /\ k.outstanding = IF k.waiting_for = 0 THEN <<>>
                     ELSE [i \in 1 .. k.waiting_for |-> Base(f) + i]

(* The end of telnetd_appcall: newdata, then senddata.                     *)
Fin(w, bytes) ==
  LET v == IF "newdata" \in w.flags THEN newdata(w, bytes) ELSE w
  IN  IF v.flags \cap {"rexmit", "newdata", "acked", "connected", "poll"} # {}
        THEN senddata(v) ELSE v

LEMMA FinKeeps ==
  ASSUME NEW w \in Works, NEW bytes \in Seq(Char)
  PROVE  LET r == Fin(w, bytes)
             n == r.options - w.options
         IN  /\ r \in Works /\ r.connected = w.connected
             /\ r.flags = w.flags \/ r.flags = {"close"}
             /\ r.k.tcp = w.k.tcp /\ r.k.nrtx = w.k.nrtx /\ r.k.arrived = w.k.arrived
             /\ r.k.didconnect = w.k.didconnect
             /\ Ordered(w.recvfifo) => Ordered(r.recvfifo) /\ Filled(w.recvfifo, r.recvfifo)
             /\ n \in Nat
             /\ Under(w.sendfifo, w.k) /\ fifoused(w.sendfifo) + n <= FIFOSIZE - 1 =>
                  /\ Under(r.sendfifo, r.k)
                  /\ Base(r.sendfifo) = Base(w.sendfifo)
                  /\ fifoused(r.sendfifo) = fifoused(w.sendfifo) + n
                  /\ w.k.waiting_for # 0 => r.k.waiting_for = w.k.waiting_for
<1> DEFINE v == IF "newdata" \in w.flags THEN newdata(w, bytes) ELSE w
           r == Fin(w, bytes)
           n == v.options - w.options
<1>1. Fed(w, v)
  BY NewdataFeeds, FedToStart
<1> HIDE DEF v
<1>2. v \in Works /\ n \in Nat
  BY <1>1 DEF Fed, Said
<1>3. r = senddata(v) \/ r = v
  BY DEF Fin, v
<1>4. /\ r \in Works /\ r.connected = v.connected /\ r.flags = v.flags
      /\ r.options = v.options /\ r.recvfifo = v.recvfifo
      /\ r.k.tcp = v.k.tcp /\ r.k.nrtx = v.k.nrtx /\ r.k.arrived = v.k.arrived
      /\ r.k.didconnect = v.k.didconnect
  BY <1>2, <1>3, SenddataTypes
<1>5. ASSUME Under(w.sendfifo, w.k), fifoused(w.sendfifo) + n <= FIFOSIZE - 1
      PROVE  /\ Under(r.sendfifo, r.k)
             /\ Base(r.sendfifo) = Base(w.sendfifo)
             /\ fifoused(r.sendfifo) = fifoused(w.sendfifo) + n
             /\ w.k.waiting_for # 0 => r.k.waiting_for = w.k.waiting_for
  <2>1. /\ Sends(v.sendfifo, w.k.waiting_for)
        /\ fifoused(v.sendfifo) = fifoused(w.sendfifo) + n
        /\ v.sendfifo.seen = w.sendfifo.seen + n
    BY <1>1, <1>5 DEF Fed, Said, Under
  <2>2. v.k.waiting_for = w.k.waiting_for /\ v.k.outstanding = w.k.outstanding
    BY <1>1 DEF Fed, SameButState
  <2>3. /\ fifoused(w.sendfifo) \in Int /\ w.sendfifo.seen \in Int
    <3>1. w.sendfifo \in Ring
      BY DEF Works
    <3> QED BY <3>1, RingFields DEF Slots
  <2>4. Base(v.sendfifo) = Base(w.sendfifo)
    BY <1>2, <2>1, <2>3 DEF Base
  <2>5. Under(v.sendfifo, v.k)
    BY <1>5, <2>1, <2>2, <2>4 DEF Under
  <2>6. CASE r = v
    BY <2>1, <2>2, <2>4, <2>5, <2>6
  <2>7. CASE r = senddata(v)
    <3> DEFINE i == r.k.waiting_for
    <3>1. /\ Sends(r.sendfifo, i)
          /\ fifoused(r.sendfifo) = fifoused(v.sendfifo)
          /\ r.sendfifo.seen = v.sendfifo.seen
          /\ v.k.waiting_for # 0 => i = v.k.waiting_for
          /\ IF i = 0 THEN r.k.outstanding = v.k.outstanding
             ELSE r.k.outstanding
                    = [l \in 1 .. i |-> r.sendfifo.seen - fifoused(r.sendfifo) + l]
      BY <1>2, <2>1, <2>2, <2>7, SenddataSends
    <3>2. Base(r.sendfifo) = Base(v.sendfifo)
      BY <3>1 DEF Base
    <3>3. i = 0 => v.k.waiting_for = 0 /\ v.k.outstanding = <<>>
      BY <2>5, <3>1 DEF Under
    <3>4. Under(r.sendfifo, r.k)
      BY <3>1, <3>3 DEF Under, Base
    <3> QED BY <2>1, <2>2, <2>4, <3>1, <3>2, <3>4
  <2> QED BY <1>3, <2>6, <2>7
<1>6. SameButState(w.k, v.k) /\ v.connected = w.connected
  BY <1>1 DEF Fed
<1>7. /\ v.flags = w.flags \/ v.flags = {"close"}
      /\ Ordered(w.recvfifo) => Ordered(v.recvfifo) /\ Filled(w.recvfifo, v.recvfifo)
  BY <1>1 DEF Fed
<1> HIDE DEF r
<1> QED BY <1>2, <1>4, <1>5, <1>6, <1>7 DEF SameButState, r

(* The call as a whole.                                                    *)
LEMMA CallTypes ==
  ASSUME NEW w \in Works, NEW bytes \in Seq(Char)
  PROVE  LET r == telnetd_appcall(w, bytes)
         IN  /\ r \in Works
             /\ r.k.tcp = w.k.tcp /\ r.k.nrtx = w.k.nrtx /\ r.k.arrived = w.k.arrived
             /\ r.k.didconnect = IF "connected" \in w.flags THEN ~w.connected
                                 ELSE w.k.didconnect
             /\ Ordered(w.recvfifo) => Ordered(r.recvfifo)
             /\ "connected" \notin w.flags /\ Ordered(w.recvfifo) =>
                  Filled(w.recvfifo, r.recvfifo)
             /\ "connected" \notin w.flags => r.options >= w.options
<1> DEFINE w1 == IF "connected" \in w.flags THEN Opened(w) ELSE w
           w2 == IF w1.flags \cap {"close", "abort", "timedout"} # {} /\ w1.k.didconnect
                   THEN [w1 EXCEPT !.connected = FALSE] ELSE w1
           w3 == IF "acked" \in w2.flags THEN acked(w2) ELSE w2
           r == telnetd_appcall(w, bytes)
<1>1. r = Fin(w3, bytes)
  BY DEF telnetd_appcall, Fin
<1> HIDE DEF r
<1>2. /\ w1 \in Works /\ w1.k.tcp = w.k.tcp /\ w1.k.nrtx = w.k.nrtx
      /\ w1.k.arrived = w.k.arrived
      /\ w1.k.didconnect = IF "connected" \in w.flags THEN ~w.connected ELSE w.k.didconnect
      /\ Ordered(w.recvfifo) => Ordered(w1.recvfifo)
      /\ "connected" \notin w.flags =>
           w1.recvfifo = w.recvfifo /\ w1.options = w.options
  BY OpenedIs
<1> HIDE DEF w1
<1>3. /\ w2 \in Works /\ w2.k = w1.k /\ w2.recvfifo = w1.recvfifo
      /\ w2.options = w1.options
  BY <1>2 DEF Works
<1> HIDE DEF w2
<1>4. /\ w3 \in Works /\ w3.recvfifo = w2.recvfifo /\ w3.options = w2.options
      /\ w3.k.tcp = w2.k.tcp /\ w3.k.nrtx = w2.k.nrtx
      /\ w3.k.arrived = w2.k.arrived /\ w3.k.didconnect = w2.k.didconnect
  <2>1. CASE "acked" \in w2.flags
    <3>1. w2.k \in Connections
      BY <1>3 DEF Works
    <3>2. w3 = acked(w2)
      BY <2>1
    <3>3. /\ w3 \in Works /\ w3.recvfifo = w2.recvfifo /\ w3.options = w2.options
          /\ w3.k = [w2.k EXCEPT !.waiting_for = 0]
      BY <1>3, <3>2, AckedTypes
    <3> HIDE DEF w3
    <3> QED BY <3>1, <3>3 DEF Connections
  <2>2. CASE "acked" \notin w2.flags
    BY <1>3, <2>2
  <2> QED BY <2>1, <2>2
<1> HIDE DEF w3
<1>5. /\ r \in Works
      /\ r.k.tcp = w3.k.tcp /\ r.k.nrtx = w3.k.nrtx /\ r.k.arrived = w3.k.arrived
      /\ r.k.didconnect = w3.k.didconnect
      /\ Ordered(w3.recvfifo) => Ordered(r.recvfifo) /\ Filled(w3.recvfifo, r.recvfifo)
      /\ r.options - w3.options \in Nat
  BY <1>1, <1>4, FinKeeps
<1>6. r.options >= w3.options
  BY <1>4, <1>5 DEF Works
<1> QED BY <1>2, <1>3, <1>4, <1>5, <1>6 DEF r
LEMMA CallRefuses ==
  ASSUME NEW w \in Works, NEW bytes \in Seq(Char), "connected" \in w.flags, w.connected
  PROVE  telnetd_appcall(w, bytes).flags \in {{"abort"}, {"close"}}
<1> DEFINE w1 == Opened(w)
           w2 == IF w1.flags \cap {"close", "abort", "timedout"} # {} /\ w1.k.didconnect
                   THEN [w1 EXCEPT !.connected = FALSE] ELSE w1
           w3 == IF "acked" \in w2.flags THEN acked(w2) ELSE w2
           r == telnetd_appcall(w, bytes)
<1>1. r = Fin(w3, bytes)
  BY DEF telnetd_appcall, Fin
<1> HIDE DEF r
<1>2. w1 \in Works /\ w1.flags = {"abort"}
  BY OpenedIs
<1> HIDE DEF w1
<1>3. w2 \in Works /\ w2.flags = {"abort"}
  BY <1>2 DEF Works
<1> HIDE DEF w2
<1>4. w3 \in Works /\ w3.flags = {"abort"}
  BY <1>3
<1> HIDE DEF w3
<1>5. r.flags = w3.flags \/ r.flags = {"close"}
  BY <1>1, <1>4, FinKeeps
<1> QED BY <1>4, <1>5 DEF r

LEMMA CallOpens ==
  ASSUME NEW w \in Works, NEW bytes \in Seq(Char),
         "connected" \in w.flags, w.flags \subseteq {"connected", "newdata"}, ~w.connected,
         w.options = 0, w.k.outstanding = <<>>
  PROVE  LET r == telnetd_appcall(w, bytes)
         IN  /\ r.connected = TRUE
             /\ r.options <= FIFOSIZE - 1 =>
                  /\ Under(r.sendfifo, r.k)
                  /\ Base(r.sendfifo) = w.sendfifo.seen
                  /\ fifoused(r.sendfifo) = r.options
<1> DEFINE w1 == Opened(w)
           w2 == IF w1.flags \cap {"close", "abort", "timedout"} # {} /\ w1.k.didconnect
                   THEN [w1 EXCEPT !.connected = FALSE] ELSE w1
           w3 == IF "acked" \in w2.flags THEN acked(w2) ELSE w2
           r == telnetd_appcall(w, bytes)
<1>1. r = Fin(w3, bytes)
  BY DEF telnetd_appcall, Fin
<1> HIDE DEF r
<1>2. /\ w1 \in Works /\ w1.flags = w.flags /\ w1.connected = TRUE
      /\ w1.k.waiting_for = 0 /\ w1.k.outstanding = <<>>
      /\ w1.options <= FIFOSIZE - 1 =>
           /\ Sends(w1.sendfifo, 0)
           /\ fifoused(w1.sendfifo) = w1.options
           /\ w1.sendfifo.seen = w.sendfifo.seen + w1.options
  BY OpenedIs
<1> HIDE DEF w1
<1>3. w2 = w1
  BY <1>2
<1>4. w3 = w1
  BY <1>2, <1>3
<1>5. LET n == r.options - w1.options
      IN  /\ r \in Works /\ r.connected = w1.connected
          /\ n \in Nat
          /\ Under(w1.sendfifo, w1.k) /\ fifoused(w1.sendfifo) + n <= FIFOSIZE - 1 =>
               /\ Under(r.sendfifo, r.k)
               /\ Base(r.sendfifo) = Base(w1.sendfifo)
               /\ fifoused(r.sendfifo) = fifoused(w1.sendfifo) + n
  BY <1>1, <1>2, <1>4, FinKeeps
<1>6. ASSUME r.options <= FIFOSIZE - 1
      PROVE  /\ Under(r.sendfifo, r.k)
             /\ Base(r.sendfifo) = w.sendfifo.seen
             /\ fifoused(r.sendfifo) = r.options
  <2>1. /\ w1.options \in Nat /\ r.options \in Nat /\ r.options - w1.options \in Nat
        /\ FIFOSIZE \in Nat
    BY <1>2, <1>5, RingAssumption DEF Works
  <2>2. w1.options <= FIFOSIZE - 1
    BY <1>6, <2>1
  <2>3. w.sendfifo.seen \in Nat
    <3>1. w.sendfifo \in Ring
      BY DEF Works
    <3> QED BY <3>1, RingFields
  <2>4. Under(w1.sendfifo, w1.k) /\ Base(w1.sendfifo) = w.sendfifo.seen
    BY <1>2, <2>1, <2>2, <2>3 DEF Under, Base
  <2>5. fifoused(w1.sendfifo) + (r.options - w1.options) = r.options
    BY <1>2, <2>1, <2>2
  <2> QED BY <1>5, <1>6, <2>4, <2>5
<1> QED BY <1>2, <1>5, <1>6 DEF r

LEMMA CallContinues ==
  ASSUME NEW w \in Works, NEW bytes \in Seq(Char),
         w.flags \subseteq {"acked", "newdata", "rexmit", "poll"},
         Sends(w.sendfifo, w.k.waiting_for),
         IF "acked" \in w.flags THEN w.k.outstanding = <<>> ELSE Under(w.sendfifo, w.k)
  PROVE  LET r == telnetd_appcall(w, bytes)
             n == r.options - w.options
         IN  /\ r.connected = w.connected
             /\ n \in Nat
             /\ fifoused(w.sendfifo) + n <= FIFOSIZE - 1 =>
                  /\ Under(r.sendfifo, r.k)
                  /\ Base(r.sendfifo) = Base(w.sendfifo)
                       + IF "acked" \in w.flags THEN w.k.waiting_for ELSE 0
                  /\ fifoused(r.sendfifo) <= fifoused(w.sendfifo) + n
                  /\ "acked" \notin w.flags /\ w.k.waiting_for # 0 =>
                       r.k.waiting_for = w.k.waiting_for
<1> DEFINE w3 == IF "acked" \in w.flags THEN acked(w) ELSE w
           r == telnetd_appcall(w, bytes)
           n == r.options - w.options
<1>1. r = Fin(w3, bytes)
  BY DEF telnetd_appcall, Fin
<1> HIDE DEF r
<1>2. /\ w.sendfifo \in Ring /\ w.k \in Connections /\ w.k.waiting_for \in Nat
      /\ fifoused(w.sendfifo) \in Int /\ w.sendfifo.seen \in Int
  <2>1. w.sendfifo \in Ring /\ w.k \in Connections
    BY DEF Works
  <2>2. w.k.waiting_for \in 0 .. MSS
    BY <2>1 DEF Connections
  <2>3. fifoused(w.sendfifo) \in Slots /\ w.sendfifo.seen \in Nat
    BY <2>1, RingFields
  <2> QED BY <2>1, <2>2, <2>3, StackAssumption DEF Slots
<1>3. /\ w3 \in Works /\ w3.connected = w.connected /\ w3.options = w.options
      /\ Under(w3.sendfifo, w3.k)
      /\ Base(w3.sendfifo) = Base(w.sendfifo)
           + IF "acked" \in w.flags THEN w.k.waiting_for ELSE 0
      /\ fifoused(w3.sendfifo) <= fifoused(w.sendfifo)
      /\ "acked" \notin w.flags => w3.k.waiting_for = w.k.waiting_for
      /\ fifoused(w3.sendfifo) \in Int
  <2>1. CASE "acked" \in w.flags
    <3>1. w3 = acked(w)
      BY <2>1
    <3>2. /\ w3 \in Works /\ w3.connected = w.connected /\ w3.options = w.options
          /\ w3.k = [w.k EXCEPT !.waiting_for = 0]
          /\ Sends(w3.sendfifo, 0)
          /\ fifoused(w3.sendfifo) = fifoused(w.sendfifo) - w.k.waiting_for
          /\ w3.sendfifo.seen = w.sendfifo.seen
      BY <3>1, AckedTypes, AckedSends
    <3> HIDE DEF w3
    <3>3. w3.k.waiting_for = 0 /\ w3.k.outstanding = <<>>
      BY <1>2, <2>1, <3>2 DEF Connections
    <3>4. Under(w3.sendfifo, w3.k)
      BY <3>2, <3>3 DEF Under
    <3>5. Base(w3.sendfifo) = Base(w.sendfifo) + w.k.waiting_for
      BY <1>2, <3>2 DEF Base
    <3> QED BY <1>2, <2>1, <3>2, <3>4, <3>5
  <2>2. CASE "acked" \notin w.flags
    BY <1>2, <2>2 DEF Base
  <2> QED BY <2>1, <2>2
<1> HIDE DEF w3
<1>4. LET m == r.options - w3.options
      IN  /\ r \in Works /\ r.connected = w3.connected
          /\ m \in Nat
          /\ Under(w3.sendfifo, w3.k) /\ fifoused(w3.sendfifo) + m <= FIFOSIZE - 1 =>
               /\ Under(r.sendfifo, r.k)
               /\ Base(r.sendfifo) = Base(w3.sendfifo)
               /\ fifoused(r.sendfifo) = fifoused(w3.sendfifo) + m
               /\ w3.k.waiting_for # 0 => r.k.waiting_for = w3.k.waiting_for
  BY <1>1, <1>3, FinKeeps
<1>5. n \in Nat /\ r.connected = w.connected
  BY <1>3, <1>4
<1>6. ASSUME fifoused(w.sendfifo) + n <= FIFOSIZE - 1
      PROVE  /\ Under(r.sendfifo, r.k)
             /\ Base(r.sendfifo) = Base(w.sendfifo)
                  + IF "acked" \in w.flags THEN w.k.waiting_for ELSE 0
             /\ fifoused(r.sendfifo) <= fifoused(w.sendfifo) + n
             /\ "acked" \notin w.flags /\ w.k.waiting_for # 0 =>
                  r.k.waiting_for = w.k.waiting_for
  <2>1. fifoused(w3.sendfifo) + n <= FIFOSIZE - 1
    BY <1>2, <1>3, <1>5, <1>6, RingAssumption
  <2>2. /\ Under(r.sendfifo, r.k)
        /\ Base(r.sendfifo) = Base(w3.sendfifo)
        /\ fifoused(r.sendfifo) = fifoused(w3.sendfifo) + n
        /\ w3.k.waiting_for # 0 => r.k.waiting_for = w3.k.waiting_for
    BY <1>3, <1>4, <2>1
  <2>3. fifoused(r.sendfifo) <= fifoused(w.sendfifo) + n
    BY <1>2, <1>3, <1>5, <2>2
  <2> QED BY <1>3, <2>2, <2>3
<1> QED BY <1>5, <1>6 DEF r

(* A connection that ends says nothing.                                    *)
LEMMA CallCloses ==
  ASSUME NEW w \in Works, NEW bytes \in Seq(Char), w.flags = {"close"}
  PROVE  LET r == telnetd_appcall(w, bytes)
         IN  /\ r.sendfifo = w.sendfifo /\ r.options = w.options
             /\ r.connected => w.connected
<1> DEFINE w2 == IF w.k.didconnect THEN [w EXCEPT !.connected = FALSE] ELSE w
           r == telnetd_appcall(w, bytes)
<1>1. /\ "connected" \notin w.flags /\ w.flags \cap {"close", "abort", "timedout"} # {}
      /\ "acked" \notin w.flags /\ "newdata" \notin w.flags
      /\ w.flags \cap {"rexmit", "newdata", "acked", "connected", "poll"} = {}
  OBVIOUS
<1>2. /\ w2.flags = w.flags /\ w2.sendfifo = w.sendfifo /\ w2.options = w.options
      /\ w2.connected => w.connected
  BY DEF Works
<1>3. r = w2
  BY <1>1, <1>2 DEF telnetd_appcall
<1> HIDE DEF w2, r
<1> QED BY <1>2, <1>3 DEF r
-------------------------------------------------------------------------------
(* The inductive invariant.  While no second connection has disturbed it,  *)
(* the one that serves has got exactly the bytes before the ring, and, if  *)
(* the segment under way has arrived, those as well.                       *)
Arrived(k) == IF k.arrived THEN k.waiting_for ELSE 0

Session(c) ==
  LET used == fifoused(sendfifo)
  IN  /\ Under(sendfifo, conn[c])
      /\ used <= FIFOACTIONTHRESHOLD + 2 + options
      /\ connected /\ console = "free" => used <= FIFOACTIONTHRESHOLD + options
      /\ conn[c].arrived => conn[c].waiting_for # 0
      /\ first <= Base(sendfifo)
      /\ got[c] = [i \in 1 .. Base(sendfifo) - first + Arrived(conn[c]) |-> first + i]

OneSession == ~intruded => \A c, d \in Conns : Serves(c) /\ Serves(d) => c = d
Undisturbed == ~intruded /\ options <= Spare => \A c \in Conns : Serves(c) => Session(c)
Open == \A c \in Conns : conn[c].tcp = "established" => conn[c].didconnect

Inv == TypeOK /\ Ordered(recvfifo) /\ Open /\ OneSession /\ Undisturbed

LEMMA InitInv == Init => Inv
<1> SUFFICES ASSUME Init PROVE Inv
  OBVIOUS
<1>1. sendfifo \in Ring /\ recvfifo = sendfifo
  BY RingAssumption DEF Init, Ring
<1>2. conn \in [Conns -> Connections] /\ \A c \in Conns : conn[c].tcp = "closed"
  <2> DEFINE k == [tcp |-> "closed", nrtx |-> 0, outstanding |-> <<>>, arrived |-> FALSE,
                   state |-> "normal", didconnect |-> FALSE, waiting_for |-> 0]
  <2>1. <<>> \in Seq(Int) /\ 0 \in 0 .. UIP_MAXRTX /\ 0 \in 0 .. MSS
    BY StackAssumption
  <2>2. k \in Connections /\ k.tcp = "closed"
    BY <2>1 DEF Connections
  <2>3. conn = [c \in Conns |-> k]
    BY DEF Init
  <2> HIDE DEF k
  <2> QED BY <2>2, <2>3
<1>3. got \in [Conns -> Seq(Int)]
  BY DEF Init
<1>4. TypeOK
  <2>1. 0 \in -2 .. PasswordLength /\ 0 \in 0 .. MaxOut /\ 0 \in 0 .. MaxIn /\ 0 \in 0 .. MaxOpens
    BY LoginAssumption, BoundAssumption
  <2>2. /\ connected = FALSE /\ authenticated = 0 /\ console = "free" /\ intruded = FALSE
        /\ written = 0 /\ typed = 0 /\ opens = 0 /\ first = 0 /\ options = 0
    BY DEF Init
  <2> QED BY <1>1, <1>2, <1>3, <2>1, <2>2 DEF TypeOK
<1>5. Ordered(recvfifo)
  <2>1. recvfifo.fifotail = recvfifo.fifoaheadtail
    BY DEF Init
  <2>2. fifoused(recvfifo) = fifoaheadused(recvfifo) /\ fifoused(recvfifo) \in Slots
    BY <1>1, <2>1, RingFields DEF fifoused, fifoaheadused
  <2> QED BY <1>1, <2>2 DEF Ordered, Slots
<1>6. Open /\ OneSession /\ Undisturbed
  BY <1>2 DEF Open, OneSession, Undisturbed, Serves
<1> QED BY <1>4, <1>5, <1>6 DEF Inv

-------------------------------------------------------------------------------
(* An event as a call: where it starts and what it leaves.                 *)
Start(k, flags) ==
  [connected |-> connected, authenticated |-> authenticated,
   sendfifo |-> sendfifo, recvfifo |-> recvfifo, k |-> k, flags |-> flags,
   options |-> IF "connected" \in flags THEN 0 ELSE options]

LEMMA EventIs ==
  ASSUME TypeOK, NEW c \in Conns, NEW k \in Connections, NEW flags \in SUBSET Flags,
         NEW bytes \in Seq(Char), Event(c, k, flags, bytes)
  PROVE  LET w == Start(k, flags)
             r == telnetd_appcall(w, bytes)
         IN  /\ w \in Works /\ r \in Works
             /\ connected' = r.connected /\ authenticated' = r.authenticated
             /\ sendfifo' = r.sendfifo /\ recvfifo' = r.recvfifo
             /\ options' = r.options
             /\ typed' = IF bytes = <<>> THEN typed ELSE typed + 1
             /\ \A d \in Conns \ {c} : conn'[d] = conn[d]
             /\ conn'[c].tcp = "established" =>
                  /\ r.k.tcp = "established" /\ r.flags # {"close"} /\ "abort" \notin r.flags
                  /\ conn'[c] = IF k.outstanding # <<>> THEN r.k
                                ELSE [r.k EXCEPT !.arrived = FALSE]
             /\ conn' \in [Conns -> Connections]
<1> DEFINE w == Start(k, flags)
           r == telnetd_appcall(w, bytes)
           after == Uip(r.k, r.flags)
           e == IF k.outstanding # <<>> THEN after ELSE [after EXCEPT !.arrived = FALSE]
<1>1. /\ connected' = r.connected /\ authenticated' = r.authenticated
      /\ sendfifo' = r.sendfifo /\ recvfifo' = r.recvfifo
      /\ options' = r.options
      /\ typed' = IF bytes = <<>> THEN typed ELSE typed + 1
      /\ conn' = [conn EXCEPT ![c] = e]
  BY DEF Event, Start
<1>2. w \in Works
  BY DEF TypeOK, Works, Start
<1> HIDE DEF w
<1>3. r \in Works
  BY <1>2, CallTypes
<1> HIDE DEF r
<1>4. r.k \in Connections
  BY <1>3 DEF Works
<1>5. after \in Connections
  <2>1. <<>> \in Seq(Int)
    OBVIOUS
  <2> QED BY <1>4, <2>1 DEF Uip, Connections
<1>6. /\ after.tcp = "established" =>
           /\ r.k.tcp = "established" /\ r.flags # {"close"} /\ "abort" \notin r.flags
           /\ after = r.k
  BY <1>4 DEF Uip, Connections
<1> HIDE DEF after
<1>7. e \in Connections /\ e.tcp = after.tcp
  BY <1>5 DEF Connections
<1>8. after.tcp = "established" =>
        e = IF k.outstanding # <<>> THEN r.k ELSE [r.k EXCEPT !.arrived = FALSE]
  BY <1>6
<1> HIDE DEF e
<1>9. /\ conn' \in [Conns -> Connections] /\ conn'[c] = e
      /\ \A d \in Conns \ {c} : conn'[d] = conn[d]
  BY <1>1, <1>7 DEF TypeOK
<1> QED BY <1>1, <1>2, <1>3, <1>6, <1>7, <1>8, <1>9 DEF w, r

(* Types, and the order of the input ring, after an event.                 *)
LEMMA EventTypes ==
  ASSUME TypeOK, Ordered(recvfifo), Open,
         NEW c \in Conns, NEW k \in Connections, NEW flags \in SUBSET Flags,
         NEW bytes \in Seq(Char), Event(c, k, flags, bytes),
         typed < MaxIn \/ bytes = <<>>,
         "connected" \in flags \/ k.tcp # "established" \/ k.didconnect
  PROVE  /\ connected' \in BOOLEAN /\ authenticated' \in -2 .. PasswordLength
         /\ sendfifo' \in Ring /\ recvfifo' \in Ring
         /\ conn' \in [Conns -> Connections]
         /\ options' \in Nat /\ typed' \in 0 .. MaxIn
         /\ Ordered(recvfifo)'
         /\ "connected" \notin flags => Filled(recvfifo, recvfifo')
         /\ Open'
<1> DEFINE w == Start(k, flags)
           r == telnetd_appcall(w, bytes)
<1>1. /\ w \in Works /\ r \in Works
      /\ connected' = r.connected /\ authenticated' = r.authenticated
      /\ sendfifo' = r.sendfifo /\ recvfifo' = r.recvfifo
      /\ options' = r.options
      /\ typed' = IF bytes = <<>> THEN typed ELSE typed + 1
      /\ \A d \in Conns \ {c} : conn'[d] = conn[d]
      /\ conn'[c].tcp = "established" =>
           /\ r.k.tcp = "established" /\ r.flags # {"close"} /\ "abort" \notin r.flags
           /\ conn'[c] = IF k.outstanding # <<>> THEN r.k
                         ELSE [r.k EXCEPT !.arrived = FALSE]
      /\ conn' \in [Conns -> Connections]
  BY EventIs
<1>2. /\ w.recvfifo = recvfifo /\ w.flags = flags /\ w.k = k /\ w.connected = connected
  BY DEF Start
<1>3. r.k.tcp = w.k.tcp /\ r.k.didconnect = IF "connected" \in flags THEN ~connected ELSE k.didconnect
  BY <1>1, <1>2, CallTypes
<1>4. /\ Ordered(w.recvfifo) => Ordered(r.recvfifo)
      /\ "connected" \notin w.flags /\ Ordered(w.recvfifo) => Filled(w.recvfifo, r.recvfifo)
  BY <1>1, CallTypes
<1>5. "connected" \in flags /\ connected => r.flags \in {{"abort"}, {"close"}}
  BY <1>1, <1>2, CallRefuses
<1> HIDE DEF w, r
<1>6. typed' \in 0 .. MaxIn
  BY <1>1, BoundAssumption DEF TypeOK
<1>7. Open'
  <2> SUFFICES ASSUME NEW d \in Conns, conn'[d].tcp = "established"
               PROVE  conn'[d].didconnect
    BY DEF Open
  <2>1. CASE d # c
    BY <1>1, <2>1 DEF Open
  <2>2. CASE d = c
    <3>1. r.k.tcp = "established" /\ r.flags # {"close"} /\ "abort" \notin r.flags
      BY <1>1, <2>2
    <3>2. r.k.didconnect
      BY <1>2, <1>3, <1>5, <3>1
    <3>3. r.k \in Connections
      BY <1>1 DEF Works
    <3>4. conn'[c].didconnect = r.k.didconnect
      BY <1>1, <2>2, <3>3 DEF Connections
    <3> QED BY <2>2, <3>2, <3>4
  <2> QED BY <2>1, <2>2
<1>8. /\ connected' \in BOOLEAN /\ authenticated' \in -2 .. PasswordLength
      /\ sendfifo' \in Ring /\ recvfifo' \in Ring /\ options' \in Nat
  BY <1>1 DEF Works
<1> QED BY <1>1, <1>2, <1>4, <1>6, <1>7, <1>8
-------------------------------------------------------------------------------
(* Events in a session no second connection disturbs.                      *)

(* The bounds of the ring as the session keeps them.                       *)
LEMMA SpareIs ==
  ASSUME NEW o \in Nat, o <= Spare
  PROVE  FIFOACTIONTHRESHOLD + 2 + o <= FIFOSIZE - 1
BY RingAssumption DEF Spare

(* Only one connection moves, and it is the one that serves, or none does. *)
LEMMA OthersSilent ==
  ASSUME Inv, ~intruded, NEW c \in Conns, Serves(c),
         \A d \in Conns \ {c} : conn'[d] = conn[d]
  PROVE  \A d \in Conns : Serves(d)' => d = c
BY DEF Inv, OneSession, Serves

(* The bytes the session already has are those before its base.            *)
LEMMA UnderIs ==
  ASSUME NEW f, NEW k \in Connections, Under(f, k)
  PROVE  /\ k.waiting_for \in Nat /\ f \in Ring
         /\ k.outstanding # <<>> <=> k.waiting_for # 0
         /\ k.waiting_for # 0 => k.outstanding \in Seq(Int) /\ Len(k.outstanding) = k.waiting_for
         /\ fifoused(f) = 0 => k.waiting_for = 0
         /\ Base(f) \in Int /\ fifoused(f) \in Nat
<1>1. k.waiting_for \in Nat /\ k.outstanding \in Seq(Int)
  BY StackAssumption DEF Connections
<1>2. f \in Ring /\ k.waiting_for = fifoused(f) - fifoaheadused(f)
  BY DEF Under, Sends, Ordered
<1>3. /\ fifoused(f) \in Nat /\ fifoaheadused(f) \in Nat /\ f.seen \in Nat
  BY <1>2, RingFields, RingAssumption DEF Slots
<1>4. Base(f) \in Int
  BY <1>3 DEF Base
<1>5. fifoused(f) = 0 => k.waiting_for = 0
  BY <1>1, <1>2, <1>3
<1>6. k.waiting_for # 0 => Len(k.outstanding) = k.waiting_for
  <2> DEFINE n == k.waiting_for
  <2>1. ASSUME n # 0 PROVE Len(k.outstanding) = n
    <3>1. k.outstanding = [i \in 1 .. n |-> Base(f) + i]
      BY <2>1 DEF Under
    <3> HIDE DEF n
    <3>2. DOMAIN k.outstanding = 1 .. n
      BY <3>1
    <3>3. n \in Nat
      BY <1>1 DEF n
    <3> QED BY <1>1, <3>2, <3>3
  <2> QED BY <2>1
<1>7. k.outstanding # <<>> <=> k.waiting_for # 0
  <2>1. k.waiting_for = 0 => k.outstanding = <<>>
    BY DEF Under
  <2>2. Len(<<>>) = 0
    OBVIOUS
  <2> QED BY <1>6, <2>1, <2>2
<1> QED BY <1>1, <1>2, <1>3, <1>4, <1>5, <1>6, <1>7

LEMMA EventContinues ==
  ASSUME Inv, ~intruded, NEW c \in Conns, Serves(c),
         NEW k \in Connections, NEW flags \in SUBSET Flags, NEW bytes \in Seq(Char),
         Event(c, k, flags, bytes),
         flags \subseteq {"acked", "newdata", "rexmit", "poll"},
         k.waiting_for = conn[c].waiting_for,
         IF "acked" \in flags
           THEN k.outstanding = <<>> /\ ~k.arrived /\ conn[c].arrived
           ELSE k.outstanding = conn[c].outstanding /\ k.arrived = conn[c].arrived,
         UNCHANGED <<console, first, got, intruded>>
  PROVE  (OneSession /\ Undisturbed)'
<1> DEFINE w == Start(k, flags)
           r == telnetd_appcall(w, bytes)
           old == conn[c]
           n == options' - options
<1>1. /\ w \in Works /\ r \in Works
      /\ connected' = r.connected /\ sendfifo' = r.sendfifo /\ options' = r.options
      /\ \A d \in Conns \ {c} : conn'[d] = conn[d]
      /\ conn'[c].tcp = "established" =>
           conn'[c] = IF k.outstanding # <<>> THEN r.k ELSE [r.k EXCEPT !.arrived = FALSE]
  BY EventIs DEF Inv
<1>2. /\ w.sendfifo = sendfifo /\ w.flags = flags /\ w.k = k /\ w.connected = connected
      /\ w.options = options
  BY DEF Start
<1>3. \A d \in Conns : Serves(d)' => d = c
  BY <1>1, OthersSilent
<1>4. OneSession'
  BY <1>3 DEF OneSession
<1>5. r.k.arrived = k.arrived /\ options' >= options
  <2>1. "connected" \notin w.flags
    BY <1>2
  <2> QED BY <1>1, <1>2, <2>1, CallTypes
<1>6. ASSUME options' <= Spare, Serves(c)'
      PROVE  Session(c)'
  <2>1. /\ old \in Connections /\ options \in Nat /\ options' \in Nat /\ options <= Spare
        /\ r.k \in Connections /\ first \in Nat
    <3>1. options \in Nat /\ options' \in Nat
      BY <1>1 DEF Inv, TypeOK, Works
    <3>2. options <= Spare
      BY <1>5, <1>6, <3>1, RingAssumption DEF Spare
    <3> QED BY <1>1, <3>1, <3>2 DEF Inv, TypeOK, Works
  <2>2. Session(c)
    BY <2>1 DEF Inv, Undisturbed
  <2>3. /\ old.waiting_for \in Nat
        /\ old.outstanding # <<>> <=> old.waiting_for # 0
        /\ Base(sendfifo) \in Int /\ fifoused(sendfifo) \in Nat
        /\ Sends(sendfifo, old.waiting_for) /\ Under(sendfifo, old)
    BY <2>1, <2>2, UnderIs DEF Session, Under
  <2>4. n \in Nat /\ fifoused(sendfifo) + n <= FIFOSIZE - 1
    <3>1. FIFOACTIONTHRESHOLD + 2 + options' <= FIFOSIZE - 1
      BY <1>6, <2>1, SpareIs
    <3>2. fifoused(sendfifo) <= FIFOACTIONTHRESHOLD + 2 + options
      BY <2>2 DEF Session
    <3>3. options' >= options /\ options \in Nat /\ options' \in Nat /\ n = options' - options
      BY <1>5, <2>1
    <3>4. fifoused(sendfifo) \in Nat /\ FIFOSIZE \in Nat /\ FIFOACTIONTHRESHOLD \in Nat
      BY <2>3, RingAssumption
    <3> DEFINE o == options'
    <3> HIDE DEF n, o
    <3>5. n \in Nat /\ fifoused(sendfifo) + n <= FIFOSIZE - 1
      <4>1. /\ FIFOACTIONTHRESHOLD + 2 + o <= FIFOSIZE - 1
            /\ o >= options /\ options \in Nat /\ o \in Nat /\ n = o - options
        BY <3>1, <3>3 DEF o
      <4> QED BY ONLY <3>2, <3>4, <4>1
    <3> QED BY <3>5
  <2>5. /\ connected' = connected
        /\ Under(sendfifo', r.k)
        /\ Base(sendfifo') = Base(sendfifo)
             + IF "acked" \in flags THEN old.waiting_for ELSE 0
        /\ fifoused(sendfifo') <= fifoused(sendfifo) + n
        /\ "acked" \notin flags /\ old.waiting_for # 0 => r.k.waiting_for = old.waiting_for
    <3>1. Sends(w.sendfifo, w.k.waiting_for)
      BY <1>2, <2>3
    <3>2. IF "acked" \in w.flags THEN w.k.outstanding = <<>> ELSE Under(w.sendfifo, w.k)
      BY <1>2, <2>3 DEF Under
    <3>3. w.flags \subseteq {"acked", "newdata", "rexmit", "poll"}
      BY <1>2
    <3>4. LET m == r.options - w.options
          IN  /\ r.connected = w.connected
              /\ m \in Nat
              /\ fifoused(w.sendfifo) + m <= FIFOSIZE - 1 =>
                   /\ Under(r.sendfifo, r.k)
                   /\ Base(r.sendfifo) = Base(w.sendfifo)
                        + IF "acked" \in w.flags THEN w.k.waiting_for ELSE 0
                   /\ fifoused(r.sendfifo) <= fifoused(w.sendfifo) + m
                   /\ "acked" \notin w.flags /\ w.k.waiting_for # 0 =>
                        r.k.waiting_for = w.k.waiting_for
      BY <1>1, <3>1, <3>2, <3>3, CallContinues
    <3> QED BY <1>1, <1>2, <2>4, <3>4
  <2> DEFINE new == conn'[c]
  <2>6. /\ new = IF k.outstanding # <<>> THEN r.k ELSE [r.k EXCEPT !.arrived = FALSE]
        /\ new \in Connections
    BY <1>1, <1>6, EventIs DEF Inv, Serves
  <2> HIDE DEF new, r, w, n
  <2>7. /\ new.waiting_for = r.k.waiting_for /\ new.outstanding = r.k.outstanding
        /\ new.arrived = IF k.outstanding # <<>> THEN k.arrived ELSE FALSE
    BY <1>5, <2>1, <2>6 DEF Connections
  <2>8. Under(sendfifo', new)
    BY <2>5, <2>7 DEF Under
  <2>9. new.arrived =>
          /\ "acked" \notin flags /\ old.arrived /\ new.waiting_for = old.waiting_for
          /\ new.waiting_for # 0
    <3> SUFFICES ASSUME new.arrived
                 PROVE  /\ "acked" \notin flags /\ old.arrived
                        /\ new.waiting_for = old.waiting_for /\ new.waiting_for # 0
      OBVIOUS
    <3>1. k.outstanding # <<>> /\ k.arrived
      BY <2>7
    <3>2. "acked" \notin flags
      BY <3>1
    <3> QED BY <2>3, <2>5, <2>7, <3>1, <3>2
  <2>10. ~new.arrived => Arrived(old) = IF "acked" \in flags THEN old.waiting_for ELSE 0
    <3>1. CASE "acked" \in flags
      BY <3>1 DEF Arrived
    <3>2. CASE "acked" \notin flags
      <4>1. CASE old.arrived
        <5>1. old.waiting_for # 0
          BY <2>2, <4>1 DEF Session
        <5>2. new.arrived
          BY <2>3, <2>7, <3>2, <4>1, <5>1
        <5> QED BY <5>2
      <4>2. CASE ~old.arrived
        BY <3>2, <4>2 DEF Arrived
      <4> QED BY <4>1, <4>2
    <3> QED BY <3>1, <3>2
  <2>11. Base(sendfifo') - first + Arrived(new) = Base(sendfifo) - first + Arrived(old)
    <3>1. CASE new.arrived
      BY <2>1, <2>3, <2>5, <2>9, <3>1 DEF Arrived
    <3>2. CASE ~new.arrived
      <4>1. Arrived(new) = 0
        BY <3>2 DEF Arrived
      <4> QED BY <2>1, <2>3, <2>5, <2>10, <3>2, <4>1
    <3> QED BY <3>1, <3>2
  <2>12. first <= Base(sendfifo')
    <3>1. first <= Base(sendfifo)
      BY <2>2 DEF Session
    <3> QED BY <2>1, <2>3, <2>5, <3>1
  <2>13. fifoused(sendfifo') \in Nat
    BY <2>6, <2>8, UnderIs
  <2>14. fifoused(sendfifo') <= FIFOACTIONTHRESHOLD + 2 + options'
    <3>1. fifoused(sendfifo) <= FIFOACTIONTHRESHOLD + 2 + options
      BY <2>2 DEF Session
    <3> QED BY <2>1, <2>3, <2>5, <2>13, <3>1, RingAssumption DEF n
  <2>15. connected' /\ console' = "free" =>
           fifoused(sendfifo') <= FIFOACTIONTHRESHOLD + options'
    <3>1. connected /\ console = "free" => fifoused(sendfifo) <= FIFOACTIONTHRESHOLD + options
      BY <2>2 DEF Session
    <3> QED BY <2>1, <2>3, <2>5, <2>13, <3>1, RingAssumption DEF n
  <2>16. got'[c] = [i \in 1 .. Base(sendfifo') - first' + Arrived(new) |-> first' + i]
    <3>1. got[c] = [i \in 1 .. Base(sendfifo) - first + Arrived(old) |-> first + i]
      BY <2>2 DEF Session
    <3> QED BY <2>11, <3>1
  <2> QED BY <2>8, <2>9, <2>12, <2>14, <2>15, <2>16 DEF Session, new
<1> QED BY <1>3, <1>4, <1>6 DEF Undisturbed
-------------------------------------------------------------------------------
(* Each action keeps the invariant, and loses no key there is room for.    *)
KeysKept ==
  opens' = opens =>
    LET n == fifoused(recvfifo) + recvfifo'.seen - recvfifo.seen
    IN  recvfifo'.seen # recvfifo.seen =>
          fifoused(recvfifo') = IF n < FIFOSIZE THEN n ELSE FIFOSIZE - 1

LEMMA FilledKeeps == Filled(recvfifo, recvfifo') => KeysKept
BY DEF Filled, KeysKept

LEMMA SegmentsAre == \A bytes \in Segments \cup {<<>>} : bytes \in Seq(Char)
<1>1. <<>> \in Seq(Char)
  OBVIOUS
<1> QED BY <1>1, PeerAssumption

LEMMA PeerConnectsKeeps ==
  ASSUME Inv, NEW c \in Conns, PeerConnects(c) PROVE Inv' /\ KeysKept
<1> DEFINE k == [conn[c] EXCEPT !.tcp = "established", !.nrtx = 0,
                                !.outstanding = <<>>, !.arrived = FALSE]
<1>1. PICK bytes \in Segments \cup {<<>>} :
        /\ typed < MaxIn \/ bytes = <<>>
        /\ Event(c, k, {"connected"} \cup Data(bytes), bytes)
  BY DEF PeerConnects
<1> DEFINE flags == {"connected"} \cup Data(bytes)
           w == Start(k, flags)
           r == telnetd_appcall(w, bytes)
<1>2. /\ TypeOK /\ Ordered(recvfifo) /\ Open /\ conn[c] \in Connections
      /\ <<>> \in Seq(Int) /\ 0 \in 0 .. UIP_MAXRTX
  BY StackAssumption DEF Inv, TypeOK
<1>3. /\ k \in Connections /\ k.outstanding = <<>>
  BY <1>2 DEF Connections
<1> HIDE DEF k
<1>4. /\ bytes \in Seq(Char) /\ flags \in SUBSET Flags
      /\ "connected" \in flags /\ flags \subseteq {"connected", "newdata"}
  BY SegmentsAre DEF Flags, Data
<1> HIDE DEF flags
<1>5. Event(c, k, flags, bytes) /\ (typed < MaxIn \/ bytes = <<>>)
  BY <1>1 DEF flags
<1>6. /\ connected' \in BOOLEAN /\ authenticated' \in -2 .. PasswordLength
      /\ sendfifo' \in Ring /\ recvfifo' \in Ring
      /\ conn' \in [Conns -> Connections]
      /\ options' \in Nat /\ typed' \in 0 .. MaxIn
      /\ Ordered(recvfifo)' /\ Open'
  BY <1>2, <1>3, <1>4, <1>5, EventTypes
<1>7. /\ opens' = opens + 1 /\ opens < MaxOpens
      /\ intruded' = (connected \/ \E d \in Conns \ {c} : Serves(d))
      /\ got' = [got EXCEPT ![c] = <<>>]
      /\ first' = IF connected THEN first ELSE sendfifo.seen
      /\ console' = console /\ written' = written
      /\ NetRuns
  BY DEF PeerConnects
<1>8. TypeOK'
  <2>1. opens' \in 0 .. MaxOpens
    BY <1>2, <1>7, BoundAssumption DEF TypeOK
  <2>2. first' \in Nat
    BY <1>2, <1>7, RingFields DEF TypeOK
  <2>3. got' \in [Conns -> Seq(Int)]
    BY <1>2, <1>7 DEF TypeOK
  <2>4. intruded' \in BOOLEAN
    BY <1>7
  <2> QED BY <1>2, <1>6, <1>7, <2>1, <2>2, <2>3, <2>4 DEF TypeOK
<1>9. /\ w \in Works /\ r \in Works
      /\ connected' = r.connected /\ sendfifo' = r.sendfifo /\ options' = r.options
      /\ \A d \in Conns \ {c} : conn'[d] = conn[d]
      /\ conn'[c].tcp = "established" =>
           conn'[c] = IF k.outstanding # <<>> THEN r.k ELSE [r.k EXCEPT !.arrived = FALSE]
  BY <1>2, <1>3, <1>4, <1>5, EventIs
<1>10. ASSUME ~intruded'
       PROVE  /\ ~connected /\ console = "free"
              /\ \A d \in Conns : Serves(d)' => d = c
  <2>1. ~connected /\ \A d \in Conns \ {c} : ~Serves(d)
    BY <1>7, <1>10
  <2>2. console = "free"
    BY <1>2, <1>7, <2>1 DEF NetRuns, Over, TypeOK
  <2>3. \A d \in Conns \ {c} : ~Serves(d)'
    BY <1>9, <2>1 DEF Serves
  <2> QED BY <2>1, <2>2, <2>3
<1>11. ASSUME ~intruded', options' <= Spare, Serves(c)'
       PROVE  Session(c)'
  <2>1. /\ w.flags = flags /\ w.connected = connected /\ w.options = 0 /\ w.k = k
        /\ w.sendfifo = sendfifo
    BY <1>4 DEF Start
  <2>2. options' <= FIFOSIZE - 1
    BY <1>6, <1>11, SpareIs, RingAssumption
  <2>3. /\ Under(sendfifo', r.k) /\ Base(sendfifo') = sendfifo.seen
        /\ fifoused(sendfifo') = options'
    <3>1. w.flags \subseteq {"connected", "newdata"} /\ "connected" \in w.flags /\ ~w.connected
      BY <1>4, <1>10, <1>11, <2>1
    <3>2. LET v == telnetd_appcall(w, bytes)
          IN  v.options <= FIFOSIZE - 1 =>
                /\ Under(v.sendfifo, v.k)
                /\ Base(v.sendfifo) = w.sendfifo.seen
                /\ fifoused(v.sendfifo) = v.options
      BY <1>3, <1>4, <1>9, <2>1, <3>1, CallOpens
    <3> QED BY <1>9, <2>1, <2>2, <3>2
  <2> DEFINE new == conn'[c]
  <2>4. new = [r.k EXCEPT !.arrived = FALSE] /\ r.k \in Connections
    BY <1>3, <1>9, <1>11 DEF Serves, Works
  <2> HIDE DEF new, r, w
  <2>5. /\ new.waiting_for = r.k.waiting_for /\ new.outstanding = r.k.outstanding
        /\ ~new.arrived
    BY <2>4 DEF Connections
  <2>6. Under(sendfifo', new)
    BY <2>3, <2>5 DEF Under
  <2>7. first' = sendfifo.seen /\ sendfifo.seen \in Nat
    BY <1>2, <1>7, <1>10, <1>11, RingFields DEF TypeOK
  <2>8. Base(sendfifo') - first' + Arrived(new) = 0
    BY <2>3, <2>5, <2>7 DEF Arrived
  <2>9. got'[c] = [i \in 1 .. Base(sendfifo') - first' + Arrived(new) |-> first' + i]
    <3>1. got'[c] = <<>>
      BY <1>2, <1>7 DEF TypeOK
    <3> QED BY <2>8, <3>1
  <2>10. /\ fifoused(sendfifo') <= FIFOACTIONTHRESHOLD + 2 + options'
         /\ fifoused(sendfifo') <= FIFOACTIONTHRESHOLD + options'
    <3>1. options' \in Nat /\ fifoused(sendfifo') = options'
      BY <1>6, <2>3
    <3>2. FIFOACTIONTHRESHOLD \in Nat
      BY RingAssumption
    <3> DEFINE u == fifoused(sendfifo')
               o == options'
    <3>3. o \in Nat /\ u = o
      BY <3>1
    <3> HIDE DEF u, o
    <3>4. u <= FIFOACTIONTHRESHOLD + 2 + o /\ u <= FIFOACTIONTHRESHOLD + o
      BY ONLY <3>2, <3>3
    <3> QED BY ONLY <3>4 DEF u, o
  <2> QED BY <2>3, <2>5, <2>6, <2>7, <2>9, <2>10 DEF Session, new
<1>12. OneSession' /\ Undisturbed'
  BY <1>10, <1>11 DEF OneSession, Undisturbed
<1>13. KeysKept
  <2>1. opens' # opens
    BY <1>2, <1>7 DEF TypeOK
  <2> QED BY <2>1 DEF KeysKept
<1> QED BY <1>6, <1>8, <1>12, <1>13 DEF Inv

(* An event that leaves a connection not established, without data for it. *)
LEMMA SilentAfter ==
  ASSUME Inv, NEW c \in Conns, ~Serves(c)', UNCHANGED <<intruded, first, got>>,
         \A d \in Conns \ {c} : conn'[d] = conn[d],
         \A d \in Conns : d # c /\ Serves(d) /\ ~intruded =>
           /\ sendfifo' = sendfifo /\ options' = options /\ console' = console
           /\ connected' => connected
  PROVE  (OneSession /\ Undisturbed)'
<1>1. \A d \in Conns : Serves(d)' => d # c /\ Serves(d) /\ conn'[d] = conn[d]
  BY DEF Serves
<1>2. OneSession'
  BY <1>1 DEF Inv, OneSession
<1>3. ASSUME ~intruded, options' <= Spare, NEW d \in Conns, Serves(d)'
      PROVE  Session(d)'
  <2>1. /\ d # c /\ Serves(d) /\ conn'[d] = conn[d]
        /\ sendfifo' = sendfifo /\ options' = options /\ console' = console
        /\ connected' => connected
    BY <1>1, <1>3
  <2>2. Session(d)
    BY <1>3, <2>1 DEF Inv, Undisturbed
  <2> QED BY <2>1, <2>2 DEF Session
<1> QED BY <1>2, <1>3 DEF Undisturbed

(* An event of a connection that has ended.                                *)
LEMMA EventEnds ==
  ASSUME TypeOK, NEW c \in Conns, NEW k \in Connections, NEW flags \in SUBSET Flags,
         NEW bytes \in Seq(Char), Event(c, k, flags, bytes),
         "connected" \notin flags, k.tcp # "established"
  PROVE  /\ conn'[c].tcp # "established"
         /\ \A d \in Conns \ {c} : conn'[d] = conn[d]
         /\ flags = {"close"} =>
              /\ sendfifo' = sendfifo /\ options' = options
              /\ connected' => connected
<1> DEFINE w == Start(k, flags)
           r == telnetd_appcall(w, bytes)
<1>1. /\ w \in Works /\ r \in Works
      /\ connected' = r.connected /\ sendfifo' = r.sendfifo /\ options' = r.options
      /\ \A d \in Conns \ {c} : conn'[d] = conn[d]
      /\ conn'[c].tcp = "established" =>
           /\ r.k.tcp = "established" /\ r.flags # {"close"} /\ "abort" \notin r.flags
           /\ conn'[c] = IF k.outstanding # <<>> THEN r.k
                         ELSE [r.k EXCEPT !.arrived = FALSE]
  BY EventIs
<1>2. /\ w.k = k /\ w.flags = flags /\ w.connected = connected
      /\ w.sendfifo = sendfifo /\ w.options = options
  BY DEF Start
<1>3. r.k.tcp = k.tcp
  BY <1>1, <1>2, CallTypes
<1>4. flags = {"close"} =>
        /\ r.sendfifo = w.sendfifo /\ r.options = w.options
        /\ r.connected => w.connected
  BY <1>1, <1>2, CallCloses
<1> HIDE DEF w, r
<1> QED BY <1>1, <1>2, <1>3, <1>4

LEMMA SegmentKeeps ==
  ASSUME Inv, NEW c \in Conns, Segment(c) PROVE Inv' /\ KeysKept
<1>1. PICK ack \in BOOLEAN, fin \in BOOLEAN, bytes \in Segments \cup {<<>>} :
        /\ conn[c].tcp = "established"
        /\ ack \/ fin \/ bytes # <<>>
        /\ ack => conn[c].outstanding # <<>> /\ conn[c].arrived
        /\ typed < MaxIn \/ bytes = <<>>
        /\ Event(c, [conn[c] EXCEPT !.tcp = IF fin THEN "lastack" ELSE @, !.nrtx = 0,
                                    !.outstanding = IF ack THEN <<>> ELSE @,
                                    !.arrived = @ /\ ~ack],
                 (IF ack THEN {"acked"} ELSE {}) \cup
                 (IF fin THEN {"close"} ELSE {}) \cup Data(bytes), bytes)
        /\ UNCHANGED <<console, written, opens, first, got, intruded>>
  BY ZenonT(60) DEF Segment
<1> DEFINE b == conn[c].arrived /\ ~ack
           k == [conn[c] EXCEPT !.tcp = IF fin THEN "lastack" ELSE @, !.nrtx = 0,
                                !.outstanding = IF ack THEN <<>> ELSE @,
                                !.arrived = b]
           flags == (IF ack THEN {"acked"} ELSE {}) \cup
                    (IF fin THEN {"close"} ELSE {}) \cup Data(bytes)
<1>2. /\ TypeOK /\ Ordered(recvfifo) /\ Open /\ conn[c] \in Connections
      /\ <<>> \in Seq(Int) /\ 0 \in 0 .. UIP_MAXRTX /\ conn[c].didconnect
  BY <1>1, StackAssumption DEF Inv, TypeOK, Open
<1>3. b \in BOOLEAN
  BY <1>2 DEF Connections
<1>4. Event(c, k, flags, bytes)
  BY <1>1
<1> HIDE DEF b
<1>5. /\ k \in Connections
      /\ k.tcp = IF fin THEN "lastack" ELSE "established"
      /\ k.outstanding = IF ack THEN <<>> ELSE conn[c].outstanding
      /\ k.waiting_for = conn[c].waiting_for
  <2> DEFINE j == [conn[c] EXCEPT !.tcp = IF fin THEN "lastack" ELSE @, !.nrtx = 0,
                                  !.outstanding = IF ack THEN <<>> ELSE @]
  <2>1. /\ j \in Connections
        /\ j.tcp = IF fin THEN "lastack" ELSE "established"
        /\ j.outstanding = IF ack THEN <<>> ELSE conn[c].outstanding
        /\ j.waiting_for = conn[c].waiting_for
    BY <1>1, <1>2 DEF Connections
  <2>2. k = [j EXCEPT !.arrived = b]
    BY <1>2 DEF Connections
  <2> HIDE DEF j, k
  <2> QED BY <1>3, <2>1, <2>2 DEF Connections
<1>6. k.arrived = b /\ k.didconnect
  BY <1>2 DEF Connections
<1> HIDE DEF k
<1>7. /\ bytes \in Seq(Char) /\ flags \in SUBSET Flags
      /\ "connected" \notin flags /\ ("acked" \in flags <=> ack)
      /\ ~fin => flags \subseteq {"acked", "newdata"}
  BY SegmentsAre DEF Flags, Data
<1> HIDE DEF flags
<1>8. /\ connected' \in BOOLEAN /\ authenticated' \in -2 .. PasswordLength
      /\ sendfifo' \in Ring /\ recvfifo' \in Ring
      /\ conn' \in [Conns -> Connections]
      /\ options' \in Nat /\ typed' \in 0 .. MaxIn
      /\ Ordered(recvfifo)' /\ Open'
      /\ Filled(recvfifo, recvfifo')
  BY <1>1, <1>2, <1>4, <1>5, <1>6, <1>7, EventTypes
<1>9. TypeOK'
  BY <1>1, <1>2, <1>8 DEF TypeOK
<1>10. (OneSession /\ Undisturbed)'
  <2>0. Serves(c)
    BY <1>1, <1>2 DEF Serves
  <2>1. CASE intruded
    BY <1>1, <2>1 DEF OneSession, Undisturbed
  <2>2. CASE ~intruded /\ fin
    <3>1. /\ conn'[c].tcp # "established"
          /\ \A d \in Conns \ {c} : conn'[d] = conn[d]
      <4>1. /\ TypeOK /\ k \in Connections /\ k.tcp # "established"
            /\ flags \in SUBSET Flags /\ "connected" \notin flags /\ bytes \in Seq(Char)
        BY <1>2, <1>5, <1>7, <2>2
      <4> QED BY ONLY <1>4, <4>1, c \in Conns, EventEnds
    <3>2. \A d \in Conns : d # c => ~Serves(d)
      BY <2>0, <2>2 DEF Inv, OneSession
    <3>3. ~Serves(c)'
      BY <3>1 DEF Serves
    <3> QED BY <1>1, <3>1, <3>2, <3>3, SilentAfter
  <2>3. CASE ~intruded /\ ~fin
    <3>1. IF "acked" \in flags
            THEN k.outstanding = <<>> /\ ~k.arrived /\ conn[c].arrived
            ELSE k.outstanding = conn[c].outstanding /\ k.arrived = conn[c].arrived
      <4>1. CASE ack
        BY <1>1, <1>5, <1>6, <1>7, <4>1 DEF b
      <4>2. CASE ~ack
        <5>1. b = conn[c].arrived
          BY <1>2, <4>2 DEF b, Connections
        <5> QED BY <1>5, <1>6, <1>7, <4>2, <5>1
      <4> QED BY <4>1, <4>2
    <3>2. flags \subseteq {"acked", "newdata", "rexmit", "poll"}
      BY <1>7, <2>3
    <3> QED BY <1>1, <1>4, <1>5, <1>7, <2>0, <2>3, <3>1, <3>2, EventContinues
  <2> QED BY <2>1, <2>2, <2>3
<1> QED BY <1>8, <1>9, <1>10, FilledKeeps DEF Inv
LEMMA PeerGetsKeeps ==
  ASSUME Inv, NEW c \in Conns, PeerGets(c) PROVE Inv' /\ KeysKept
<1> DEFINE k == conn[c]
           j == [k EXCEPT !.arrived = TRUE]
<1>1. /\ TypeOK /\ k \in Connections /\ got[c] \in Seq(Int) /\ k.outstanding \in Seq(Int)
      /\ k.outstanding # <<>> /\ ~k.arrived
      /\ conn' = [conn EXCEPT ![c] = j]
      /\ got' = [got EXCEPT ![c] = @ \o k.outstanding]
      /\ UNCHANGED <<statics, console, bounds, first, options, intruded>>
  BY DEF Inv, TypeOK, PeerGets, Connections
<1>2. /\ j \in Connections /\ j.arrived /\ j.tcp = k.tcp /\ j.didconnect = k.didconnect
      /\ j.waiting_for = k.waiting_for /\ j.outstanding = k.outstanding
  BY <1>1 DEF Connections
<1> HIDE DEF j
<1>3. /\ conn' \in [Conns -> Connections] /\ conn'[c] = j
      /\ \A d \in Conns \ {c} : conn'[d] = conn[d]
      /\ got' \in [Conns -> Seq(Int)] /\ got'[c] = got[c] \o k.outstanding
      /\ \A d \in Conns \ {c} : got'[d] = got[d]
  BY <1>1, <1>2 DEF TypeOK
<1>4. UNCHANGED <<connected, authenticated, sendfifo, recvfifo, console, written, typed,
                  opens, first, options, intruded>>
  BY <1>1 DEF statics, bounds
<1>5. TypeOK' /\ Ordered(recvfifo)'
  BY <1>1, <1>3, <1>4 DEF Inv, TypeOK
<1>6. \A d \in Conns : Serves(d)' <=> Serves(d)
  BY <1>2, <1>3 DEF Serves
<1>7. Open' /\ OneSession'
  <2>1. \A d \in Conns : conn'[d].tcp = conn[d].tcp /\ conn'[d].didconnect = conn[d].didconnect
    BY <1>2, <1>3
  <2>2. Open'
    BY <2>1 DEF Inv, Open
  <2>3. OneSession'
    BY <1>4, <1>6 DEF Inv, OneSession
  <2> QED BY <2>2, <2>3
<1>8. ASSUME ~intruded, options <= Spare, NEW d \in Conns, Serves(d)
      PROVE  Session(d)'
  <2>1. Session(d)
    BY <1>8 DEF Inv, Undisturbed
  <2>2. CASE d # c
    BY <1>3, <1>4, <2>1, <2>2 DEF Session
  <2>3. CASE d = c
    <3> DEFINE b == Base(sendfifo)
               m == b - first
               n == k.waiting_for
    <3>1. Under(sendfifo, k) /\ first <= b /\ first \in Nat
      BY <1>1, <2>1, <2>3 DEF Session, TypeOK
    <3>2. n \in Nat /\ n # 0 /\ b \in Int /\ m \in Nat
      BY <1>1, <3>1, UnderIs
    <3>3. k.outstanding = [i \in 1 .. n |-> b + i]
      BY <3>1, <3>2 DEF Under
    <3>4. got[c] = [i \in 1 .. m |-> first + i]
      <4>1. Arrived(k) = 0
        BY <1>1 DEF Arrived
      <4>2. got[c] = [i \in 1 .. m + Arrived(k) |-> first + i]
        BY <2>1, <2>3 DEF Session
      <4> QED BY <3>2, <4>1, <4>2
    <3> HIDE DEF b, m, n, k
    <3>5. k.outstanding = [i \in 1 .. n |-> first + (m + i)]
      <4>1. \A i \in 1 .. n : b + i = first + (m + i)
        BY <3>1, <3>2 DEF m
      <4> QED BY <3>3, <4>1
    <3>6. Len(got[c]) = m /\ Len(k.outstanding) = n
      BY <1>1, <3>2, <3>3, <3>4
    <3>7. got[c] \o k.outstanding = [i \in 1 .. m + n |-> first + i]
      BY <1>1, <3>1, <3>2, <3>4, <3>5, <3>6
    <3>8. Arrived(j) = n
      BY <1>2 DEF Arrived, n
    <3>9. got'[c] = [i \in 1 .. m + Arrived(j) |-> first + i]
      BY <1>3, <3>7, <3>8
    <3>10. Under(sendfifo, j)
      BY <1>2, <3>1 DEF Under, k
    <3>11. j.waiting_for # 0
      BY <1>2, <3>2 DEF n
    <3> QED BY <1>3, <1>4, <2>1, <2>3, <3>9, <3>10, <3>11 DEF Session, m, b
  <2> QED BY <2>2, <2>3
<1>9. Undisturbed'
  BY <1>4, <1>6, <1>8 DEF Undisturbed
<1>10. KeysKept
  BY <1>4 DEF KeysKept
<1> QED BY <1>5, <1>7, <1>9, <1>10 DEF Inv

(* The ends of a connection.                                               *)
LEMMA EndKeeps ==
  ASSUME Inv, NEW c \in Conns, NEW t \in {"closed", "timewait"},
         Event(c, [conn[c] EXCEPT !.tcp = t], {"close"}, <<>>),
         UNCHANGED <<console, written, opens, first, got, intruded>>
  PROVE  Inv' /\ KeysKept
<1> DEFINE k == [conn[c] EXCEPT !.tcp = t]
           flags == {"close"}
           bytes == <<>>
<1>1. /\ TypeOK /\ Ordered(recvfifo) /\ Open /\ conn[c] \in Connections
  BY DEF Inv, TypeOK
<1>2. /\ k \in Connections /\ k.tcp # "established"
      /\ flags \in SUBSET Flags /\ "connected" \notin flags /\ bytes \in Seq(Char)
  BY <1>1 DEF Connections, Flags
<1>3. Event(c, k, flags, bytes) /\ bytes = <<>> /\ flags = {"close"}
  OBVIOUS
<1> HIDE DEF k, flags, bytes
<1>4. /\ connected' \in BOOLEAN /\ authenticated' \in -2 .. PasswordLength
      /\ sendfifo' \in Ring /\ recvfifo' \in Ring
      /\ conn' \in [Conns -> Connections]
      /\ options' \in Nat /\ typed' \in 0 .. MaxIn
      /\ Ordered(recvfifo)' /\ Open'
      /\ Filled(recvfifo, recvfifo')
  BY <1>1, <1>2, <1>3, EventTypes
<1>5. TypeOK'
  BY <1>1, <1>4 DEF TypeOK
<1>6. /\ conn'[c].tcp # "established"
      /\ \A d \in Conns \ {c} : conn'[d] = conn[d]
      /\ sendfifo' = sendfifo /\ options' = options
      /\ connected' => connected
  BY <1>1, <1>2, <1>3, EventEnds
<1>7. (OneSession /\ Undisturbed)'
  <2>1. ~Serves(c)'
    BY <1>6 DEF Serves
  <2> QED BY <1>6, <2>1, SilentAfter
<1> QED BY <1>4, <1>5, <1>7, FilledKeeps DEF Inv

LEMMA TimerKeeps ==
  ASSUME Inv, NEW c \in Conns, Timer(c) PROVE Inv' /\ KeysKept
<1> DEFINE old == conn[c]
           Polls(k) == old.outstanding = <<>> /\ k = [old EXCEPT !.nrtx = 0]
           GivesUp(k) == old.outstanding # <<>> /\ k = [old EXCEPT !.tcp = "closed"]
           Again(k) == /\ old.outstanding # <<>> /\ old.nrtx # UIP_MAXRTX
                       /\ k = [old EXCEPT !.nrtx = @ + 1]
<1>1. /\ TypeOK /\ Ordered(recvfifo) /\ Open /\ old \in Connections
      /\ old.tcp = "established" /\ old.didconnect /\ Serves(c)
      /\ UNCHANGED <<console, written, opens, first, got, intruded>>
  BY DEF Inv, TypeOK, Open, Timer, Serves
<1>2. PICK k, flags :
        /\ Event(c, k, flags, <<>>)
        /\ \/ Polls(k) /\ flags = {"poll"}
           \/ GivesUp(k) /\ flags = {"timedout"}
           \/ Again(k) /\ flags = {"rexmit"}
  BY DEF Timer
<1>3. /\ k \in Connections /\ k.outstanding = old.outstanding
      /\ k.waiting_for = old.waiting_for
      /\ flags # {"timedout"} => k.tcp = "established"
      /\ flags = {"timedout"} => k.tcp = "closed"
  <2>1. CASE Polls(k) /\ flags = {"poll"}
    <3>1. 0 \in 0 .. UIP_MAXRTX
      BY StackAssumption
    <3> QED BY <1>1, <2>1, <3>1 DEF Connections
  <2>2. CASE GivesUp(k) /\ flags = {"timedout"}
    BY <1>1, <2>2 DEF Connections
  <2>3. CASE Again(k) /\ flags = {"rexmit"}
    <3>1. old.nrtx + 1 \in 0 .. UIP_MAXRTX
      BY <1>1, <2>3, StackAssumption DEF Connections
    <3>2. k = [old EXCEPT !.nrtx = old.nrtx + 1]
      BY <2>3
    <3> QED BY <1>1, <2>3, <3>1, <3>2 DEF Connections
  <2> QED BY <1>2, <2>1, <2>2, <2>3
<1>4. k.arrived = old.arrived /\ k.didconnect = old.didconnect
  BY <1>1, <1>2 DEF Connections
<1>5. /\ flags \in SUBSET Flags /\ "connected" \notin flags /\ "acked" \notin flags
      /\ <<>> \in Seq(Char)
      /\ flags # {"timedout"} => flags \subseteq {"acked", "newdata", "rexmit", "poll"}
  BY <1>2 DEF Flags
<1>6. Event(c, k, flags, <<>>)
  BY <1>2
<1>7. /\ connected' \in BOOLEAN /\ authenticated' \in -2 .. PasswordLength
      /\ sendfifo' \in Ring /\ recvfifo' \in Ring
      /\ conn' \in [Conns -> Connections]
      /\ options' \in Nat /\ typed' \in 0 .. MaxIn
      /\ Ordered(recvfifo)' /\ Open'
      /\ Filled(recvfifo, recvfifo')
  BY <1>1, <1>3, <1>4, <1>5, <1>6, EventTypes
<1>8. TypeOK'
  BY <1>1, <1>7 DEF TypeOK
<1>9. (OneSession /\ Undisturbed)'
  <2>1. CASE intruded
    BY <1>1, <2>1 DEF OneSession, Undisturbed
  <2>2. CASE ~intruded /\ flags = {"timedout"}
    <3>1. k.tcp # "established"
      BY <1>3, <2>2
    <3>2. /\ conn'[c].tcp # "established"
          /\ \A d \in Conns \ {c} : conn'[d] = conn[d]
      BY <1>1, <1>3, <1>5, <1>6, <3>1, EventEnds
    <3>3. \A d \in Conns : d # c => ~Serves(d)
      BY <1>1, <2>2 DEF Inv, OneSession
    <3>4. ~Serves(c)'
      BY <3>2 DEF Serves
    <3> QED BY <1>1, <3>2, <3>3, <3>4, SilentAfter
  <2>3. CASE ~intruded /\ flags # {"timedout"}
    BY <1>1, <1>3, <1>4, <1>5, <1>6, <2>3, EventContinues
  <2> QED BY <2>1, <2>2, <2>3
<1> QED BY <1>7, <1>8, <1>9, FilledKeeps DEF Inv

LEMMA WaitExpiresKeeps ==
  ASSUME Inv, NEW c \in Conns, WaitExpires(c) PROVE Inv' /\ KeysKept
<1> DEFINE j == [conn[c] EXCEPT !.tcp = "closed"]
<1>1. /\ TypeOK /\ conn' = [conn EXCEPT ![c] = j]
      /\ j \in Connections /\ j.tcp = "closed"
  BY DEF Inv, TypeOK, WaitExpires, Connections
<1>2. UNCHANGED <<connected, authenticated, sendfifo, recvfifo, console, written, typed,
                  opens, first, got, options, intruded>>
  BY DEF WaitExpires, statics, bounds
<1> HIDE DEF j
<1>3. /\ conn' \in [Conns -> Connections] /\ conn'[c].tcp = "closed"
      /\ \A d \in Conns \ {c} : conn'[d] = conn[d]
  BY <1>1 DEF TypeOK
<1>4. TypeOK' /\ Ordered(recvfifo)' /\ KeysKept
  BY <1>1, <1>2, <1>3 DEF Inv, TypeOK, KeysKept
<1>5. Open'
  BY <1>3 DEF Inv, Open
<1>6. (OneSession /\ Undisturbed)'
  <2>1. ~Serves(c)'
    BY <1>3 DEF Serves
  <2> QED BY <1>2, <1>3, <2>1, SilentAfter
<1> QED BY <1>4, <1>5, <1>6 DEF Inv
(* The console.                                                            *)
LEMMA addsendfifoKeeps ==
  ASSUME Inv, NEW n \in 1 .. 2, telnetd_addsendfifo(n) PROVE Inv' /\ KeysKept
<1> DEFINE f == sendfifo
           g == puttelnetfifostring(sendfifo, n)
<1>1. /\ TypeOK /\ f \in Ring /\ n \in Nat /\ options \in Nat
      /\ console = "free" /\ connected /\ written + n <= MaxOut /\ written \in 0 .. MaxOut
      /\ sendfifo' = g
      /\ console' = IF fifoused(g) > FIFOACTIONTHRESHOLD THEN "waiting" ELSE "free"
      /\ written' = written + n
      /\ UNCHANGED <<connected, authenticated, recvfifo, conn, typed, opens,
                     first, got, options, intruded>>
  BY DEF Inv, TypeOK, telnetd_addsendfifo, Accepted
<1>2. g \in Ring /\ g.seen = f.seen + n
  BY <1>1, StringTypes
<1> HIDE DEF g
<1>3. TypeOK'
  <2>1. written' \in 0 .. MaxOut
    BY <1>1, BoundAssumption
  <2>2. console' \in {"free", "waiting"}
    BY <1>1
  <2> QED BY <1>1, <1>2, <2>1, <2>2 DEF TypeOK
<1>4. Ordered(recvfifo)' /\ KeysKept
  BY <1>1 DEF Inv, KeysKept
<1>5. Open' /\ OneSession' /\ \A c \in Conns : Serves(c)' <=> Serves(c)
  BY <1>1 DEF Inv, Open, OneSession, Serves
<1>6. ASSUME ~intruded, options <= Spare, NEW c \in Conns, Serves(c)
      PROVE  Session(c)'
  <2>1. Session(c) /\ Under(f, conn[c]) /\ Ordered(f) /\ Holds(f)
    BY <1>6 DEF Inv, Undisturbed, Session, Under, Sends
  <2>2. /\ fifoused(f) \in Int /\ fifoaheadused(f) \in Int /\ f.seen \in Int
        /\ FIFOSIZE \in Int /\ FIFOACTIONTHRESHOLD \in Int
    BY <1>1, RingFields, RingAssumption DEF Slots
  <2>3. fifoused(f) <= FIFOACTIONTHRESHOLD + options
    BY <1>1, <2>1 DEF Session
  <2>4. fifoused(f) + n <= FIFOSIZE - 1
    <3>1. FIFOACTIONTHRESHOLD + 2 + options <= FIFOSIZE - 1
      BY <1>1, <1>6, SpareIs
    <3> QED BY <1>1, <2>2, <2>3, <3>1
  <2>5. /\ Ordered(g) /\ Holds(g)
        /\ fifoused(g) = fifoused(f) + n
        /\ fifoaheadused(g) = fifoaheadused(f) + n
    BY <1>1, <2>1, <2>4, StringHolds DEF g
  <2>6. Base(g) = Base(f)
    BY <1>1, <1>2, <2>2, <2>5 DEF Base
  <2>7. Under(g, conn[c])
    <3>1. conn[c].waiting_for = fifoused(f) - fifoaheadused(f)
      BY <2>1 DEF Under, Sends
    <3>2. Sends(g, conn[c].waiting_for)
      BY <1>1, <2>2, <2>5, <3>1 DEF Sends
    <3> QED BY <2>1, <2>6, <3>2 DEF Under
  <2>8. fifoused(g) <= FIFOACTIONTHRESHOLD + 2 + options
    BY <1>1, <2>2, <2>3, <2>5
  <2>9. console' = "free" => fifoused(g) <= FIFOACTIONTHRESHOLD + options
    BY <1>1, <2>2, <2>5
  <2> QED BY <1>1, <2>1, <2>6, <2>7, <2>8, <2>9 DEF Session
<1>7. Undisturbed'
  BY <1>1, <1>5, <1>6 DEF Undisturbed
<1> QED BY <1>3, <1>4, <1>5, <1>7 DEF Inv

LEMMA WaitOverKeeps == ASSUME Inv, WaitOver PROVE Inv' /\ KeysKept
<1>1. /\ TypeOK /\ (~connected \/ fifoused(sendfifo) = 0) /\ console' = "free"
      /\ UNCHANGED <<connected, authenticated, sendfifo, recvfifo, conn, written, typed,
                     opens, first, got, options, intruded>>
  BY DEF Inv, WaitOver, Over, statics, bounds
<1>2. TypeOK' /\ Ordered(recvfifo)' /\ KeysKept
  BY <1>1 DEF Inv, TypeOK, KeysKept
<1>3. Open' /\ OneSession' /\ \A c \in Conns : Serves(c)' <=> Serves(c)
  BY <1>1 DEF Inv, Open, OneSession, Serves
<1>4. ASSUME ~intruded, options <= Spare, NEW c \in Conns, Serves(c)
      PROVE  Session(c)'
  <2>1. Session(c)
    BY <1>4 DEF Inv, Undisturbed
  <2>2. connected => fifoused(sendfifo) <= FIFOACTIONTHRESHOLD + options
    BY <1>1, RingAssumption DEF TypeOK
  <2> QED BY <1>1, <2>1, <2>2 DEF Session
<1>5. Undisturbed'
  BY <1>1, <1>3, <1>4 DEF Undisturbed
<1> QED BY <1>2, <1>3, <1>5 DEF Inv

LEMMA getrecvfifoKeeps == ASSUME Inv, telnetd_getrecvfifo PROVE Inv' /\ KeysKept
<1>1. /\ TypeOK /\ recvfifo \in Ring /\ recvfifo' = Read(recvfifo)
      /\ UNCHANGED <<connected, authenticated, sendfifo, conn, console, written, typed,
                     opens, first, got, options, intruded>>
  BY DEF Inv, TypeOK, telnetd_getrecvfifo, bounds
<1>2. Ordered(recvfifo)' /\ recvfifo'.seen = recvfifo.seen
  BY <1>1, ReadKeeps
<1>3. TypeOK' /\ KeysKept
  BY <1>1, <1>2 DEF TypeOK, KeysKept, Ordered
<1>4. Open' /\ OneSession' /\ Undisturbed'
  BY <1>1 DEF Inv, Open, OneSession, Undisturbed, Serves, Session
<1> QED BY <1>2, <1>3, <1>4 DEF Inv

-------------------------------------------------------------------------------
LEMMA NextKeeps == Inv /\ [Next]_vars => Inv' /\ (KeysKept \/ UNCHANGED vars)
<1> SUFFICES ASSUME Inv, [Next]_vars PROVE Inv' /\ (KeysKept \/ UNCHANGED vars)
  OBVIOUS
<1>1. ASSUME NEW n \in 1 .. 2, telnetd_addsendfifo(n) PROVE Inv' /\ KeysKept
  BY <1>1, addsendfifoKeeps
<1>2. CASE WaitOver
  BY <1>2, WaitOverKeeps
<1>3. CASE telnetd_getrecvfifo
  BY <1>3, getrecvfifoKeeps
<1>4. ASSUME NEW c \in Conns, Network(c) PROVE Inv' /\ KeysKept
  <2>1. CASE PeerConnects(c)
    BY <2>1, PeerConnectsKeeps
  <2>2. CASE Segment(c)
    BY <2>2, SegmentKeeps
  <2>3. CASE PeerGets(c)
    BY <2>3, PeerGetsKeeps
  <2>4. CASE PeerEnds(c) \/ PeerCloses(c)
    <3>1. \E t \in {"closed", "timewait"} :
            /\ Event(c, [conn[c] EXCEPT !.tcp = t], {"close"}, <<>>)
            /\ UNCHANGED <<console, written, opens, first, got, intruded>>
      BY <2>4 DEF PeerEnds, PeerCloses
    <3> QED BY <3>1, EndKeeps
  <2>5. CASE Timer(c)
    BY <2>5, TimerKeeps
  <2>6. CASE WaitExpires(c)
    BY <2>6, WaitExpiresKeeps
  <2> QED BY <1>4, <2>1, <2>2, <2>3, <2>4, <2>5, <2>6 DEF Network
<1>5. CASE UNCHANGED vars
  <2>1. UNCHANGED <<connected, authenticated, sendfifo, recvfifo, conn, console, written,
                    typed, opens, first, got, options, intruded>>
    BY <1>5 DEF vars
  <2>2. TypeOK' /\ Ordered(recvfifo)' /\ Open' /\ OneSession' /\ Undisturbed'
    BY <2>1 DEF Inv, TypeOK, Open, OneSession, Undisturbed, Serves, Session
  <2> QED BY <1>5, <2>2 DEF Inv
<1> QED BY <1>1, <1>2, <1>3, <1>4, <1>5 DEF Next

LEMMA SpecInv == Spec => []Inv
<1>1. Inv /\ [Next]_vars => Inv'
  BY NextKeeps
<1> QED BY InitInv, <1>1, PTL DEF Spec

(* telnetd.c: the state of the console on telnet has its types.            *)
THEOREM SpecTypeOK == Spec => []TypeOK
<1>1. Inv => TypeOK
  BY DEF Inv
<1> QED BY SpecInv, <1>1, PTL

(* telnetd_putsendfifo, senddata, acked: a session no second connection    *)
(* disturbs has each byte of the console, in order and once, for every     *)
(* size of the ring and of a segment, and every loss.                      *)
THEOREM SpecMirrorsAlone == Spec => []MirrorsAlone
<1>1. Inv => MirrorsAlone
  <2> SUFFICES ASSUME Inv, NEW c \in Conns, Serves(c), ~intruded, options <= Spare
               PROVE  Complete(c)
    BY DEF MirrorsAlone
  <2> DEFINE b == Base(sendfifo)
             m == b - first + Arrived(conn[c])
  <2>1. Session(c) /\ conn[c] \in Connections /\ first \in Nat /\ sendfifo \in Ring
    BY DEF Inv, Undisturbed, TypeOK
  <2>2. /\ conn[c].waiting_for \in Nat
        /\ fifoused(sendfifo) = 0 => conn[c].waiting_for = 0
        /\ b \in Int /\ fifoused(sendfifo) \in Nat
    BY <2>1, UnderIs DEF Session
  <2>3. first <= b /\ got[c] = [i \in 1 .. m |-> first + i]
    BY <2>1 DEF Session
  <2>4. Arrived(conn[c]) \in Nat
    BY <2>2 DEF Arrived
  <2>5. m \in Nat
    BY <2>1, <2>2, <2>3, <2>4
  <2>6. fifoused(sendfifo) = 0 => m = sendfifo.seen - first
    <3>1. sendfifo.seen \in Nat
      BY <2>1, RingFields
    <3> QED BY <2>1, <2>2, <3>1 DEF Base, Arrived
  <2> HIDE DEF m
  <2>7. Len(got[c]) = m
    BY <2>3, <2>5
  <2> QED BY <2>3, <2>6, <2>7 DEF Complete
<1> QED BY SpecInv, <1>1, PTL

(* newdata, telnetd_getrecvfifo: a key is lost only when the input ring is *)
(* full, wherever its second tail stands.                                  *)
THEOREM SpecRoomForKeys == Spec => RoomForKeys
<1>1. Inv /\ [Next]_vars => [KeysKept]_vars
  BY NextKeeps
<1>2. Spec => [][KeysKept]_vars
  BY SpecInv, <1>1, PTL DEF Spec
<1> QED BY <1>2 DEF RoomForKeys, KeysKept
===============================================================================
