--------------------------- MODULE WebRelayProofs ---------------------------
(***************************************************************************)
(* Proofs about WebRelay, for every number of connections, every segment   *)
(* size and window, every length of strings and forms and every patience:  *)
(* nothing refers to memory of a command that has returned, the browser    *)
(* gets what the program wrote, and WEBCON names the connection that has   *)
(* the relay.                                                              *)
(***************************************************************************)
EXTENDS WebRelay, SequenceTheorems, WellFoundedInduction, TLAPS

\* n bytes of the page of connection id, from byte q on.
Stretch(id, q, n) == [i \in 1..n |-> <<id, q + i - 1>>]

\* How many bytes of its page a connection has had acknowledged, and where the
\* string lies that the relay has for it.
Base(s) == Len(s.page) - (IF s.arrived THEN Len(s.outstanding) ELSE 0)
From(s) == IF s.output \in {"begin", "header"} THEN 1 ELSE Base(s)
LeftOK(s, r) == r.left = Stretch(s.conn_id, From(s), s.wrote + 1 - From(s))

\* What the browser has, what is under way, and how far the program wrote.
PageOK(s) ==
  /\ s.page = Stretch(s.conn_id, 0, Len(s.page))
  /\ s.outstanding = Stretch(s.conn_id, Base(s), Len(s.outstanding))
  /\ Base(s) \in Nat /\ Base(s) + Len(s.outstanding) <= s.wrote + 1
  /\ s.output \in {"none", "begin"} => Base(s) = 0 /\ s.outstanding = <<>> /\ s.wrote = 0
  /\ s.output = "header" => Base(s) = 0 /\ Len(s.outstanding) = 1
  /\ s.output = "relay" => Base(s) > 0 /\ s.outstanding = <<>>
  /\ s.output = "string" => Base(s) > 0 /\ Len(s.outstanding) = s.slen /\ s.slen > 0

\* How far the request of a connection is; "begin" lasts for no call.
RequestIn(s) ==
  /\ s.input \in {"headers", "wait"} <=> s.output = "none"
  /\ s.special => s.output # "none" /\ s.reply # "503"
  /\ ~s.special => /\ s.output \in {"none", "begin", "header"} /\ s.input # "hold"
                   /\ s.output # "none" => s.reply # "200" /\ s.content_length = 0
  /\ s.output = "none" => s.reply = "200" /\ s.inbuf = <<>>
  /\ s.input = "read" /\ s.content_length > 0 => Len(s.inbuf) < Least(BUF, s.content_length)

Patient(s) == s.timer < IdlePolls /\ (s.input = "wait" => s.timer <= WaitPolls)
Owner(s, r) == s.special <=> r.active /\ r.conn_id = s.conn_id
Shut(s) == s.output = "none" /\ s.input = "headers" /\ s.page = <<>> /\ s.outstanding = <<>>

OpenOK(s, r) ==
  /\ PageOK(s) /\ RequestIn(s) /\ Patient(s) /\ s.output # "begin"
  /\ s.special => LeftOK(s, r)
  /\ s.unsent <= s.form

SlotOK(s, r) ==
  /\ s.tcp = "free" <=> s.conn_id = 0
  /\ Owner(s, r)
  /\ IF s.tcp = "open" THEN OpenOK(s, r) ELSE Shut(s)
  /\ PasswordSet \/ (s.reply # "401" /\ (s.tcp = "closing" => ~s.special))

RelayOK(r) ==
  /\ r.left # <<>> => call.op = "out" /\ r.active /\ r.conn_id = wc
  /\ r.posting => call.op = "post" /\ r.active /\ r.conn_id = wc
  /\ r.active => r.conn_id # 0

ProgramOK == call # Idle => basic_running
IdsOK ==
  /\ \A c \in Slots : conns[c].conn_id <= cur_conn_id
  /\ \A c, d \in Slots : conns[c].conn_id = conns[d].conn_id /\ conns[c].conn_id # 0 => c = d
  /\ relay.active => relay.conn_id <= cur_conn_id
Held == relay.active => \E c \in Slots : conns[c].special
Inv ==
  /\ TypeOK /\ ProgramOK /\ IdsOK /\ RelayOK(relay)
  /\ \A c \in Slots : SlotOK(conns[c], relay)
  /\ PasswordSet \/ Held

-----------------------------------------------------------------------------
(* Sequences and loops *)

LEMMA Sizes ==
  /\ MSS \in Nat \ {0} /\ BUF \in Nat \ {0} /\ WaitPolls \in Nat /\ IdlePolls \in Nat
  /\ WaitPolls + 1 < IdlePolls /\ UIP_MAXRTX \in Nat /\ MaxBody \in Nat
  /\ MaxConns \in Nat /\ MaxOut \in Nat /\ MaxRuns \in Nat /\ PasswordSet \in BOOLEAN
  /\ \A w \in Windows : w \in 1..MSS
BY SizeAssumption

LEMMA LeastIs ==
  ASSUME NEW a \in Nat, NEW b \in Nat
  PROVE  Least(a, b) \in Nat /\ Least(a, b) <= a /\ Least(a, b) <= b
         /\ (Least(a, b) = a \/ Least(a, b) = b)
BY DEF Least

\* The front of a sequence, and what is left of it.
LEMMA Cut ==
  ASSUME NEW S, NEW s \in Seq(S), NEW n \in 0..Len(s)
  PROVE  /\ SubSeq(s, 1, n) \in Seq(S) /\ Len(SubSeq(s, 1, n)) = n
         /\ Drop(s, n) \in Seq(S) /\ Len(Drop(s, n)) = Len(s) - n
         /\ \A i \in 1..n : SubSeq(s, 1, n)[i] = s[i]
         /\ \A i \in 1..(Len(s) - n) : Drop(s, n)[i] = s[n + i]
<1>1. Len(s) \in Nat /\ n \in Nat /\ n <= Len(s)
  OBVIOUS
<1>2. /\ SubSeq(s, 1, n) \in Seq(S) /\ Len(SubSeq(s, 1, n)) = n
      /\ \A i \in 1..n : SubSeq(s, 1, n)[i] = s[i]
  BY <1>1
<1>3. /\ SubSeq(s, n + 1, Len(s)) \in Seq(S)
      /\ Len(SubSeq(s, n + 1, Len(s))) = Len(s) - n
      /\ \A i \in 1..(Len(s) - n) : SubSeq(s, n + 1, Len(s))[i] = s[n + i]
  BY <1>1
<1> QED BY <1>2, <1>3 DEF Drop

\* A stretch of a page, its bytes, its front and what is left of it.
LEMMA StretchIs ==
  ASSUME NEW id, NEW q \in Nat, NEW n \in Nat
  PROVE  /\ Len(Stretch(id, q, n)) = n
         /\ DOMAIN Stretch(id, q, n) = 1..n
         /\ \A i \in 1..n : Stretch(id, q, n)[i] = <<id, q + i - 1>>
         /\ Stretch(id, q, n) = <<>> <=> n = 0
         /\ \A S : (\A i \in 1..n : <<id, q + i - 1>> \in S) => Stretch(id, q, n) \in Seq(S)
<1>1. ASSUME NEW S, \A i \in 1..n : <<id, q + i - 1>> \in S
      PROVE  Stretch(id, q, n) \in Seq(S)
  BY <1>1 DEF Stretch
<1>2. Len(Stretch(id, q, n)) = n /\ DOMAIN Stretch(id, q, n) = 1..n
  <2> DEFINE S == {<<id, q + i - 1>> : i \in 1..n}
  <2>1. \A i \in 1..n : <<id, q + i - 1>> \in S
    OBVIOUS
  <2> HIDE DEF S
  <2>2. Stretch(id, q, n) \in Seq(S)
    BY <1>1, <2>1
  <2>3. DOMAIN Stretch(id, q, n) = 1..n
    BY DEF Stretch
  <2> QED BY <2>2, <2>3
<1>3. \A i \in 1..n : Stretch(id, q, n)[i] = <<id, q + i - 1>>
  BY DEF Stretch
<1>4. Stretch(id, q, n) = <<>> <=> n = 0
  <2>1. CASE n = 0
    BY <2>1 DEF Stretch
  <2>2. CASE n # 0
    <3>1. Len(<<>>) = 0
      OBVIOUS
    <3> QED BY <1>2, <2>2, <3>1
  <2> QED BY <2>1, <2>2
<1> QED BY <1>1, <1>2, <1>3, <1>4

\* A sequence is a stretch when its bytes are.
LEMMA IsStretch ==
  ASSUME NEW S, NEW s \in Seq(S), NEW id, NEW q \in Nat,
         \A i \in 1..Len(s) : s[i] = <<id, q + i - 1>>
  PROVE  s = Stretch(id, q, Len(s))
<1>1. Len(s) \in Nat /\ s = [i \in 1..Len(s) |-> s[i]]
  OBVIOUS
<1> QED BY <1>1 DEF Stretch

LEMMA StretchCut ==
  ASSUME NEW id, NEW q \in Nat, NEW n \in Nat, NEW m \in 0..n
  PROVE  /\ SubSeq(Stretch(id, q, n), 1, m) = Stretch(id, q, m)
         /\ Drop(Stretch(id, q, n), m) = Stretch(id, q + m, n - m)
<1> DEFINE s == Stretch(id, q, n)
           S == {<<id, q + i - 1>> : i \in 1..n}
<1>0. \A i \in 1..n : <<id, q + i - 1>> \in S
  OBVIOUS
<1> HIDE DEF S
<1>1. s \in Seq(S) /\ Len(s) = n /\ \A i \in 1..n : s[i] = <<id, q + i - 1>>
  BY ONLY <1>0, q \in Nat, n \in Nat, StretchIs DEF s
<1> HIDE DEF s
<1>2. m \in Nat /\ n - m \in Nat /\ q + m \in Nat /\ m \in 0..Len(s)
  BY <1>1
<1>3. /\ SubSeq(s, 1, m) \in Seq(S) /\ Len(SubSeq(s, 1, m)) = m
      /\ Drop(s, m) \in Seq(S) /\ Len(Drop(s, m)) = n - m
      /\ \A i \in 1..m : SubSeq(s, 1, m)[i] = s[i]
      /\ \A i \in 1..(n - m) : Drop(s, m)[i] = s[m + i]
  BY <1>1, <1>2, Cut
<1>4. \A i \in 1..m : i \in 1..n
  BY <1>2
<1>5. \A i \in 1..m : SubSeq(s, 1, m)[i] = <<id, q + i - 1>>
  BY <1>1, <1>3, <1>4
<1>6. \A i \in 1..(n - m) : Drop(s, m)[i] = <<id, (q + m) + i - 1>>
  <2>1. ASSUME NEW i \in 1..(n - m)
        PROVE  m + i \in 1..n /\ q + (m + i) - 1 = (q + m) + i - 1
    BY <1>2
  <2> QED BY <1>1, <1>3, <2>1
<1>7. SubSeq(s, 1, m) = Stretch(id, q, m)
  BY ONLY <1>2, <1>3, <1>5, IsStretch
<1>8. Drop(s, m) = Stretch(id, q + m, n - m)
  BY ONLY <1>2, <1>3, <1>6, IsStretch
<1> QED BY <1>7, <1>8 DEF s

\* The page grows by a stretch that begins where it ends.
LEMMA StretchJoin ==
  ASSUME NEW id, NEW q \in Nat, NEW n \in Nat, NEW m \in Nat
  PROVE  Stretch(id, q, n) \o Stretch(id, q + n, m) = Stretch(id, q, n + m)
<1> DEFINE a == Stretch(id, q, n)
           b == Stretch(id, q + n, m)
           S == {<<id, q + i - 1>> : i \in 1..(n + m)}
<1>1. /\ Len(a) = n /\ \A i \in 1..n : a[i] = <<id, q + i - 1>>
      /\ Len(b) = m /\ \A i \in 1..m : b[i] = <<id, (q + n) + i - 1>>
  <2>1. q + n \in Nat
    OBVIOUS
  <2> QED BY ONLY <2>1, q \in Nat, n \in Nat, m \in Nat, StretchIs DEF a, b
<1>2. a \in Seq(S)
  <2>1. \A i \in 1..n : i \in 1..(n + m)
    OBVIOUS
  <2>2. \A i \in 1..n : <<id, q + i - 1>> \in S
    BY <2>1
  <2> HIDE DEF S
  <2> QED BY <2>2, StretchIs
<1>3. b \in Seq(S)
  <2>1. ASSUME NEW i \in 1..m
        PROVE  n + i \in 1..(n + m) /\ (q + n) + i - 1 = q + (n + i) - 1
    OBVIOUS
  <2>2. \A i \in 1..m : <<id, (q + n) + i - 1>> \in S
    BY <2>1
  <2>3. q + n \in Nat
    OBVIOUS
  <2> HIDE DEF S
  <2> QED BY <2>2, <2>3, StretchIs
<1> HIDE DEF a, b, S
<1>4. /\ a \o b \in Seq(S) /\ Len(a \o b) = n + m
      /\ \A i \in 1..(n + m) : (a \o b)[i] = IF i <= n THEN a[i] ELSE b[i - n]
  BY <1>1, <1>2, <1>3, ConcatProperties
<1>5. ASSUME NEW i \in 1..(n + m) PROVE (a \o b)[i] = <<id, q + i - 1>>
  <2>0. i \in 1..n \/ i > n
    OBVIOUS
  <2>1. CASE i \in 1..n
    BY <1>1, <1>4, <2>1
  <2>2. CASE i > n
    <3>1. i - n \in 1..m /\ (q + n) + (i - n) - 1 = q + i - 1
      BY <2>2
    <3>2. (a \o b)[i] = b[i - n]
      BY <1>4, <2>2
    <3> QED BY <1>1, <3>1, <3>2
  <2> QED BY <2>0, <2>1, <2>2
<1>6. a \o b = Stretch(id, q, Len(a \o b))
  BY ONLY <1>4, <1>5, q \in Nat, IsStretch
<1> QED BY <1>4, <1>6 DEF a, b

\* What holds at the start and is kept by each of n turns holds at the end.
LEMMA Turns ==
  ASSUME NEW n \in Nat, NEW T, 0 \in T, \A i \in 1 .. n : i - 1 \in T => i \in T
  PROVE  \A i \in 0 .. n : i \in T
<1> DEFINE S == {i \in 0 .. n : i \notin T}
           R == OpToRel(<, Nat)
<1> SUFFICES ASSUME S # {} PROVE FALSE
  OBVIOUS
<1>0. S \subseteq Nat
  OBVIOUS
<1>1. IsWellFoundedOn(R, Nat)
  BY NatLessThanWellFounded
<1>2. \A x, y \in Nat : y < x => <<y, x>> \in R
  BY DEF OpToRel
<1> HIDE DEF R
<1>3. \E x \in S : \A y \in S : ~(<<y, x>> \in R)
  <2> HIDE DEF S
  <2> QED BY ONLY S # {}, <1>0, <1>1, WFMin
<1>4. PICK m \in S : \A y \in S : ~(<<y, m>> \in R)
  BY <1>3
<1>5. m \in 1 .. n /\ m - 1 \in 0 .. n /\ m - 1 < m /\ m \notin T
  BY <1>4
<1>6. ~(m - 1 \in S)
  <2>1. m \in Nat /\ m - 1 \in Nat
    BY <1>5
  <2> HIDE DEF S
  <2> QED BY <1>2, <1>4, <1>5, <2>1
<1>7. m - 1 \in T
  BY <1>5, <1>6
<1> QED BY <1>5, <1>7

-----------------------------------------------------------------------------
(* A call of httpd_appcall *)

Flags == {"newdata", "acked", "poll", "rexmit", "closed"}
Midway == [s: Slot, r: Relays, ev: SUBSET Flags, new: Seq(FormBytes),
           flag: {"none", "close", "abort"}]

\* The page in a call: an acknowledgement has ended what was under way, and the
\* relay still points to what has just been taken.
PageIn(x) ==
  LET s == x.s
  IN  IF "acked" \in x.ev
      THEN /\ s.page = Stretch(s.conn_id, 0, Len(s.page))
           /\ s.outstanding = <<>> /\ ~s.arrived /\ Len(s.page) <= s.wrote + 1
           /\ \/ /\ s.output = "header" /\ Len(s.page) = 1
                 /\ s.special => x.r.left = Stretch(s.conn_id, 1, s.wrote)
              \/ /\ s.output = "string" /\ s.slen \in 1..(Len(s.page) - 1)
                 /\ s.special => x.r.left = Stretch(s.conn_id, Len(s.page) - s.slen,
                                                    s.wrote + 1 - (Len(s.page) - s.slen))
      ELSE PageOK(s) /\ (s.special => LeftOK(s, x.r))

\* A call under way that has not asked anything of uIP.
Going(x) ==
  /\ x.s.tcp = "open" /\ x.s.conn_id # 0 /\ x.flag = "none"
  /\ RequestIn(x.s) /\ PageIn(x) /\ Owner(x.s, x.r) /\ RelayOK(x.r)
  /\ x.s.timer < IdlePolls /\ x.s.unsent <= x.s.form
  /\ PasswordSet \/ x.s.reply # "401"

\* Another connection's relay is left alone, and is not made up.
Frame(x, y) ==
  /\ y.s.conn_id = x.s.conn_id
  /\ x.r.active /\ x.r.conn_id # x.s.conn_id => y.r = x.r
  /\ y.r.active /\ y.r.conn_id # x.s.conn_id => x.r.active /\ x.r.conn_id = y.r.conn_id

LEMMA FrameTwice ==
  ASSUME NEW x, NEW y, NEW z, Frame(x, y), Frame(y, z)
  PROVE  Frame(x, z)
BY DEF Frame

\* The relay as Admit hands it to connection id.
Fresh(id) == [active |-> TRUE, conn_id |-> id, term |-> FALSE, left |-> <<>>,
              posting |-> FALSE, room |-> 0, got |-> <<>>]
Cleared(r) == [active |-> FALSE, conn_id |-> r.conn_id, term |-> FALSE, left |-> <<>>,
               posting |-> FALSE, room |-> 0, got |-> <<>>]

LEMMA MidwayParts ==
  ASSUME NEW x \in Midway
  PROVE  /\ x.s \in Slot /\ x.r \in Relays /\ x.ev \subseteq Flags
         /\ x.new \in Seq(FormBytes) /\ x.flag \in {"none", "close", "abort"}
BY DEF Midway

LEMMA RelayIs ==
  ASSUME NEW r \in Relays
  PROVE  r = [active |-> r.active, conn_id |-> r.conn_id, term |-> r.term, left |-> r.left,
              posting |-> r.posting, room |-> r.room, got |-> r.got]
BY DEF Relays

LEMMA RelayWith ==
  ASSUME NEW r \in Relays, NEW e \in Seq(PageBytes), NEW g \in Seq(FormBytes), NEW z \in Nat
  PROVE  [r EXCEPT !.active = FALSE, !.term = FALSE, !.left = e, !.posting = FALSE,
                   !.room = z, !.got = g] \in Relays
BY DEF Relays

LEMMA ResetIs ==
  ASSUME NEW r \in Relays
  PROVE  reset_basic_state(r) = Cleared(r) /\ Cleared(r) \in Relays
<1> DEFINE q == reset_basic_state(r)
<1>1. /\ q \in Relays /\ q.active = FALSE /\ q.conn_id = r.conn_id /\ q.term = FALSE
      /\ q.left = <<>> /\ q.posting = FALSE /\ q.room = 0 /\ q.got = <<>>
  <2>1. <<>> \in Seq(PageBytes) /\ <<>> \in Seq(FormBytes) /\ 0 \in Nat
    OBVIOUS
  <2>2. q \in Relays
    BY ONLY <2>1, RelayWith, r \in Relays DEF reset_basic_state
  <2>3. q.active = FALSE /\ q.term = FALSE /\ q.posting = FALSE
    BY DEF Relays, reset_basic_state
  <2>4. q.conn_id = r.conn_id /\ q.left = <<>> /\ q.room = 0 /\ q.got = <<>>
    BY DEF Relays, reset_basic_state
  <2> QED BY <2>2, <2>3, <2>4
<1> HIDE DEF q
<1>2. q = Cleared(r)
  BY <1>1, RelayIs DEF Cleared
<1> QED BY <1>1, <1>2 DEF q

\* What Admit does to the slot, and to the relay.
Admitted(s) == [s EXCEPT !.input = "read", !.output = "begin", !.special = TRUE]
Refused(s) == [s EXCEPT !.input = "read", !.output = "begin", !.reply = "503",
                        !.content_length = 0]

LEMMA AdmitIs ==
  ASSUME NEW x \in Midway
  PROVE  /\ Admitted(x.s) \in Slot /\ Refused(x.s) \in Slot /\ Fresh(x.s.conn_id) \in Relays
         /\ \/ Admit(x) = x /\ (x.s.input = "wait" => ~RelayFree(x) /\ x.s.timer <= WaitPolls)
            \/ /\ x.s.input = "wait" /\ RelayFree(x)
               /\ Admit(x) = [x EXCEPT !.s = Admitted(x.s), !.r = Fresh(x.s.conn_id)]
            \/ /\ x.s.input = "wait" /\ ~RelayFree(x)
               /\ Admit(x) = [x EXCEPT !.s = Refused(x.s), !.r = x.r]
<1>1. x.s \in Slot /\ x.r \in Relays
  BY MidwayParts
<1>2. Admitted(x.s) \in Slot /\ Refused(x.s) \in Slot
  <2>1. Admitted(x.s) \in Slot
    BY <1>1 DEF Slot, Admitted
  <2>2. 0 \in 0..MaxBody
    BY Sizes
  <2>3. Refused(x.s) \in Slot
    BY <1>1, <2>2 DEF Slot, Refused
  <2> QED BY <2>1, <2>3
<1>3. Fresh(x.s.conn_id) \in Relays
  BY <1>1 DEF Slot, Relays, Fresh
<1>4. x.s.timer \in Int /\ WaitPolls \in Int
  BY <1>1, Sizes DEF Slot
<1>5. CASE x.s.input # "wait" \/ ~(RelayFree(x) \/ x.s.timer > WaitPolls)
  BY <1>2, <1>3, <1>4, <1>5 DEF Admit
<1>6. CASE x.s.input = "wait" /\ RelayFree(x)
  <2>1. [reset_basic_state(x.r) EXCEPT !.active = TRUE, !.conn_id = x.s.conn_id]
          = Fresh(x.s.conn_id)
    <3> DEFINE q == [reset_basic_state(x.r) EXCEPT !.active = TRUE, !.conn_id = x.s.conn_id]
    <3>1. x.s.conn_id \in 0..MaxConns
      BY <1>1 DEF Slot
    <3>2. q = [Cleared(x.r) EXCEPT !.active = TRUE, !.conn_id = x.s.conn_id]
      BY <1>1, ResetIs
    <3>3. q.active = TRUE /\ q.conn_id = x.s.conn_id /\ q.term = FALSE
      BY <3>2 DEF Cleared
    <3>4. q.left = <<>> /\ q.posting = FALSE /\ q.room = 0 /\ q.got = <<>>
      BY <3>2 DEF Cleared
    <3>5. q \in Relays
      <4>1. \A p \in Relays, id \in 0..MaxConns :
              [p EXCEPT !.active = TRUE, !.conn_id = id] \in Relays
        BY DEF Relays
      <4>2. Cleared(x.r) \in Relays
        BY <1>1, ResetIs
      <4> QED BY ONLY <3>1, <3>2, <4>1, <4>2
    <3> HIDE DEF q
    <3>6. q = Fresh(x.s.conn_id)
      BY <3>3, <3>4, <3>5, RelayIs DEF Fresh
    <3> QED BY <3>6 DEF q
  <2>2. Admit(x) = [x EXCEPT !.s = Admitted(x.s),
                             !.r = [reset_basic_state(x.r) EXCEPT !.active = TRUE,
                                                                  !.conn_id = x.s.conn_id]]
    BY <1>1, <1>6 DEF Admit, Admitted, Midway, Slot
  <2> QED BY <1>2, <1>3, <1>6, <2>1, <2>2
<1>7. CASE x.s.input = "wait" /\ ~RelayFree(x) /\ x.s.timer > WaitPolls
  <2>1. Admit(x) = [x EXCEPT !.s = Refused(x.s), !.r = x.r]
    BY <1>1, <1>7 DEF Admit, Refused, Midway, Slot
  <2> QED BY <1>2, <1>3, <1>7, <2>1
<1> QED BY <1>5, <1>6, <1>7

\* The fields that handle_input leaves alone.
SameConnection(s, t) ==
  /\ t.tcp = s.tcp /\ t.conn_id = s.conn_id /\ t.timer = s.timer /\ t.mss = s.mss
  /\ t.outstanding = s.outstanding /\ t.arrived = s.arrived /\ t.slen = s.slen
  /\ t.page = s.page /\ t.wrote = s.wrote /\ t.unsent = s.unsent /\ t.form = s.form

LEMMA AdmitFields ==
  ASSUME NEW s \in Slot
  PROVE  /\ SameConnection(s, Admitted(s)) /\ SameConnection(s, Refused(s))
         /\ Admitted(s).input = "read" /\ Admitted(s).output = "begin"
         /\ Admitted(s).special /\ Admitted(s).reply = s.reply
         /\ Admitted(s).content_length = s.content_length /\ Admitted(s).inbuf = s.inbuf
         /\ Refused(s).input = "read" /\ Refused(s).output = "begin"
         /\ (Refused(s).special <=> s.special) /\ Refused(s).reply = "503"
         /\ Refused(s).content_length = 0
BY DEF Slot, SameConnection, Admitted, Refused

\* The page does not depend on what handle_input changes.
LEMMA SamePage ==
  ASSUME NEW s \in Slot, NEW t \in Slot, SameConnection(s, t), t.output = s.output, PageOK(s)
  PROVE  PageOK(t) /\ From(t) = From(s)
BY DEF SameConnection, PageOK, Base, From

LEMMA BeginPage ==
  ASSUME NEW s \in Slot, NEW t \in Slot, SameConnection(s, t), s.output = "none",
         t.output = "begin", PageOK(s)
  PROVE  PageOK(t) /\ From(t) = 1 /\ t.wrote = 0
BY DEF SameConnection, PageOK, Base, From

LEMMA AdmitGoing ==
  ASSUME NEW x \in Midway, Going(x)
  PROVE  /\ Admit(x) \in Midway /\ Going(Admit(x)) /\ Frame(x, Admit(x))
         /\ Patient(Admit(x).s)
<1> DEFINE y == Admit(x)
           s == x.s
<1>1. s \in Slot /\ x.r \in Relays
  BY MidwayParts
<1>2. CASE y = x /\ (s.input = "wait" => s.timer <= WaitPolls)
  BY <1>2 DEF Going, Frame, Patient
<1>3. CASE s.input = "wait" /\ (\/ RelayFree(x) /\ y = [x EXCEPT !.s = Admitted(s), !.r = Fresh(s.conn_id)]
                                \/ ~RelayFree(x) /\ y = [x EXCEPT !.s = Refused(s), !.r = x.r])
  <2>1. /\ s.output = "none" /\ ~s.special /\ s.reply = "200" /\ s.inbuf = <<>>
        /\ s.conn_id # 0
    BY <1>3 DEF Going, RequestIn
  <2>2. "acked" \notin x.ev /\ PageOK(s)
    <3>1. PageIn(x)
      BY DEF Going
    <3> QED BY <2>1, <3>1 DEF PageIn
  <2>3. CASE RelayFree(x) /\ y = [x EXCEPT !.s = Admitted(s), !.r = Fresh(s.conn_id)]
    <3> DEFINE t == Admitted(s)
    <3>1. /\ y \in Midway /\ y.s = t /\ y.r = Fresh(s.conn_id) /\ y.ev = x.ev
          /\ y.flag = x.flag /\ t \in Slot
      <4>1. /\ t \in Slot /\ Fresh(s.conn_id) \in Relays
            /\ y = [x EXCEPT !.s = t, !.r = Fresh(s.conn_id)]
        BY <2>3, AdmitIs
      <4> HIDE DEF t, y
      <4> QED BY <4>1 DEF Midway
    <3>2. /\ SameConnection(s, t) /\ t.input = "read" /\ t.output = "begin" /\ t.special
          /\ t.reply = "200" /\ t.content_length = s.content_length /\ t.inbuf = <<>>
      BY <1>1, <2>1, AdmitFields
    <3>3. Fresh(s.conn_id).active /\ Fresh(s.conn_id).conn_id = s.conn_id
          /\ Fresh(s.conn_id).left = <<>> /\ ~Fresh(s.conn_id).posting
      BY DEF Fresh
    <3> HIDE DEF t, y
    <3>4. PageOK(t) /\ From(t) = 1 /\ t.wrote = 0 /\ t.conn_id = s.conn_id
      BY <1>1, <2>1, <2>2, <3>1, <3>2, BeginPage DEF SameConnection
    <3>5. LeftOK(t, y.r)
      <4>1. Stretch(t.conn_id, 1, 0) = <<>>
        BY StretchIs
      <4>2. t.wrote + 1 - From(t) = 0
        BY <3>4
      <4> QED BY <3>1, <3>3, <3>4, <4>1, <4>2 DEF LeftOK
    <3>6. RequestIn(t)
      <4>1. t.content_length > 0 => Len(t.inbuf) < Least(BUF, t.content_length)
        <5>1. Len(t.inbuf) = 0
          BY <3>2
        <5>2. t.content_length \in Nat /\ BUF \in Nat \ {0}
          BY <3>1, Sizes DEF Slot
        <5> QED BY <5>1, <5>2 DEF Least
      <4> QED BY <3>2, <4>1 DEF RequestIn
    <3>7. Owner(t, y.r) /\ RelayOK(y.r)
      BY <2>1, <3>1, <3>2, <3>3, <3>4 DEF Owner, RelayOK
    <3>8. Going(y)
      BY <2>1, <2>2, <3>1, <3>2, <3>4, <3>5, <3>6, <3>7 DEF Going, PageIn, SameConnection
    <3>9. Frame(x, y)
      BY <2>3, <3>1, <3>3, <3>4 DEF Frame, RelayFree
    <3>10. Patient(y.s)
      BY <3>1, <3>2, <3>8 DEF Patient, Going
    <3> QED BY <3>1, <3>8, <3>9, <3>10 DEF y
  <2>4. CASE ~RelayFree(x) /\ y = [x EXCEPT !.s = Refused(s), !.r = x.r]
    <3> DEFINE t == Refused(s)
    <3>1. /\ y \in Midway /\ y.s = t /\ y.r = x.r /\ y.ev = x.ev
          /\ y.flag = x.flag /\ t \in Slot
      <4>1. t \in Slot /\ y = [x EXCEPT !.s = t, !.r = x.r]
        BY <2>4, AdmitIs
      <4> HIDE DEF t, y
      <4> QED BY <1>1, <4>1 DEF Midway
    <3>2. /\ SameConnection(s, t) /\ t.input = "read" /\ t.output = "begin" /\ ~t.special
          /\ t.reply = "503" /\ t.content_length = 0
      BY <1>1, <2>1, AdmitFields
    <3> HIDE DEF t, y
    <3>4. PageOK(t) /\ t.conn_id = s.conn_id
      BY <1>1, <2>1, <2>2, <3>1, <3>2, BeginPage DEF SameConnection
    <3>6. RequestIn(t)
      BY <3>2 DEF RequestIn
    <3>7. Owner(t, y.r) /\ RelayOK(y.r)
      BY <2>1, <3>1, <3>2, <3>4 DEF Owner, Going
    <3>8. Going(y)
      BY <2>1, <2>2, <3>1, <3>2, <3>4, <3>6, <3>7 DEF Going, PageIn, SameConnection
    <3>9. Frame(x, y)
      BY <3>1, <3>4 DEF Frame
    <3>10. Patient(y.s)
      BY <3>1, <3>2, <3>8 DEF Patient, Going
    <3> QED BY <3>1, <3>8, <3>9, <3>10 DEF y
  <2> QED BY <1>3, <2>3, <2>4
<1> QED BY <1>2, <1>3, AdmitIs

-----------------------------------------------------------------------------
(* The loop over the form *)

ReadBound(s) ==
  s.input = "read" /\ s.content_length > 0 => Len(s.inbuf) < Least(BUF, s.content_length)

\* What a turn leaves alone, and what it may do to the relay.
TurnKeeps(x, y) ==
  /\ SameConnection(x.s, y.s) /\ y.s.output = x.s.output
  /\ (y.s.special <=> x.s.special) /\ y.s.reply = x.s.reply
  /\ y.ev = x.ev /\ y.flag = x.flag
  /\ (y.r.active <=> x.r.active) /\ y.r.conn_id = x.r.conn_id /\ y.r.left = x.r.left
  /\ y.r.posting => x.r.posting
  /\ x.s.input # "hold" \/ ~x.r.posting => y.r = x.r

\* Where a turn goes.
TurnGoes(s, t) ==
  /\ s.input \in {"headers", "wait"} => t = s
  /\ s.input \notin {"headers", "wait"} => t.input \notin {"headers", "wait"}
  /\ s.input # "hold" /\ s.content_length = 0 => t.input # "hold" /\ t.content_length = 0
  /\ ReadBound(t)

LEMMA SlotTypes ==
  ASSUME NEW s \in Slot
  PROVE  /\ s.inbuf \in Seq(FormBytes) /\ s.unread \in Seq(FormBytes)
         /\ s.outstanding \in Seq(PageBytes) /\ s.page \in Seq(PageBytes)
         /\ s.content_length \in 0..MaxBody /\ s.unsent \in 0..MaxBody /\ s.form \in 0..MaxBody
         /\ s.content_length \in Nat /\ s.unsent \in Nat /\ s.form \in Nat
         /\ s.timer \in 0..IdlePolls /\ s.nrtx \in 0..UIP_MAXRTX /\ s.mss \in 1..MSS
         /\ s.conn_id \in 0..MaxConns /\ s.wrote \in 0..MaxOut /\ s.slen \in Nat
         /\ s.wrote \in Nat /\ s.mss \in Nat \ {0} /\ s.timer \in Nat /\ s.conn_id \in Nat
         /\ s.arrived \in BOOLEAN /\ s.special \in BOOLEAN /\ s.is_authorized \in BOOLEAN
<1>1. /\ s.inbuf \in Seq(FormBytes) /\ s.unread \in Seq(FormBytes)
      /\ s.outstanding \in Seq(PageBytes) /\ s.page \in Seq(PageBytes)
  BY DEF Slot
<1>2. /\ s.content_length \in 0..MaxBody /\ s.unsent \in 0..MaxBody /\ s.form \in 0..MaxBody
      /\ s.timer \in 0..IdlePolls /\ s.nrtx \in 0..UIP_MAXRTX /\ s.mss \in 1..MSS
      /\ s.conn_id \in 0..MaxConns /\ s.wrote \in 0..MaxOut /\ s.slen \in Nat
  BY DEF Slot
<1>3. s.arrived \in BOOLEAN /\ s.special \in BOOLEAN /\ s.is_authorized \in BOOLEAN
  BY DEF Slot
<1>4. /\ s.content_length \in Nat /\ s.unsent \in Nat /\ s.form \in Nat
      /\ s.wrote \in Nat /\ s.mss \in Nat \ {0} /\ s.timer \in Nat /\ s.conn_id \in Nat
  BY <1>2, Sizes
<1> QED BY <1>1, <1>2, <1>3, <1>4

LEMMA ReadTurn ==
  ASSUME NEW x \in Midway, x.s.input = "read", x.s.content_length > 0, ReadBound(x.s)
  PROVE  ReadChunk(x) \in Midway /\ TurnKeeps(x, ReadChunk(x)) /\ TurnGoes(x.s, ReadChunk(x).s)
<1> DEFINE s == x.s
           data == IF s.unread = <<>> /\ s.blocked THEN x.new ELSE s.unread
           room == Least(BUF, s.content_length) - Len(s.inbuf)
           y == ReadChunk(x)
           e == <<>>
<1>1. /\ s \in Slot /\ x.r \in Relays /\ s.content_length \in Nat /\ s.content_length <= MaxBody
      /\ s.inbuf \in Seq(FormBytes) /\ s.unread \in Seq(FormBytes) /\ x.new \in Seq(FormBytes)
  <2>1. s \in Slot /\ x.r \in Relays /\ x.new \in Seq(FormBytes)
    BY MidwayParts
  <2>2. s.content_length \in Nat /\ s.content_length <= MaxBody
    BY <2>1, SlotTypes, Sizes
  <2> QED BY <2>1, <2>2, SlotTypes
<1>2. data \in Seq(FormBytes) /\ Len(data) \in Nat /\ Len(s.inbuf) \in Nat
  BY <1>1
<1>3. /\ room \in Nat \ {0} /\ Least(BUF, s.content_length) \in Nat
      /\ Least(BUF, s.content_length) <= s.content_length
      /\ Len(s.inbuf) + room = Least(BUF, s.content_length)
  <2> DEFINE b == Least(BUF, s.content_length)
  <2>1. b \in Nat /\ b <= s.content_length
    BY <1>1, Sizes, LeastIs
  <2>2. Len(s.inbuf) < b
    BY DEF ReadBound
  <2> HIDE DEF b
  <2>3. b - Len(s.inbuf) \in Nat \ {0} /\ Len(s.inbuf) + (b - Len(s.inbuf)) = b
    BY <1>2, <2>1, <2>2
  <2> QED BY <2>1, <2>3 DEF b
<1>4. e \in Seq(FormBytes)
  OBVIOUS
<1>5. CASE Len(data) < room
  <2> DEFINE k == s.inbuf \o data
  <2>1. k \in Seq(FormBytes) /\ Len(k) = Len(s.inbuf) + Len(data)
    BY <1>1, <1>2
  <2>2. y = [x EXCEPT !.s.inbuf = k, !.s.unread = e, !.s.blocked = TRUE, !.new = e]
    BY <1>5 DEF ReadChunk
  <2>3. Len(k) < Least(BUF, s.content_length)
    <3> HIDE DEF room, data, k
    <3> QED BY <1>2, <1>3, <1>5, <2>1
  <2> HIDE DEF k, y, e, data, room
  <2>4. /\ y.s = [s EXCEPT !.inbuf = k, !.unread = e, !.blocked = TRUE]
        /\ y.r = x.r /\ y.ev = x.ev /\ y.flag = x.flag /\ y.new = e
    BY <2>2 DEF Midway
  <2>5. y.s \in Slot
    <3>1. k \in Seq(FormBytes)
      BY <2>1
    <3>2. [s EXCEPT !.inbuf = k, !.unread = e, !.blocked = TRUE] \in Slot
      BY ONLY <1>1, <1>4, <3>1 DEF Slot
    <3> QED BY ONLY <2>4, <3>2
  <2>6. y \in Midway
    BY <1>4, <2>2, <2>4, <2>5 DEF Midway
  <2>7. /\ SameConnection(s, y.s) /\ y.s.output = s.output /\ y.s.special = s.special
        /\ y.s.reply = s.reply /\ y.s.input = s.input /\ y.s.content_length = s.content_length
        /\ y.s.inbuf = k
    BY <1>1, <2>4 DEF Slot, SameConnection
  <2> QED BY <2>3, <2>4, <2>6, <2>7 DEF TurnKeeps, TurnGoes, ReadBound, y
<1>6. CASE ~(Len(data) < room)
  <2> DEFINE k == s.inbuf \o SubSeq(data, 1, room)
             u == Drop(data, room)
             n == s.content_length - Len(s.inbuf) - room
  <2>1. room \in 0..Len(data)
    BY <1>2, <1>3, <1>6
  <2>2. k \in Seq(FormBytes) /\ u \in Seq(FormBytes)
    <3>1. SubSeq(data, 1, room) \in Seq(FormBytes) /\ Drop(data, room) \in Seq(FormBytes)
      BY ONLY <1>2, <2>1, Cut
    <3> QED BY <1>1, <3>1
  <2>3. n \in 0..MaxBody
    <3> DEFINE q == Least(BUF, s.content_length)
               l == Len(s.inbuf)
               m == s.content_length
    <3>1. /\ room \in Nat /\ q <= m /\ l + room = q /\ l \in Nat /\ q \in Nat
          /\ m \in Nat /\ m <= MaxBody /\ MaxBody \in Nat
      BY <1>1, <1>2, <1>3, Sizes
    <3> HIDE DEF q, l, m, room
    <3>2. (m - l) - room \in 0..MaxBody
      BY ONLY <3>1
    <3> QED BY <3>2 DEF l, m
  <2>4. y = [x EXCEPT !.s.inbuf = k, !.s.unread = u, !.s.blocked = FALSE,
                      !.s.content_length = n, !.s.input = "hold"]
    BY <1>6 DEF ReadChunk
  <2> HIDE DEF k, u, n, y, data, room
  <2>5. /\ y.s = [s EXCEPT !.inbuf = k, !.unread = u, !.blocked = FALSE,
                           !.content_length = n, !.input = "hold"]
        /\ y.r = x.r /\ y.ev = x.ev /\ y.flag = x.flag /\ y.new = x.new
    BY <2>4 DEF Midway
  <2>6. y.s \in Slot
    <3>1. [s EXCEPT !.inbuf = k, !.unread = u, !.blocked = FALSE,
                    !.content_length = n, !.input = "hold"] \in Slot
      BY ONLY <1>1, <2>2, <2>3 DEF Slot
    <3> QED BY ONLY <2>5, <3>1
  <2>7. y \in Midway
    BY <2>4, <2>5, <2>6 DEF Midway
  <2>8. /\ SameConnection(s, y.s) /\ y.s.output = s.output /\ y.s.special = s.special
        /\ y.s.reply = s.reply /\ y.s.input = "hold"
    BY <1>1, <2>5 DEF Slot, SameConnection
  <2>9. s.content_length # 0
    BY <1>1
  <2> QED BY <2>5, <2>7, <2>8, <2>9 DEF TurnKeeps, TurnGoes, ReadBound, y
<1> QED BY <1>5, <1>6

LEMMA GiveTurn ==
  ASSUME NEW x \in Midway, x.s.input = "hold"
  PROVE  GiveChunk(x) \in Midway /\ TurnKeeps(x, GiveChunk(x)) /\ TurnGoes(x.s, GiveChunk(x).s)
<1> DEFINE s == x.s
           r == x.r
           y == GiveChunk(x)
           e == <<>>
           fits == Len(s.inbuf) <= r.room
<1>1. s \in Slot /\ r \in Relays
  BY MidwayParts
<1>2. /\ s.inbuf \in Seq(FormBytes) /\ Len(s.inbuf) \in Nat /\ s.content_length \in 0..MaxBody
      /\ r.room \in Nat /\ r.got \in Seq(FormBytes) /\ 0 \in 0..MaxBody
  BY <1>1, SlotTypes, Sizes DEF Relays
<1>3. e \in Seq(FormBytes) /\ Len(e) = 0
  OBVIOUS
<1>4. \A m \in 0..MaxBody : m > 0 => Len(e) < Least(BUF, m)
  BY <1>3, Sizes DEF Least
<1>5. CASE basic_running /\ ~r.term /\ r.posting
  <2> DEFINE n == IF fits THEN s.content_length ELSE 0
             g == r.got \o SubSeq(s.inbuf, 1, Least(Len(s.inbuf), r.room))
             z == IF fits THEN r.room - Len(s.inbuf) ELSE 0
             p == fits /\ s.content_length > 0
  <2>1. n \in 0..MaxBody /\ z \in Nat /\ p \in BOOLEAN
    BY <1>2
  <2>2. g \in Seq(FormBytes)
    <3>1. Least(Len(s.inbuf), r.room) \in 0..Len(s.inbuf)
      <4> DEFINE a == Len(s.inbuf)
                 b == r.room
      <4>1. a \in Nat /\ b \in Nat
        BY <1>2
      <4> HIDE DEF a, b
      <4>2. Least(a, b) \in 0..a
        BY <4>1, LeastIs
      <4> QED BY <4>2 DEF a, b
    <3>2. SubSeq(s.inbuf, 1, Least(Len(s.inbuf), r.room)) \in Seq(FormBytes)
      BY ONLY <1>2, <3>1, Cut
    <3> QED BY <1>2, <3>2
  <2>3. y = [x EXCEPT !.s.inbuf = e, !.s.input = "read", !.s.content_length = n,
                      !.r.got = g, !.r.room = z, !.r.posting = p]
    BY <1>5 DEF GiveChunk
  <2> HIDE DEF n, g, z, p, y, e, fits
  <2>4. /\ y.s = [s EXCEPT !.inbuf = e, !.input = "read", !.content_length = n]
        /\ y.r = [r EXCEPT !.got = g, !.room = z, !.posting = p]
        /\ y.ev = x.ev /\ y.flag = x.flag /\ y.new = x.new
    BY <2>3 DEF Midway
  <2>5. y.s \in Slot
    <3>0. s \in Slot /\ e \in Seq(FormBytes) /\ n \in 0..MaxBody
      BY <1>1, <1>3, <2>1
    <3> HIDE DEF s
    <3>1. [s EXCEPT !.inbuf = e, !.input = "read", !.content_length = n] \in Slot
      BY ONLY <3>0 DEF Slot
    <3> QED BY ONLY <2>4, <3>1
  <2>6. y.r \in Relays
    <3>1. [r EXCEPT !.got = g, !.room = z, !.posting = p] \in Relays
      BY ONLY <1>1, <2>1, <2>2 DEF Relays
    <3> QED BY ONLY <2>4, <3>1
  <2>7. y \in Midway
    BY <2>3, <2>4, <2>5, <2>6 DEF Midway
  <2>8. /\ SameConnection(s, y.s) /\ y.s.output = s.output /\ y.s.special = s.special
        /\ y.s.reply = s.reply /\ y.s.input = "read" /\ y.s.content_length = n /\ y.s.inbuf = e
    BY <1>1, <2>4 DEF Slot, SameConnection
  <2>9. y.r.active = r.active /\ y.r.conn_id = r.conn_id /\ y.r.left = r.left
    BY <1>1, <2>4 DEF Relays
  <2>10. ReadBound(y.s)
    BY <1>4, <2>1, <2>8 DEF ReadBound
  <2>11. TurnKeeps(x, y)
    BY <1>5, <2>4, <2>8, <2>9 DEF TurnKeeps
  <2>12. TurnGoes(s, y.s)
    BY <2>8, <2>10 DEF TurnGoes
  <2> QED BY <2>7, <2>11, <2>12 DEF y
<1>6. CASE ~(basic_running /\ ~r.term /\ r.posting)
  <2>1. y = [x EXCEPT !.s.inbuf = e, !.s.input = "read"]
    BY <1>6 DEF GiveChunk
  <2> HIDE DEF y, e
  <2>2. /\ y.s = [s EXCEPT !.inbuf = e, !.input = "read"]
        /\ y.r = x.r /\ y.ev = x.ev /\ y.flag = x.flag /\ y.new = x.new
    BY <2>1 DEF Midway
  <2>3. y.s \in Slot
    <3>0. s \in Slot /\ e \in Seq(FormBytes)
      BY <1>1, <1>3
    <3> HIDE DEF s
    <3>1. [s EXCEPT !.inbuf = e, !.input = "read"] \in Slot
      BY ONLY <3>0 DEF Slot
    <3> QED BY ONLY <2>2, <3>1
  <2>4. y \in Midway
    BY <2>1, <2>2, <2>3 DEF Midway
  <2>5. /\ SameConnection(s, y.s) /\ y.s.output = s.output /\ y.s.special = s.special
        /\ y.s.reply = s.reply /\ y.s.input = "read" /\ y.s.inbuf = e
        /\ y.s.content_length = s.content_length
    BY <1>1, <2>2 DEF Slot, SameConnection
  <2>6. ReadBound(y.s)
    BY <1>2, <1>4, <2>5 DEF ReadBound
  <2>7. TurnKeeps(x, y)
    BY <2>2, <2>5 DEF TurnKeeps
  <2>8. TurnGoes(s, y.s)
    BY <2>5, <2>6 DEF TurnGoes
  <2> QED BY <2>4, <2>7, <2>8 DEF y
<1> QED BY <1>5, <1>6

LEMMA TurnIs ==
  ASSUME NEW x \in Midway, ReadBound(x.s)
  PROVE  Turn(x) \in Midway /\ TurnKeeps(x, Turn(x)) /\ TurnGoes(x.s, Turn(x).s)
<1> DEFINE s == x.s
           y == Turn(x)
<1>1. s \in Slot /\ s.content_length \in Nat
  BY MidwayParts, SlotTypes
<1>2. CASE s.input = "read" /\ s.content_length = 0
  <2>1. y = [x EXCEPT !.s.input = "done"]
    BY <1>2 DEF Turn
  <2> HIDE DEF y
  <2>2. /\ y.s = [s EXCEPT !.input = "done"]
        /\ y.r = x.r /\ y.ev = x.ev /\ y.flag = x.flag /\ y.new = x.new
    BY <2>1 DEF Midway
  <2>3. y.s \in Slot
    <3>1. [s EXCEPT !.input = "done"] \in Slot
      BY ONLY <1>1 DEF Slot
    <3> QED BY ONLY <2>2, <3>1
  <2>4. y \in Midway
    BY <2>1, <2>2, <2>3 DEF Midway
  <2>5. /\ SameConnection(s, y.s) /\ y.s.output = s.output /\ y.s.special = s.special
        /\ y.s.reply = s.reply /\ y.s.input = "done" /\ y.s.content_length = 0
    BY <1>1, <1>2, <2>2 DEF Slot, SameConnection
  <2>6. TurnKeeps(x, y)
    BY <2>2, <2>5 DEF TurnKeeps
  <2>7. TurnGoes(s, y.s)
    BY <1>2, <2>5 DEF TurnGoes, ReadBound
  <2> QED BY <2>4, <2>6, <2>7 DEF y
<1>3. CASE s.input = "read" /\ s.content_length > 0
  <2>1. y = ReadChunk(x)
    BY <1>1, <1>3 DEF Turn
  <2> QED BY <1>3, <2>1, ReadTurn
<1>4. CASE s.input = "hold" /\ (~basic_running \/ x.r.term \/ x.r.posting)
  <2>1. y = GiveChunk(x)
    BY <1>4 DEF Turn
  <2> QED BY <1>4, <2>1, GiveTurn
<1>5. CASE /\ ~(s.input = "read" /\ s.content_length = 0)
           /\ ~(s.input = "read" /\ s.content_length > 0)
           /\ ~(s.input = "hold" /\ (~basic_running \/ x.r.term \/ x.r.posting))
  <2>1. y = x
    BY <1>5 DEF Turn
  <2> HIDE DEF y
  <2>2. TurnKeeps(x, y) /\ TurnGoes(s, y.s)
    BY <2>1 DEF TurnKeeps, TurnGoes, SameConnection
  <2> QED BY <2>1, <2>2 DEF y
<1> QED BY <1>2, <1>3, <1>4, <1>5

LEMMA TurnGoing ==
  ASSUME NEW x \in Midway, Going(x), Patient(x.s)
  PROVE  /\ Turn(x) \in Midway /\ Going(Turn(x)) /\ Frame(x, Turn(x)) /\ Patient(Turn(x).s)
<1> DEFINE y == Turn(x)
           s == x.s
           t == y.s
<1>1. ReadBound(s)
  BY DEF Going, RequestIn, ReadBound
<1>2. y \in Midway /\ TurnKeeps(x, y) /\ TurnGoes(s, t)
  BY <1>1, TurnIs
<1>3. s \in Slot /\ t \in Slot
  BY <1>2, MidwayParts
<1> HIDE DEF y
<1>4. SameConnection(s, t) /\ t.output = s.output /\ (t.special <=> s.special) /\ t.reply = s.reply
  BY <1>2 DEF TurnKeeps
<1>5. RequestIn(t)
  <2>1. RequestIn(s)
    BY DEF Going
  <2> QED BY <1>2, <1>4, <2>1 DEF RequestIn, TurnGoes, ReadBound
<1>6. PageIn(y)
  <2>1. PageIn(x)
    BY DEF Going
  <2>2. y.ev = x.ev /\ y.r.left = x.r.left
    BY <1>2 DEF TurnKeeps
  <2>3. CASE "acked" \in x.ev
    BY <1>4, <2>1, <2>2, <2>3 DEF PageIn, SameConnection
  <2>4. CASE "acked" \notin x.ev
    <3>1. PageOK(s) /\ (s.special => LeftOK(s, x.r))
      BY <2>1, <2>4 DEF PageIn
    <3>2. PageOK(t) /\ From(t) = From(s) /\ t.conn_id = s.conn_id /\ t.wrote = s.wrote
      BY <1>3, <1>4, <3>1, SamePage DEF SameConnection
    <3>3. t.special => LeftOK(t, y.r)
      BY <1>4, <2>2, <3>1, <3>2 DEF LeftOK
    <3> QED BY <2>2, <2>4, <3>2, <3>3 DEF PageIn
  <2> QED BY <2>3, <2>4
<1>7. Owner(t, y.r) /\ RelayOK(y.r)
  BY <1>2, <1>4 DEF Going, Owner, RelayOK, TurnKeeps, SameConnection
<1>8. Going(y)
  BY <1>2, <1>4, <1>5, <1>6, <1>7 DEF Going, TurnKeeps, SameConnection
<1>9. Frame(x, y)
  BY <1>2, <1>4 DEF Frame, TurnKeeps, SameConnection, Going, Owner, RequestIn
<1>10. Patient(t)
  BY <1>2, <1>4 DEF Patient, TurnGoes, SameConnection
<1> QED BY <1>2, <1>8, <1>9, <1>10 DEF y

\* A connection that is about to be aborted: it has lost the relay, or had none.
Aborting(x) ==
  /\ x.s.tcp = "open" /\ x.s.conn_id # 0 /\ x.flag = "abort" /\ "acked" \notin x.ev
  /\ Owner(x.s, x.r) /\ RelayOK(x.r)
  /\ ~x.s.special /\ ReadBound(x.s) /\ x.s.input # "wait" /\ x.s.output # "begin"
  /\ \/ ~x.r.posting /\ x.r.left = <<>>
     \/ /\ x.s.output \in {"none", "header"} /\ x.s.input # "hold"
        /\ IF x.s.output = "none" THEN x.s.input = "headers" ELSE x.s.content_length = 0

LEMMA TurnAborting ==
  ASSUME NEW x \in Midway, Aborting(x)
  PROVE  Turn(x) \in Midway /\ Aborting(Turn(x)) /\ Turn(x).r = x.r /\ Turn(x).s.conn_id = x.s.conn_id
<1> DEFINE y == Turn(x)
           s == x.s
           t == y.s
<1>1. y \in Midway /\ TurnKeeps(x, y) /\ TurnGoes(s, t)
  BY TurnIs DEF Aborting
<1> HIDE DEF y
<1>2. /\ SameConnection(s, t) /\ t.output = s.output /\ (t.special <=> s.special)
      /\ y.ev = x.ev /\ y.flag = x.flag
  BY <1>1 DEF TurnKeeps
<1>3. y.r = x.r
  BY <1>1 DEF TurnKeeps, Aborting
<1>4. t.input # "wait" /\ ReadBound(t)
  BY <1>1 DEF TurnGoes, Aborting
<1>5. Aborting(y)
  <2>1. Owner(t, y.r) /\ RelayOK(y.r)
    BY <1>2, <1>3 DEF Aborting, Owner, SameConnection
  <2> QED BY <1>1, <1>2, <1>3, <1>4, <2>1 DEF Aborting, TurnGoes, SameConnection
<1> QED BY <1>1, <1>2, <1>3, <1>5 DEF y, SameConnection

\* handle_input stays in any set of calls that a turn does not leave, and takes
\* at least one turn.
LEMMA Loop ==
  ASSUME NEW x, NEW G, Admit(x) \in G, \A y \in G : Turn(y) \in G
  PROVE  handle_input(x) \subseteq G /\ \A y \in handle_input(x) : \E z \in G : y = Turn(z)
<1> DEFINE n == 2 * MaxBody + 1
           Is(g, m) == g = [i \in 0 .. m |-> IF i = 0 THEN {Admit(x)} ELSE {Turn(y) : y \in g[i - 1]}]
           T == {m \in 0 .. n : \E g : Is(g, m)}
<1>0. n \in Nat
  BY Sizes
<1>h. handle_input(x) = (CHOOSE g : Is(g, n))[n]
  BY DEF handle_input
<1> HIDE DEF n
<1>1. 0 \in T
  <2> DEFINE g == [i \in 0 .. 0 |-> {Admit(x)}]
  <2>1. Is(g, 0)
    OBVIOUS
  <2> HIDE DEF g, Is
  <2> QED BY <1>0, <2>1
<1>2. ASSUME NEW m \in 1 .. n, m - 1 \in T PROVE m \in T
  <2> USE <1>0
  <2>1. PICK g : Is(g, m - 1)
    BY <1>2
  <2> DEFINE h == [i \in 0 .. m |-> IF i = m THEN {Turn(y) : y \in g[m - 1]} ELSE g[i]]
  <2>2. \A i \in 0 .. m : h[i] = IF i = 0 THEN {Admit(x)} ELSE {Turn(y) : y \in h[i - 1]}
    <3> SUFFICES ASSUME NEW i \in 0 .. m
                 PROVE  h[i] = IF i = 0 THEN {Admit(x)} ELSE {Turn(y) : y \in h[i - 1]}
      OBVIOUS
    <3>1. CASE i = 0
      BY <2>1, <3>1
    <3>2. CASE i # 0 /\ i # m
      <4>1. i \in 0 .. m - 1 /\ i - 1 \in 0 .. m /\ i - 1 # m
        BY <3>2
      <4>2. g[i] = {Turn(y) : y \in g[i - 1]}
        BY <2>1, <3>2, <4>1
      <4> QED BY <3>2, <4>1, <4>2
    <3>3. CASE i # 0 /\ i = m
      <4>1. m - 1 \in 0 .. m /\ m - 1 # m
        OBVIOUS
      <4>2. h[m - 1] = g[m - 1]
        BY <4>1
      <4> QED BY <3>3, <4>2
    <3> QED BY <3>1, <3>2, <3>3
  <2>3. Is(h, m)
    BY <2>2
  <2> HIDE DEF h, Is
  <2> QED BY <2>3
<1>3. n \in T
  <2> HIDE DEF T
  <2>1. \A m \in 1 .. n : m - 1 \in T => m \in T
    BY <1>2
  <2>2. \A m \in 0 .. n : m \in T
    BY ONLY <1>0, <1>1, <2>1, Turns
  <2> QED BY ONLY <1>0, <2>2
<1> DEFINE turns == CHOOSE g : Is(g, n)
<1>4. Is(turns, n)
  BY <1>3
<1> HIDE DEF turns
<1>5. turns[0] = {Admit(x)} /\ \A i \in 1 .. n : turns[i] = {Turn(y) : y \in turns[i - 1]}
  BY <1>0, <1>4
<1> DEFINE U == {i \in 0 .. n : turns[i] \subseteq G}
<1>6. 0 \in U
  BY <1>0, <1>5
<1>7. ASSUME NEW i \in 1 .. n, i - 1 \in U PROVE i \in U
  <2>1. turns[i - 1] \subseteq G
    BY <1>7
  <2>2. turns[i] \subseteq G
    BY <1>5, <2>1
  <2> QED BY <1>0, <2>2
<1>8. n \in U /\ n - 1 \in U /\ n \in 1 .. n
  <2> HIDE DEF U
  <2>1. \A m \in 1 .. n : m - 1 \in U => m \in U
    BY <1>7
  <2>2. \A m \in 0 .. n : m \in U
    BY ONLY <1>0, <1>6, <2>1, Turns
  <2>3. n - 1 \in 0 .. n /\ n \in 0 .. n /\ n \in 1 .. n
    BY Sizes DEF n
  <2> QED BY ONLY <2>2, <2>3
<1>9. turns[n] = {Turn(y) : y \in turns[n - 1]} /\ turns[n - 1] \subseteq G /\ turns[n] \subseteq G
  BY <1>5, <1>8
<1>10. handle_input(x) = turns[n]
  BY <1>h DEF turns
<1> QED BY <1>9, <1>10

LEMMA InputGoing ==
  ASSUME NEW x \in Midway, Going(x), NEW y \in handle_input(x)
  PROVE  y \in Midway /\ Going(y) /\ Frame(x, y) /\ Patient(y.s)
<1> DEFINE G == {z \in Midway : Going(z) /\ Frame(x, z) /\ Patient(z.s)}
<1>1. Admit(x) \in G
  BY AdmitGoing
<1>2. ASSUME NEW z \in G PROVE Turn(z) \in G
  <2>1. z \in Midway /\ Going(z) /\ Frame(x, z) /\ Patient(z.s)
    OBVIOUS
  <2>2. /\ Turn(z) \in Midway /\ Going(Turn(z)) /\ Frame(z, Turn(z)) /\ Patient(Turn(z).s)
    BY ONLY <2>1, TurnGoing
  <2>3. Frame(x, Turn(z))
    BY <2>1, <2>2, FrameTwice
  <2> QED BY <2>2, <2>3
<1> HIDE DEF G
<1>3. handle_input(x) \subseteq G
  BY <1>1, <1>2, Loop
<1> QED BY <1>3 DEF G

LEMMA InputAborting ==
  ASSUME NEW x \in Midway, Aborting(x), NEW y \in handle_input(x)
  PROVE  y \in Midway /\ Aborting(y) /\ y.r = x.r /\ y.s.conn_id = x.s.conn_id
<1> DEFINE G == {z \in Midway : Aborting(z) /\ z.r = x.r /\ z.s.conn_id = x.s.conn_id}
<1>1. Admit(x) \in G
  <2>1. Admit(x) = x
    BY DEF Admit, Aborting
  <2> QED BY <2>1
<1>2. ASSUME NEW z \in G PROVE Turn(z) \in G
  <2>1. z \in Midway /\ Aborting(z) /\ z.r = x.r /\ z.s.conn_id = x.s.conn_id
    OBVIOUS
  <2>2. /\ Turn(z) \in Midway /\ Aborting(Turn(z)) /\ Turn(z).r = z.r
        /\ Turn(z).s.conn_id = z.s.conn_id
    BY ONLY <2>1, TurnAborting
  <2> QED BY <2>1, <2>2
<1> HIDE DEF G
<1>3. handle_input(x) \subseteq G
  BY <1>1, <1>2, Loop
<1> QED BY <1>3 DEF G

-----------------------------------------------------------------------------
(* What a call leaves behind *)

Done(y) ==
  /\ y \in Midway /\ y.s.conn_id # 0 /\ Owner(y.s, y.r) /\ RelayOK(y.r)
  /\ y.flag = "none" => y.s.tcp = "open" /\ OpenOK(y.s, y.r) /\ (PasswordSet \/ y.s.reply # "401")
  /\ y.flag = "close" => PasswordSet \/ ~y.s.special
  /\ y.flag = "abort" => ~y.s.special

LEMMA CleanupIs ==
  ASSUME NEW x \in Midway
  PROVE  LET y == cleanup_special_state(x)
         IN  /\ y \in Midway /\ y.s = [x.s EXCEPT !.special = FALSE]
             /\ y.r = (IF x.s.special THEN Cleared(x.r) ELSE x.r)
             /\ y.ev = x.ev /\ y.flag = x.flag /\ y.new = x.new
<1> DEFINE y == cleanup_special_state(x)
           q == IF x.s.special THEN reset_basic_state(x.r) ELSE x.r
<1>1. x.s \in Slot /\ x.r \in Relays
  BY MidwayParts
<1>2. q \in Relays /\ q = IF x.s.special THEN Cleared(x.r) ELSE x.r
  BY <1>1, ResetIs
<1>3. y = [x EXCEPT !.r = q, !.s.special = FALSE]
  BY DEF cleanup_special_state
<1> HIDE DEF q, y
<1>4. /\ y.s = [x.s EXCEPT !.special = FALSE]
      /\ y.r = q /\ y.ev = x.ev /\ y.flag = x.flag /\ y.new = x.new
  BY <1>3 DEF Midway
<1>5. y.s \in Slot
  <2>1. x.s \in Slot
    BY <1>1
  <2>2. [x.s EXCEPT !.special = FALSE] \in Slot
    BY ONLY <2>1 DEF Slot
  <2> QED BY ONLY <1>4, <2>2
<1>6. y \in Midway
  BY <1>2, <1>3, <1>4, <1>5 DEF Midway
<1> QED BY <1>2, <1>4, <1>6 DEF y

\* cleanup_special_state gives back the relay if the connection has it, and
\* only then.
LEMMA CleanupKeeps ==
  ASSUME NEW x \in Midway, Owner(x.s, x.r), RelayOK(x.r)
  PROVE  LET y == cleanup_special_state(x)
         IN  /\ y \in Midway /\ ~y.s.special /\ Owner(y.s, y.r) /\ RelayOK(y.r) /\ Frame(x, y)
             /\ SameConnection(x.s, y.s) /\ y.s.input = x.s.input /\ y.s.output = x.s.output
             /\ y.s.content_length = x.s.content_length /\ y.s.inbuf = x.s.inbuf
             /\ y.ev = x.ev /\ y.flag = x.flag
             /\ IF x.s.special THEN ~y.r.posting /\ y.r.left = <<>> ELSE y.r = x.r
<1> DEFINE y == cleanup_special_state(x)
<1>1. /\ y \in Midway /\ y.s = [x.s EXCEPT !.special = FALSE]
      /\ y.r = (IF x.s.special THEN Cleared(x.r) ELSE x.r)
      /\ y.ev = x.ev /\ y.flag = x.flag /\ y.new = x.new
  BY CleanupIs
<1> HIDE DEF y
<1>2. x.s \in Slot
  BY MidwayParts
<1>3. /\ ~y.s.special /\ SameConnection(x.s, y.s) /\ y.s.input = x.s.input
      /\ y.s.output = x.s.output /\ y.s.content_length = x.s.content_length
      /\ y.s.inbuf = x.s.inbuf
  BY <1>1, <1>2 DEF SameConnection, Slot
<1>4. CASE x.s.special
  <2>1. /\ ~y.r.active /\ ~y.r.posting /\ y.r.left = <<>> /\ y.r.conn_id = x.r.conn_id
    BY <1>1, <1>4 DEF Cleared
  <2>2. Owner(y.s, y.r) /\ RelayOK(y.r) /\ Frame(x, y)
    BY <1>1, <1>3, <1>4, <2>1 DEF Owner, RelayOK, Frame, SameConnection
  <2> QED BY <1>1, <1>3, <1>4, <2>1, <2>2 DEF y
<1>5. CASE ~x.s.special
  <2>1. y.r = x.r
    BY <1>1, <1>5
  <2>2. Owner(y.s, y.r) /\ RelayOK(y.r) /\ Frame(x, y)
    BY <1>1, <1>3, <1>5, <2>1 DEF Owner, Frame, SameConnection
  <2> QED BY <1>1, <1>3, <1>5, <2>1, <2>2 DEF y
<1> QED BY <1>4, <1>5

LEMMA SendIs ==
  ASSUME NEW x \in Midway, NEW bytes \in Seq(PageBytes), NEW place \in {"header", "string"}
  PROVE  LET y == psock_send(x, bytes, place)
             n == Least(Len(bytes), x.s.mss)
         IN  /\ y \in Midway /\ y.r = x.r /\ y.ev = x.ev /\ y.flag = x.flag
             /\ n \in 0..Len(bytes) /\ (bytes # <<>> => n > 0)
             /\ y.s.outstanding = SubSeq(bytes, 1, n) /\ ~y.s.arrived /\ y.s.slen = n
             /\ y.s.output = place /\ (y.s.special <=> x.s.special) /\ y.s.reply = x.s.reply
             /\ y.s.tcp = x.s.tcp /\ y.s.conn_id = x.s.conn_id /\ y.s.timer = x.s.timer
             /\ y.s.page = x.s.page /\ y.s.wrote = x.s.wrote
             /\ y.s.unsent = x.s.unsent /\ y.s.form = x.s.form
             /\ y.s.input = x.s.input /\ y.s.content_length = x.s.content_length
             /\ y.s.inbuf = x.s.inbuf
<1> DEFINE s == x.s
           y == psock_send(x, bytes, place)
           n == Least(Len(bytes), s.mss)
           o == SubSeq(bytes, 1, n)
<1>1. s \in Slot /\ s.mss \in Nat \ {0} /\ Len(bytes) \in Nat
  BY MidwayParts, SlotTypes
<1>2. n \in 0..Len(bytes) /\ n \in Nat
  <2> DEFINE a == Len(bytes)
             b == s.mss
  <2>1. a \in Nat /\ b \in Nat
    BY <1>1
  <2> HIDE DEF a, b
  <2>2. Least(a, b) \in Nat /\ Least(a, b) <= a
    BY ONLY <2>1, LeastIs
  <2>3. Least(a, b) \in 0..a /\ Least(a, b) \in Nat
    BY <2>1, <2>2
  <2> QED BY <2>3 DEF a, b
<1>3. bytes # <<>> => n > 0
  <2>1. bytes # <<>> => Len(bytes) > 0
    OBVIOUS
  <2> QED BY <1>1, <2>1 DEF Least
<1>4. y = [x EXCEPT !.s.outstanding = o, !.s.arrived = FALSE, !.s.slen = n, !.s.output = place]
  BY DEF psock_send
<1> HIDE DEF n
<1>5. o \in Seq(PageBytes)
  BY ONLY <1>2, bytes \in Seq(PageBytes), Cut
<1> HIDE DEF o, y
<1>6. /\ y.s = [s EXCEPT !.outstanding = o, !.arrived = FALSE, !.slen = n, !.output = place]
      /\ y.r = x.r /\ y.ev = x.ev /\ y.flag = x.flag /\ y.new = x.new
  BY <1>4 DEF Midway
<1>7. y.s \in Slot
  <2>1. s \in Slot /\ o \in Seq(PageBytes) /\ n \in Nat /\ place \in {"header", "string"}
    BY <1>1, <1>2, <1>5
  <2> HIDE DEF s
  <2>2. [s EXCEPT !.outstanding = o, !.arrived = FALSE, !.slen = n, !.output = place] \in Slot
    BY ONLY <2>1 DEF Slot
  <2> QED BY ONLY <1>6, <2>2
<1>8. y \in Midway
  BY <1>4, <1>6, <1>7 DEF Midway
<1>9. /\ y.s.outstanding = o /\ ~y.s.arrived /\ y.s.slen = n
      /\ y.s.output = place /\ (y.s.special <=> x.s.special) /\ y.s.reply = x.s.reply
      /\ y.s.tcp = x.s.tcp /\ y.s.conn_id = x.s.conn_id /\ y.s.timer = x.s.timer
      /\ y.s.page = x.s.page /\ y.s.wrote = x.s.wrote
      /\ y.s.unsent = x.s.unsent /\ y.s.form = x.s.form
      /\ y.s.input = x.s.input /\ y.s.content_length = x.s.content_length
      /\ y.s.inbuf = x.s.inbuf
  BY <1>1, <1>6 DEF Slot
<1> QED BY <1>2, <1>3, <1>6, <1>8, <1>9 DEF y, o, n

\* A connection that has the relay and has been sent all up to what it is
\* pointing to.
Ready(x) ==
  LET s == x.s
  IN  /\ s.tcp = "open" /\ s.conn_id # 0 /\ x.flag = "none" /\ s.special
      /\ Owner(s, x.r) /\ RelayOK(x.r)
      /\ s.input \notin {"headers", "wait"} /\ s.reply # "503" /\ ReadBound(s)
      /\ s.timer < IdlePolls /\ s.unsent <= s.form /\ (PasswordSet \/ s.reply # "401")
      /\ s.page = Stretch(s.conn_id, 0, Len(s.page)) /\ s.outstanding = <<>>
      /\ Len(s.page) > 0 /\ Len(s.page) <= s.wrote + 1
      /\ x.r.left = Stretch(s.conn_id, Len(s.page), s.wrote + 1 - Len(s.page))

\* The next part of the string leaves.
LEMMA SendDone ==
  ASSUME NEW x \in Midway, Ready(x), x.r.left # <<>>
  PROVE  Done(psock_send(x, x.r.left, "string")) /\ Frame(x, psock_send(x, x.r.left, "string"))
<1> DEFINE s == x.s
           b == x.r.left
           y == psock_send(x, b, "string")
           t == y.s
           n == Least(Len(b), s.mss)
           p == Len(s.page)
           m == s.wrote + 1 - p
<1>1. s \in Slot /\ x.r \in Relays /\ b \in Seq(PageBytes) /\ s.wrote \in Nat /\ p \in Nat
  <2>1. s \in Slot /\ x.r \in Relays
    BY MidwayParts
  <2> QED BY <2>1, SlotTypes DEF Relays
<1>2. /\ y \in Midway /\ y.r = x.r /\ y.ev = x.ev /\ y.flag = x.flag
      /\ n \in 0..Len(b) /\ n > 0
      /\ t.outstanding = SubSeq(b, 1, n) /\ ~t.arrived /\ t.slen = n
      /\ t.output = "string" /\ (t.special <=> s.special) /\ t.reply = s.reply
      /\ t.tcp = s.tcp /\ t.conn_id = s.conn_id /\ t.timer = s.timer
      /\ t.page = s.page /\ t.wrote = s.wrote
      /\ t.unsent = s.unsent /\ t.form = s.form
      /\ t.input = s.input /\ t.content_length = s.content_length
      /\ t.inbuf = s.inbuf
  <2>1. b \in Seq(PageBytes) /\ b # <<>>
    BY <1>1
  <2> HIDE DEF b
  <2> QED BY ONLY <2>1, x \in Midway, SendIs DEF y, s, t, n
<1>3. p > 0 /\ p <= s.wrote + 1 /\ b = Stretch(s.conn_id, p, m) /\ m \in Nat
      /\ s.page = Stretch(s.conn_id, 0, p)
  BY <1>1 DEF Ready
<1> HIDE DEF y, n, b, p, m
<1>4. Len(b) = m
  BY <1>1, <1>3, StretchIs
<1>5. t.outstanding = Stretch(s.conn_id, p, n) /\ Len(t.outstanding) = n
  <2>1. n \in 0..m /\ n \in Nat
    BY <1>2, <1>3, <1>4
  <2>2. SubSeq(Stretch(s.conn_id, p, m), 1, n) = Stretch(s.conn_id, p, n)
    BY ONLY <1>1, <1>3, <2>1, StretchCut
  <2>3. Len(Stretch(s.conn_id, p, n)) = n
    BY <1>1, <2>1, StretchIs
  <2> QED BY <1>2, <1>3, <2>2, <2>3
<1>6. Base(t) = p /\ From(t) = p
  BY <1>1, <1>2 DEF Base, From, p
<1>7. p + n <= t.wrote + 1
  BY <1>1, <1>2, <1>3, <1>4 DEF m
<1>8. PageOK(t)
  BY <1>1, <1>2, <1>3, <1>5, <1>6, <1>7 DEF PageOK, p
<1>9. LeftOK(t, y.r)
  BY <1>2, <1>3, <1>6 DEF LeftOK, m, b
<1>10. RequestIn(t) /\ Patient(t)
  BY <1>2 DEF RequestIn, Ready, ReadBound, Patient
<1>11. Done(y)
  BY <1>2, <1>8, <1>9, <1>10 DEF Done, Ready, OpenOK, Owner
<1>12. Frame(x, y)
  BY <1>2 DEF Frame
<1> QED BY <1>11, <1>12 DEF y, b

LEMMA FlagIs ==
  ASSUME NEW x \in Midway, NEW f \in {"none", "close", "abort"}
  PROVE  LET y == [x EXCEPT !.flag = f]
         IN  y \in Midway /\ y.s = x.s /\ y.r = x.r /\ y.ev = x.ev /\ y.new = x.new /\ y.flag = f
BY DEF Midway

\* The page is over.
LEMMA CloseDone ==
  ASSUME NEW x \in Midway, x.s.conn_id # 0, Owner(x.s, x.r), RelayOK(x.r)
  PROVE  LET y == PSOCK_CLOSE(cleanup_special_state(x))
         IN  Done(y) /\ Frame(x, y) /\ (~x.s.special => y.r = x.r) /\ y.flag = "close"
<1> DEFINE z == cleanup_special_state(x)
           y == PSOCK_CLOSE(z)
<1>1. /\ z \in Midway /\ ~z.s.special /\ Owner(z.s, z.r) /\ RelayOK(z.r) /\ Frame(x, z)
      /\ SameConnection(x.s, z.s) /\ (~x.s.special => z.r = x.r)
  BY CleanupKeeps
<1> HIDE DEF z
<1>2. y \in Midway /\ y.s = z.s /\ y.r = z.r /\ y.ev = z.ev /\ y.flag = "close"
  BY <1>1, FlagIs DEF PSOCK_CLOSE
<1> HIDE DEF y
<1>3. Done(y)
  BY <1>1, <1>2 DEF Done, SameConnection
<1>4. Frame(x, y)
  BY <1>1, <1>2 DEF Frame
<1> QED BY <1>1, <1>2, <1>3, <1>4 DEF y, z

LEMMA RelayDone ==
  ASSUME NEW x \in Midway, Ready(x)
  PROVE  Done(Relay(x)) /\ Frame(x, Relay(x))
<1> DEFINE s == x.s
           p == Len(s.page)
           m == s.wrote + 1 - p
<1>1. s \in Slot /\ x.r \in Relays /\ s.wrote \in Nat /\ p \in Nat
  BY MidwayParts, SlotTypes
<1>2. CASE ~basic_running \/ x.r.term
  <2>1. Relay(x) = PSOCK_CLOSE(cleanup_special_state(x))
    BY <1>2 DEF Relay
  <2>2. x.s.conn_id # 0 /\ Owner(x.s, x.r) /\ RelayOK(x.r)
    BY DEF Ready
  <2> QED BY <2>1, <2>2, CloseDone
<1>3. CASE ~(~basic_running \/ x.r.term) /\ x.r.left # <<>>
  <2>1. Relay(x) = psock_send(x, x.r.left, "string")
    BY <1>3 DEF Relay
  <2> QED BY <1>3, <2>1, SendDone
<1>4. CASE ~(~basic_running \/ x.r.term) /\ x.r.left = <<>>
  <2> DEFINE y == Relay(x)
             t == y.s
  <2>1. y = [x EXCEPT !.s.output = "relay"]
    BY <1>4 DEF Relay
  <2> HIDE DEF y
  <2>2. /\ t = [s EXCEPT !.output = "relay"]
        /\ y.r = x.r /\ y.ev = x.ev /\ y.flag = x.flag /\ y.new = x.new
    BY <2>1 DEF Midway
  <2>3. t \in Slot
    <3>1. s \in Slot
      BY <1>1
    <3>2. [s EXCEPT !.output = "relay"] \in Slot
      BY ONLY <3>1 DEF Slot
    <3> QED BY ONLY <2>2, <3>2
  <2>4. y \in Midway
    BY <2>1, <2>2, <2>3 DEF Midway
  <2>5. /\ SameConnection(s, t) /\ t.output = "relay" /\ (t.special <=> s.special)
        /\ t.reply = s.reply /\ t.input = s.input /\ t.content_length = s.content_length
        /\ t.inbuf = s.inbuf
    BY <1>1, <2>2 DEF Slot, SameConnection
  <2>6. p > 0 /\ p <= s.wrote + 1 /\ x.r.left = Stretch(s.conn_id, p, m) /\ m \in Nat
        /\ s.page = Stretch(s.conn_id, 0, p) /\ s.outstanding = <<>>
    BY <1>1 DEF Ready
  <2> HIDE DEF p, m
  <2>7. m = 0
    BY <1>1, <1>4, <2>6, StretchIs
  <2>8. t.page = s.page /\ t.outstanding = <<>> /\ t.conn_id = s.conn_id /\ t.wrote = s.wrote
    BY <2>5, <2>6 DEF SameConnection
  <2>9. Base(t) = p /\ From(t) = p
    BY <1>1, <2>5, <2>8 DEF Base, From, p
  <2>10. Stretch(s.conn_id, p, 0) = <<>> /\ Len(t.outstanding) = 0
    BY <1>1, <2>8, StretchIs
  <2>11. PageOK(t)
    BY <1>1, <2>5, <2>6, <2>8, <2>9, <2>10 DEF PageOK, p
  <2>12. LeftOK(t, y.r)
    BY <2>2, <2>6, <2>8, <2>9 DEF LeftOK, m
  <2>13. RequestIn(t) /\ Patient(t)
    BY <2>5 DEF RequestIn, Ready, ReadBound, Patient, SameConnection
  <2>14. Done(y)
    BY <2>2, <2>4, <2>5, <2>11, <2>12, <2>13 DEF Done, Ready, OpenOK, Owner, SameConnection
  <2>15. Frame(x, y)
    BY <2>2, <2>8 DEF Frame
  <2> QED BY <2>14, <2>15 DEF y
<1> QED BY <1>2, <1>3, <1>4

\* What was acknowledged is taken from the string.
Taken(x, rest) == [x EXCEPT !.r.left = rest]

LEMMA TakenIs ==
  ASSUME NEW x \in Midway, NEW rest \in Seq(PageBytes)
  PROVE  LET y == Taken(x, rest)
         IN  /\ y \in Midway /\ y.s = x.s /\ y.r.left = rest /\ (y.r.active <=> x.r.active)
             /\ y.r.conn_id = x.r.conn_id /\ (y.r.posting <=> x.r.posting)
             /\ y.ev = x.ev /\ y.flag = x.flag /\ y.new = x.new
<1> DEFINE y == Taken(x, rest)
<1>1. x.r \in Relays
  BY MidwayParts
<1>2. y = [x EXCEPT !.r.left = rest]
  BY DEF Taken
<1> HIDE DEF y
<1>3. /\ y.r = [x.r EXCEPT !.left = rest]
      /\ y.s = x.s /\ y.ev = x.ev /\ y.flag = x.flag /\ y.new = x.new
  BY <1>2 DEF Midway
<1>4. y.r \in Relays
  BY <1>1, <1>3 DEF Relays
<1>5. y \in Midway
  BY <1>2, <1>3, <1>4 DEF Midway
<1>6. /\ y.r.left = rest /\ (y.r.active <=> x.r.active)
      /\ y.r.conn_id = x.r.conn_id /\ (y.r.posting <=> x.r.posting)
  BY <1>1, <1>3 DEF Relays
<1> QED BY <1>3, <1>5, <1>6 DEF y

\* An acknowledged part of a string: the next part, or the next string.
LEMMA PacketDone ==
  ASSUME NEW x \in Midway, Going(x), Patient(x.s), "acked" \in x.ev, x.s.output = "string"
  PROVE  Done(send_basic_packet(x)) /\ Frame(x, send_basic_packet(x))
<1> DEFINE s == x.s
           p == Len(s.page)
           k == s.slen
           m == s.wrote + 1 - p
           rest == Drop(x.r.left, k)
           y == Taken(x, rest)
<1>1. s \in Slot /\ x.r \in Relays /\ s.wrote \in Nat /\ p \in Nat /\ s.page \in Seq(PageBytes)
      /\ x.r.left \in Seq(PageBytes)
  <2>1. s \in Slot /\ x.r \in Relays
    BY MidwayParts
  <2> QED BY <2>1, SlotTypes DEF Relays
<1>2. s.special /\ s.input \notin {"headers", "wait"} /\ s.reply # "503" /\ ReadBound(s)
  BY DEF Going, RequestIn, ReadBound
<1>3. /\ s.page = Stretch(s.conn_id, 0, p) /\ s.outstanding = <<>> /\ p <= s.wrote + 1
      /\ k \in 1..(p - 1)
      /\ x.r.left = Stretch(s.conn_id, p - k, s.wrote + 1 - (p - k))
  BY <1>2 DEF Going, PageIn
<1> DEFINE w == s.wrote
           a == p - k
           n == w + 1 - a
<1>4. /\ a \in Nat /\ n \in Nat /\ k \in 0..n /\ a + k = p /\ n - k = m /\ n # 0 /\ p > 0
  <2>1. p \in Nat /\ w \in Nat /\ k \in 1..(p - 1) /\ p <= w + 1 /\ m = w + 1 - p
    BY <1>1, <1>3
  <2> HIDE DEF p, k, w, m
  <2>2. k \in Nat /\ k > 0 /\ k < p
    BY <2>1
  <2> QED BY <2>1, <2>2
<1>b. x.r.left = Stretch(s.conn_id, a, n)
  BY <1>3
<1> HIDE DEF p, k, w, m, a, n
<1>5. rest = Stretch(s.conn_id, p, m)
  <2>1. Drop(Stretch(s.conn_id, a, n), k) = Stretch(s.conn_id, a + k, n - k)
    BY ONLY <1>4, StretchCut
  <2> QED BY <1>4, <1>b, <2>1
<1>6. x.r.left # <<>> /\ rest \in Seq(PageBytes)
  <2>1. Len(x.r.left) = n
    <3>1. Len(Stretch(s.conn_id, a, n)) = n
      BY ONLY <1>4, StretchIs
    <3> QED BY <1>b, <3>1
  <2>2. k \in 0..Len(x.r.left)
    BY <1>4, <2>1
  <2>3. Drop(x.r.left, k) \in Seq(PageBytes)
    BY ONLY <1>1, <2>2, Cut
  <2>4. Len(<<>>) = 0
    OBVIOUS
  <2> QED BY <1>4, <2>1, <2>3, <2>4
<1> HIDE DEF rest, y
<1>7. /\ y \in Midway /\ y.s = s /\ y.r.left = rest /\ (y.r.active <=> x.r.active)
      /\ y.r.conn_id = x.r.conn_id /\ (y.r.posting <=> x.r.posting)
      /\ y.ev = x.ev /\ y.flag = x.flag
  BY <1>6, TakenIs DEF y
<1>8. Owner(y.s, y.r) /\ RelayOK(y.r)
  BY <1>6, <1>7 DEF Going, Owner, RelayOK
<1>9. Ready(y)
  <2>1. /\ s.tcp = "open" /\ s.conn_id # 0 /\ x.flag = "none"
        /\ s.timer < IdlePolls /\ s.unsent <= s.form /\ (PasswordSet \/ s.reply # "401")
    BY DEF Going
  <2> QED BY <1>2, <1>3, <1>4, <1>5, <1>7, <1>8, <2>1 DEF Ready, p, m
<1>10. Frame(x, y)
  BY <1>2, <1>7 DEF Frame, Going, Owner
<1>11. CASE rest # <<>>
  <2>1. send_basic_packet(x) = psock_send(y, y.r.left, "string")
    BY <1>7, <1>11 DEF send_basic_packet, y, Taken, rest, k
  <2>2. Done(send_basic_packet(x)) /\ Frame(y, send_basic_packet(x))
    BY <1>7, <1>9, <1>11, <2>1, SendDone
  <2> QED BY <1>10, <2>2, FrameTwice
<1>12. CASE rest = <<>>
  <2>1. send_basic_packet(x) = Relay(y)
    BY <1>12 DEF send_basic_packet, y, Taken, rest, k
  <2>2. Done(send_basic_packet(x)) /\ Frame(y, send_basic_packet(x))
    BY <1>7, <1>9, <2>1, RelayDone
  <2> QED BY <1>10, <2>2, FrameTwice
<1> QED BY <1>11, <1>12

\* The header, or the refusal, leaves in the call that decided on it.
LEMMA HeaderDone ==
  ASSUME NEW x \in Midway, Going(x), Patient(x.s), x.s.output = "begin"
  PROVE  Done(Header(x)) /\ Frame(x, Header(x))
<1> DEFINE s == x.s
           v == IF PasswordSet /\ ~s.is_authorized THEN "401" ELSE s.reply
           z == [x EXCEPT !.s.reply = v]
           bytes == Stretch(s.conn_id, 0, 1)
           n == Least(Len(bytes), z.s.mss)
           y == psock_send(z, bytes, "header")
           t == y.s
<1>1. /\ s \in Slot /\ x.r \in Relays /\ s.wrote \in Nat /\ s.page \in Seq(PageBytes)
      /\ s.conn_id \in 0..MaxConns /\ s.reply \in {"200", "401", "503"}
  <2>1. s \in Slot /\ x.r \in Relays
    BY MidwayParts
  <2>2. s.reply \in {"200", "401", "503"}
    BY <2>1 DEF Slot
  <2> QED BY <2>1, <2>2, SlotTypes
<1>2. v \in {"200", "401", "503"} /\ (v = s.reply \/ (v = "401" /\ PasswordSet))
  <2>1. CASE PasswordSet /\ ~s.is_authorized
    BY <2>1
  <2>2. CASE ~(PasswordSet /\ ~s.is_authorized)
    <3>1. v = s.reply
      BY <2>2
    <3> HIDE DEF v
    <3> QED BY <1>1, <3>1
  <2> QED BY <2>1, <2>2
<1>3. /\ "acked" \notin x.ev /\ PageOK(s) /\ (s.special => LeftOK(s, x.r))
      /\ s.conn_id # 0
  <2>1. PageIn(x) /\ s.conn_id # 0
    BY DEF Going
  <2> QED BY <2>1 DEF PageIn
<1>4. Len(bytes) = 1 /\ bytes \in Seq(PageBytes) /\ bytes = << <<s.conn_id, 0>> >>
  <2>1. <<s.conn_id, 0>> \in PageBytes
    BY <1>1, <1>3, Sizes DEF PageBytes, Ids
  <2>2. \A i \in 1..1 : <<s.conn_id, 0 + i - 1>> \in PageBytes
    <3>1. \A i \in 1..1 : 0 + i - 1 = 0
      OBVIOUS
    <3> QED BY <2>1, <3>1
  <2>3. 0 \in Nat /\ 1 \in Nat
    OBVIOUS
  <2>4. /\ Len(bytes) = 1 /\ bytes \in Seq(PageBytes)
        /\ \A i \in 1..1 : bytes[i] = <<s.conn_id, 0 + i - 1>>
    BY ONLY <2>2, <2>3, StretchIs
  <2>5. bytes[1] = <<s.conn_id, 0>>
    <3>1. 1 \in 1..1 /\ 0 + 1 - 1 = 0
      OBVIOUS
    <3> QED BY <2>4, <3>1
  <2> HIDE DEF bytes
  <2>6. bytes = << <<s.conn_id, 0>> >>
    <3> DEFINE e == <<s.conn_id, 0>>
    <3>1. bytes \in Seq(PageBytes) /\ Len(bytes) = 1 /\ bytes[1] = e
      BY <2>4, <2>5
    <3> HIDE DEF e
    <3>2. bytes = [i \in 1..1 |-> bytes[i]]
      BY <3>1
    <3>3. DOMAIN <<e>> = 1..1 /\ <<e>>[1] = e
      OBVIOUS
    <3>4. <<e>> = [i \in 1..1 |-> <<e>>[i]]
      OBVIOUS
    <3>5. \A i \in 1..1 : i = 1
      OBVIOUS
    <3>6. bytes = <<e>>
      BY <3>1, <3>2, <3>3, <3>4, <3>5
    <3> QED BY <3>6 DEF e
  <2> QED BY <2>4, <2>6
<1>5. Header(x) = y
  BY <1>4 DEF Header
<1> HIDE DEF v, z
<1>6. /\ z.s = [s EXCEPT !.reply = v]
      /\ z.r = x.r /\ z.ev = x.ev /\ z.flag = x.flag /\ z.new = x.new
  BY DEF z, Midway
<1>7. z.s \in Slot
  <2>1. [s EXCEPT !.reply = v] \in Slot
    BY ONLY <1>1, <1>2 DEF Slot
  <2> QED BY ONLY <1>6, <2>1
<1>8. z \in Midway
  BY <1>6, <1>7 DEF z, Midway
<1>9. /\ SameConnection(s, z.s) /\ (z.s.special <=> s.special) /\ z.s.reply = v
      /\ z.s.input = s.input /\ z.s.content_length = s.content_length /\ z.s.inbuf = s.inbuf
  BY <1>1, <1>6 DEF Slot, SameConnection
<1>10. /\ y \in Midway /\ y.r = x.r /\ y.ev = x.ev /\ y.flag = x.flag
       /\ n \in 0..Len(bytes) /\ (bytes # <<>> => n > 0)
       /\ t.outstanding = SubSeq(bytes, 1, n) /\ ~t.arrived /\ t.slen = n
       /\ t.output = "header" /\ (t.special <=> s.special) /\ t.reply = v
       /\ t.tcp = s.tcp /\ t.conn_id = s.conn_id /\ t.timer = s.timer
       /\ t.page = s.page /\ t.wrote = s.wrote
       /\ t.unsent = s.unsent /\ t.form = s.form
       /\ t.input = s.input /\ t.content_length = s.content_length
       /\ t.inbuf = s.inbuf
  <2> HIDE DEF bytes
  <2>1. /\ y \in Midway /\ y.r = z.r /\ y.ev = z.ev /\ y.flag = z.flag
        /\ n \in 0..Len(bytes) /\ (bytes # <<>> => n > 0)
        /\ t.outstanding = SubSeq(bytes, 1, n) /\ ~t.arrived /\ t.slen = n
        /\ t.output = "header" /\ (t.special <=> z.s.special) /\ t.reply = z.s.reply
        /\ t.tcp = z.s.tcp /\ t.conn_id = z.s.conn_id /\ t.timer = z.s.timer
        /\ t.page = z.s.page /\ t.wrote = z.s.wrote
        /\ t.unsent = z.s.unsent /\ t.form = z.s.form
        /\ t.input = z.s.input /\ t.content_length = z.s.content_length
        /\ t.inbuf = z.s.inbuf
    <3>1. z \in Midway /\ bytes \in Seq(PageBytes) /\ "header" \in {"header", "string"}
      BY <1>4, <1>8
    <3> QED BY ONLY <3>1, SendIs DEF y, n
  <2> HIDE DEF y, n
  <2> QED BY <1>6, <1>9, <2>1 DEF SameConnection
<1> HIDE DEF y, n
<1>11. n = 1
  <2> HIDE DEF bytes
  <2>1. bytes # <<>>
    BY <1>4
  <2> QED BY <1>4, <1>10, <2>1
<1>12. t.outstanding = Stretch(s.conn_id, 0, 1) /\ Len(t.outstanding) = 1
  <2>1. 0 \in Nat /\ 1 \in Nat /\ 1 \in 0..1
    OBVIOUS
  <2>2. SubSeq(Stretch(s.conn_id, 0, 1), 1, 1) = Stretch(s.conn_id, 0, 1)
    BY ONLY <2>1, StretchCut
  <2> QED BY <1>4, <1>10, <1>11, <2>2
<1>13. Len(s.page) = 0 /\ s.wrote = 0
  <2>1. Base(s) = 0 /\ s.outstanding = <<>> /\ s.wrote = 0
    BY <1>3 DEF PageOK
  <2>2. Len(<<>>) = 0 /\ Len(s.page) \in Nat
    BY <1>1
  <2> QED BY <2>1, <2>2 DEF Base
<1>14. Base(t) = 0 /\ From(t) = 1 /\ From(s) = 1
  <2>1. t.page = s.page /\ ~t.arrived /\ t.output = "header"
    BY <1>10
  <2> HIDE DEF t
  <2> QED BY <1>13, <2>1 DEF Base, From
<1>15. PageOK(t)
  BY <1>3, <1>10, <1>12, <1>13, <1>14 DEF PageOK
<1>16. t.special => LeftOK(t, y.r)
  BY <1>3, <1>10, <1>14 DEF LeftOK
<1>17. RequestIn(t)
  BY <1>2, <1>10 DEF RequestIn, Going
<1>18. Patient(t) /\ Owner(t, y.r) /\ RelayOK(y.r)
  BY <1>10 DEF Patient, Going, Owner
<1>19. Done(y)
  BY <1>2, <1>10, <1>15, <1>16, <1>17, <1>18 DEF Done, OpenOK, Going
<1>20. Frame(x, y)
  BY <1>10 DEF Frame
<1> QED BY <1>5, <1>19, <1>20

\* handle_output after the turns of handle_input.
LEMMA OutputDone ==
  ASSUME NEW x \in Midway, Going(x), Patient(x.s)
  PROVE  Done(handle_output(x)) /\ Frame(x, handle_output(x))
<1> DEFINE s == x.s
           y == handle_output(x)
<1>1. /\ s \in Slot /\ s.wrote \in Nat /\ s.page \in Seq(PageBytes) /\ Len(s.page) \in Nat
      /\ s.reply \in {"200", "401", "503"} /\ x.r \in Relays
  <2>1. s \in Slot /\ x.r \in Relays
    BY MidwayParts
  <2>2. s.reply \in {"200", "401", "503"}
    BY <2>1 DEF Slot
  <2>3. s.page \in Seq(PageBytes) /\ s.wrote \in Nat
    BY <2>1, SlotTypes
  <2> QED BY <2>1, <2>2, <2>3
<1>2. /\ s.tcp = "open" /\ s.conn_id # 0 /\ x.flag = "none"
      /\ s.timer < IdlePolls /\ s.unsent <= s.form /\ (PasswordSet \/ s.reply # "401")
      /\ PageIn(x) /\ RequestIn(s) /\ Owner(s, x.r) /\ RelayOK(x.r)
  BY DEF Going
<1>3. CASE s.output = "begin"
  <2>1. y = Header(x)
    BY <1>3 DEF handle_output
  <2> QED BY <1>3, <2>1, HeaderDone
<1>4. CASE s.output = "header" /\ "acked" \in x.ev
  <2>1. CASE s.reply = "200"
    <3>1. y = Relay(x)
      BY <1>4, <2>1 DEF handle_output
    <3>2. s.special /\ s.input \notin {"headers", "wait"} /\ s.reply # "503" /\ ReadBound(s)
      BY <1>2, <1>4, <2>1 DEF RequestIn, ReadBound
    <3>3. /\ s.page = Stretch(s.conn_id, 0, Len(s.page)) /\ s.outstanding = <<>>
          /\ Len(s.page) <= s.wrote + 1 /\ Len(s.page) = 1
          /\ x.r.left = Stretch(s.conn_id, 1, s.wrote)
      BY <1>2, <1>4, <3>2 DEF PageIn
    <3>4. Len(s.page) > 0 /\ s.wrote + 1 - Len(s.page) = s.wrote
      BY <1>1, <3>3
    <3>5. Ready(x)
      BY <1>2, <3>2, <3>3, <3>4 DEF Ready
    <3> QED BY <3>1, <3>5, RelayDone
  <2>2. CASE s.reply # "200"
    <3>1. y = PSOCK_CLOSE(x)
      BY <1>4, <2>2 DEF handle_output
    <3>2. y \in Midway /\ y.s = s /\ y.r = x.r /\ y.ev = x.ev /\ y.flag = "close"
      <4>1. y = [x EXCEPT !.flag = "close"]
        BY <3>1 DEF PSOCK_CLOSE
      <4> HIDE DEF y
      <4> QED BY <4>1 DEF Midway
    <3>3. PasswordSet \/ ~s.special
      BY <1>1, <1>2, <2>2 DEF RequestIn
    <3> HIDE DEF y
    <3>4. Done(y)
      BY <1>2, <3>2, <3>3 DEF Done
    <3>5. Frame(x, y)
      BY <3>2 DEF Frame
    <3> QED BY <3>4, <3>5 DEF y
  <2> QED BY <2>1, <2>2
<1>5. CASE s.output = "string" /\ "acked" \in x.ev
  <2>1. y = send_basic_packet(x)
    BY <1>5 DEF handle_output
  <2> QED BY <1>5, <2>1, PacketDone
<1>6. CASE s.output = "relay"
  <2>1. y = Relay(x)
    BY <1>6 DEF handle_output
  <2>2. "acked" \notin x.ev /\ PageOK(s) /\ (s.special => LeftOK(s, x.r))
    BY <1>2, <1>6 DEF PageIn
  <2>3. s.special /\ s.input \notin {"headers", "wait"} /\ s.reply # "503" /\ ReadBound(s)
    BY <1>2, <1>6 DEF RequestIn, ReadBound
  <2>4. s.outstanding = <<>> /\ Base(s) > 0 /\ Base(s) + Len(s.outstanding) <= s.wrote + 1
        /\ s.page = Stretch(s.conn_id, 0, Len(s.page))
    BY <1>6, <2>2 DEF PageOK
  <2>5. Base(s) = Len(s.page) /\ From(s) = Len(s.page)
    <3>1. Len(<<>>) = 0
      OBVIOUS
    <3> QED BY <1>1, <1>6, <2>4, <3>1 DEF Base, From
  <2>6. x.r.left = Stretch(s.conn_id, Len(s.page), s.wrote + 1 - Len(s.page))
    BY <2>2, <2>3, <2>5 DEF LeftOK
  <2>7. Len(s.page) > 0 /\ Len(s.page) <= s.wrote + 1
    BY <1>1, <2>4, <2>5
  <2>8. Ready(x)
    BY <1>2, <2>3, <2>4, <2>6, <2>7 DEF Ready
  <2> QED BY <2>1, <2>8, RelayDone
<1>7. CASE /\ s.output # "begin" /\ s.output # "relay"
           /\ ~(s.output = "header" /\ "acked" \in x.ev)
           /\ ~(s.output = "string" /\ "acked" \in x.ev)
  <2>1. y = x
    BY <1>7 DEF handle_output
  <2>2. "acked" \notin x.ev /\ PageOK(s) /\ (s.special => LeftOK(s, x.r))
    BY <1>2, <1>7 DEF PageIn
  <2> HIDE DEF y
  <2>3. Done(y)
    BY <1>2, <1>7, <2>1, <2>2 DEF Done, OpenOK
  <2>4. Frame(x, y)
    BY <2>1 DEF Frame
  <2> QED BY <2>3, <2>4 DEF y
<1> QED BY <1>3, <1>4, <1>5, <1>6, <1>7

LEMMA OutputAborting ==
  ASSUME NEW x \in Midway, Aborting(x)
  PROVE  /\ Done(handle_output(x)) /\ handle_output(x).r = x.r
         /\ handle_output(x).s.conn_id = x.s.conn_id /\ handle_output(x).flag # "none"
<1> DEFINE s == x.s
           y == handle_output(x)
<1>1. /\ s.tcp = "open" /\ s.conn_id # 0 /\ x.flag = "abort" /\ "acked" \notin x.ev
      /\ Owner(s, x.r) /\ RelayOK(x.r) /\ ~s.special /\ s.output # "begin"
  BY DEF Aborting
<1>2. s \in Slot /\ x.r \in Relays
  BY MidwayParts
<1>3. CASE s.output = "relay"
  <2>1. y = Relay(x) /\ x.r.left = <<>>
    BY <1>1, <1>3 DEF handle_output, Aborting
  <2>2. CASE ~basic_running \/ x.r.term
    <3>1. y = PSOCK_CLOSE(cleanup_special_state(x))
      BY <2>1, <2>2 DEF Relay
    <3>2. Done(y) /\ Frame(x, y) /\ y.r = x.r /\ y.flag = "close"
      BY <1>1, <3>1, CloseDone
    <3> QED BY <3>2 DEF Frame
  <2>3. CASE ~(~basic_running \/ x.r.term)
    <3>1. y = [x EXCEPT !.s.output = "relay"]
      BY <2>1, <2>3 DEF Relay
    <3> HIDE DEF y
    <3>2. /\ y.s = [s EXCEPT !.output = "relay"]
          /\ y.r = x.r /\ y.ev = x.ev /\ y.flag = x.flag /\ y.new = x.new
      BY <3>1 DEF Midway
    <3>3. y.s \in Slot
      <4>1. s \in Slot
        BY <1>2
      <4>2. [s EXCEPT !.output = "relay"] \in Slot
        BY ONLY <4>1 DEF Slot
      <4> QED BY ONLY <3>2, <4>2
    <3>4. y \in Midway
      BY <3>1, <3>2, <3>3 DEF Midway
    <3>5. y.s.conn_id = s.conn_id /\ (y.s.special <=> s.special)
      BY <1>2, <3>2 DEF Slot
    <3>6. Done(y)
      BY <1>1, <3>2, <3>4, <3>5 DEF Done, Owner
    <3> QED BY <1>1, <3>2, <3>5, <3>6 DEF y
  <2> QED BY <2>2, <2>3
<1>4. CASE s.output # "relay"
  <2>1. y = x
    BY <1>1, <1>4 DEF handle_output
  <2> HIDE DEF y
  <2>2. Done(y)
    BY <1>1, <2>1 DEF Done
  <2> QED BY <1>1, <2>1, <2>2 DEF y
<1> QED BY <1>3, <1>4

WithTimer(x, t) == [x EXCEPT !.s.timer = t]

LEMMA TimerIs ==
  ASSUME NEW x \in Midway, NEW t \in 0..IdlePolls
  PROVE  LET y == WithTimer(x, t)
             s == x.s
         IN  /\ y \in Midway /\ y.r = x.r /\ y.ev = x.ev /\ y.flag = x.flag /\ y.new = x.new
             /\ y.s.timer = t /\ y.s.tcp = s.tcp /\ y.s.conn_id = s.conn_id
             /\ y.s.outstanding = s.outstanding /\ y.s.arrived = s.arrived
             /\ y.s.slen = s.slen /\ y.s.page = s.page /\ y.s.wrote = s.wrote
             /\ y.s.unsent = s.unsent /\ y.s.form = s.form /\ y.s.output = s.output
             /\ y.s.input = s.input /\ y.s.content_length = s.content_length
             /\ y.s.inbuf = s.inbuf /\ (y.s.special <=> s.special) /\ y.s.reply = s.reply
<1> DEFINE y == WithTimer(x, t)
           s == x.s
<1>1. s \in Slot
  BY MidwayParts
<1>2. y = [x EXCEPT !.s.timer = t]
  BY DEF WithTimer
<1> HIDE DEF y
<1>3. /\ y.s = [s EXCEPT !.timer = t]
      /\ y.r = x.r /\ y.ev = x.ev /\ y.flag = x.flag /\ y.new = x.new
  BY <1>2 DEF Midway
<1>4. y.s \in Slot
  <2>1. s \in Slot
    BY <1>1
  <2>2. [s EXCEPT !.timer = t] \in Slot
    BY ONLY <2>1, t \in 0..IdlePolls DEF Slot
  <2> QED BY ONLY <1>3, <2>2
<1>5. y \in Midway
  BY <1>2, <1>3, <1>4 DEF Midway
<1>6. /\ y.s.timer = t /\ y.s.tcp = s.tcp /\ y.s.conn_id = s.conn_id
      /\ y.s.outstanding = s.outstanding /\ y.s.arrived = s.arrived
      /\ y.s.slen = s.slen /\ y.s.page = s.page /\ y.s.wrote = s.wrote
      /\ y.s.unsent = s.unsent /\ y.s.form = s.form /\ y.s.output = s.output
      /\ y.s.input = s.input /\ y.s.content_length = s.content_length
      /\ y.s.inbuf = s.inbuf /\ (y.s.special <=> s.special) /\ y.s.reply = s.reply
  BY <1>1, <1>3 DEF Slot
<1> QED BY <1>3, <1>5, <1>6 DEF y

LEMMA TimerGoing ==
  ASSUME NEW x \in Midway, Going(x), NEW t \in 0..IdlePolls, t < IdlePolls
  PROVE  /\ WithTimer(x, t) \in Midway /\ Going(WithTimer(x, t)) /\ Frame(x, WithTimer(x, t))
<1> DEFINE y == WithTimer(x, t)
           s == x.s
<1>1. /\ y \in Midway /\ y.r = x.r /\ y.ev = x.ev /\ y.flag = x.flag
      /\ y.s.timer = t /\ y.s.tcp = s.tcp /\ y.s.conn_id = s.conn_id
      /\ y.s.outstanding = s.outstanding /\ y.s.arrived = s.arrived
      /\ y.s.slen = s.slen /\ y.s.page = s.page /\ y.s.wrote = s.wrote
      /\ y.s.unsent = s.unsent /\ y.s.form = s.form /\ y.s.output = s.output
      /\ y.s.input = s.input /\ y.s.content_length = s.content_length
      /\ y.s.inbuf = s.inbuf /\ (y.s.special <=> s.special) /\ y.s.reply = s.reply
  BY TimerIs
<1> HIDE DEF y
<1>2. RequestIn(y.s)
  BY <1>1 DEF Going, RequestIn
<1>3. PageIn(y)
  <2>1. CASE "acked" \in x.ev
    BY <1>1, <2>1 DEF Going, PageIn
  <2>2. CASE "acked" \notin x.ev
    <3>1. PageOK(s) /\ (s.special => LeftOK(s, x.r))
      BY <2>2 DEF Going, PageIn
    <3>2. PageOK(y.s)
      BY <1>1, <3>1 DEF PageOK, Base
    <3>3. y.s.special => LeftOK(y.s, y.r)
      BY <1>1, <3>1 DEF LeftOK, From, Base
    <3> QED BY <1>1, <2>2, <3>2, <3>3 DEF PageIn
  <2> QED BY <2>1, <2>2
<1>4. Owner(y.s, y.r) /\ RelayOK(y.r)
  BY <1>1 DEF Going, Owner
<1>5. Going(y) /\ Frame(x, y)
  BY <1>1, <1>2, <1>3, <1>4 DEF Going, Frame
<1> QED BY <1>1, <1>5 DEF y

\* What a call does to the slot and the relay.
LEMMA CallClosed ==
  ASSUME NEW x \in Midway, "closed" \in x.ev, x.s.conn_id # 0, Owner(x.s, x.r), RelayOK(x.r),
         NEW y \in httpd_appcall(x)
  PROVE  Done(y) /\ Frame(x, y) /\ y.flag = "abort"
<1> DEFINE z == cleanup_special_state(x)
<1>1. y = [z EXCEPT !.flag = "abort"]
  BY DEF httpd_appcall
<1>2. /\ z \in Midway /\ ~z.s.special /\ Owner(z.s, z.r) /\ RelayOK(z.r) /\ Frame(x, z)
      /\ SameConnection(x.s, z.s)
  BY CleanupKeeps
<1> HIDE DEF z
<1>3. y \in Midway /\ y.s = z.s /\ y.r = z.r /\ y.ev = z.ev /\ y.flag = "abort"
  BY <1>1, <1>2 DEF Midway
<1>4. Done(y)
  BY <1>2, <1>3 DEF Done, SameConnection
<1>5. Frame(x, y)
  BY <1>2, <1>3 DEF Frame
<1> QED BY <1>3, <1>4, <1>5

LEMMA CallGoing ==
  ASSUME NEW x \in Midway, Going(x), NEW y \in handle_connection(x)
  PROVE  Done(y) /\ Frame(x, y)
<1>1. PICK z \in handle_input(x) : y = handle_output(z)
  BY DEF handle_connection
<1>2. z \in Midway /\ Going(z) /\ Frame(x, z) /\ Patient(z.s)
  BY InputGoing
<1>3. Done(y) /\ Frame(z, y)
  BY <1>1, <1>2, OutputDone
<1> QED BY <1>2, <1>3, FrameTwice

LEMMA CallAborting ==
  ASSUME NEW x \in Midway, Aborting(x), NEW y \in handle_connection(x)
  PROVE  Done(y) /\ y.r = x.r /\ y.s.conn_id = x.s.conn_id
<1>1. PICK z \in handle_input(x) : y = handle_output(z)
  BY DEF handle_connection
<1>2. z \in Midway /\ Aborting(z) /\ z.r = x.r /\ z.s.conn_id = x.s.conn_id
  BY InputAborting
<1>3. /\ Done(y) /\ y.r = z.r /\ y.s.conn_id = z.s.conn_id
  BY <1>1, <1>2, OutputAborting
<1> QED BY <1>2, <1>3

\* A connection whose patience is over gives the relay back.
LEMMA PolledOut ==
  ASSUME NEW x \in Midway, Going(x), Patient(x.s), "acked" \notin x.ev, x.s.output # "begin",
         ~(x.s.timer + 1 < IdlePolls)
  PROVE  Polled(x) \in Midway /\ Aborting(Polled(x)) /\ Frame(x, Polled(x))
<1> DEFINE t == x.s.timer + 1
           w == WithTimer(x, t)
           c == cleanup_special_state(w)
           q == [c EXCEPT !.flag = "abort"]
<1>1. x.s.timer \in Nat /\ x.s.timer < IdlePolls /\ IdlePolls \in Nat
  <2>1. x.s \in Slot
    BY MidwayParts
  <2> QED BY <2>1, SlotTypes, Sizes DEF Going
<1>2. t \in 0..IdlePolls /\ Polled(x) = q
  BY <1>1 DEF Polled, WithTimer
<1>3. x.s.tcp = "open" /\ x.s.conn_id # 0 /\ RequestIn(x.s) /\ Owner(x.s, x.r) /\ RelayOK(x.r)
  BY DEF Going
<1>4. x.s.input # "wait"
  <2>1. WaitPolls \in Nat /\ WaitPolls + 1 < IdlePolls
    BY Sizes
  <2>2. ~(x.s.timer <= WaitPolls)
    BY <1>1, <2>1
  <2> QED BY <2>2 DEF Patient
<1> HIDE DEF t
<1>5. /\ w \in Midway /\ w.r = x.r /\ w.ev = x.ev
      /\ w.s.tcp = x.s.tcp /\ w.s.conn_id = x.s.conn_id /\ w.s.output = x.s.output
      /\ w.s.input = x.s.input /\ w.s.content_length = x.s.content_length
      /\ w.s.inbuf = x.s.inbuf /\ (w.s.special <=> x.s.special)
  BY <1>2, TimerIs
<1> HIDE DEF w
<1>6. Owner(w.s, w.r) /\ RelayOK(w.r)
  BY <1>3, <1>5 DEF Owner
<1>7. /\ c \in Midway /\ ~c.s.special /\ Owner(c.s, c.r) /\ RelayOK(c.r) /\ Frame(w, c)
      /\ SameConnection(w.s, c.s) /\ c.s.input = w.s.input /\ c.s.output = w.s.output
      /\ c.s.content_length = w.s.content_length /\ c.s.inbuf = w.s.inbuf
      /\ c.ev = w.ev
      /\ IF w.s.special THEN ~c.r.posting /\ c.r.left = <<>> ELSE c.r = w.r
  BY <1>5, <1>6, CleanupKeeps
<1> HIDE DEF c
<1>8. q \in Midway /\ q.s = c.s /\ q.r = c.r /\ q.ev = c.ev /\ q.flag = "abort"
  BY <1>7 DEF Midway
<1> HIDE DEF q
<1>9. /\ q.s.tcp = "open" /\ q.s.conn_id = x.s.conn_id /\ q.s.input = x.s.input
      /\ q.s.output = x.s.output /\ q.s.content_length = x.s.content_length
      /\ q.s.inbuf = x.s.inbuf
  BY <1>3, <1>5, <1>7, <1>8 DEF SameConnection
<1>10. ReadBound(q.s)
  BY <1>3, <1>9 DEF RequestIn, ReadBound
<1>11. \/ ~q.r.posting /\ q.r.left = <<>>
       \/ /\ q.s.output \in {"none", "header"} /\ q.s.input # "hold"
          /\ IF q.s.output = "none" THEN q.s.input = "headers" ELSE q.s.content_length = 0
  BY <1>3, <1>4, <1>5, <1>7, <1>8, <1>9 DEF RequestIn
<1>12. Aborting(q)
  BY <1>3, <1>4, <1>5, <1>7, <1>8, <1>9, <1>10, <1>11 DEF Aborting
<1>13. Frame(x, q)
  BY <1>5, <1>7, <1>8, <1>9 DEF Frame
<1> QED BY <1>2, <1>8, <1>12, <1>13

LEMMA CallDone ==
  ASSUME NEW x \in Midway, Going(x), "closed" \notin x.ev,
         "poll" \in x.ev => Patient(x.s) /\ "acked" \notin x.ev /\ x.s.output # "begin",
         NEW y \in httpd_appcall(x)
  PROVE  Done(y) /\ Frame(x, y)
<1> DEFINE t == x.s.timer + 1
           w == WithTimer(x, t)
           z == IF "poll" \in x.ev THEN Polled(x) ELSE WithTimer(x, 0)
<1>1. x.s.timer \in Nat /\ x.s.timer < IdlePolls /\ IdlePolls \in Nat
  <2>1. x.s \in Slot
    BY MidwayParts
  <2> QED BY <2>1, SlotTypes, Sizes DEF Going
<1>2. y \in handle_connection(z)
  BY DEF httpd_appcall, WithTimer
<1>3. CASE "poll" \notin x.ev
  <2>1. 0 \in 0..IdlePolls /\ 0 < IdlePolls
    BY <1>1
  <2>2. WithTimer(x, 0) \in Midway /\ Going(WithTimer(x, 0)) /\ Frame(x, WithTimer(x, 0))
    BY ONLY <2>1, x \in Midway, Going(x), TimerGoing
  <2>3. y \in handle_connection(WithTimer(x, 0))
    BY <1>2, <1>3
  <2>4. Done(y) /\ Frame(WithTimer(x, 0), y)
    BY ONLY <2>2, <2>3, CallGoing
  <2> QED BY <2>2, <2>4, FrameTwice
<1>4. CASE "poll" \in x.ev /\ t < IdlePolls
  <2>1. t \in 0..IdlePolls /\ Polled(x) = w
    BY <1>1, <1>4 DEF Polled, WithTimer
  <2>2. y \in handle_connection(w)
    BY <1>2, <1>4, <2>1
  <2> HIDE DEF t, w
  <2>3. w \in Midway /\ Going(w) /\ Frame(x, w)
    BY <1>4, <2>1, TimerGoing DEF w
  <2>4. Done(y) /\ Frame(w, y)
    BY ONLY <2>2, <2>3, CallGoing
  <2> QED BY <2>3, <2>4, FrameTwice
<1>5. CASE "poll" \in x.ev /\ ~(t < IdlePolls)
  <2>1. Polled(x) \in Midway /\ Aborting(Polled(x)) /\ Frame(x, Polled(x))
    BY <1>5, PolledOut
  <2>2. y \in handle_connection(Polled(x))
    BY <1>2, <1>5
  <2> HIDE DEF t, w, z
  <2>3. Done(y) /\ y.r = Polled(x).r /\ y.s.conn_id = Polled(x).s.conn_id
    BY ONLY <2>1, <2>2, CallAborting
  <2> QED BY <2>1, <2>3 DEF Frame
<1> QED BY <1>3, <1>4, <1>5

-----------------------------------------------------------------------------
(* The slot after the call *)

Closing(s) ==
  [FreeSlot EXCEPT !.tcp = "closing", !.conn_id = s.conn_id, !.special = s.special,
                   !.form = s.form, !.posted = s.posted, !.waited = s.waited]

LEMMA FreeSlotIs ==
  /\ FreeSlot \in Slot /\ FreeSlot.tcp = "free" /\ FreeSlot.conn_id = 0 /\ ~FreeSlot.special
  /\ FreeSlot.reply = "200" /\ FreeSlot.wrote = 0 /\ FreeSlot.timer = 0 /\ FreeSlot.unsent = 0
  /\ FreeSlot.form = 0 /\ FreeSlot.inbuf = <<>> /\ FreeSlot.arrived = FALSE
  /\ FreeSlot.content_length = 0 /\ Shut(FreeSlot)
<1>1. FreeSlot \in Slot
  <2>1. /\ 0 \in 0..UIP_MAXRTX /\ MSS \in 1..MSS /\ 0 \in 0..MaxBody /\ 0 \in 0..MaxConns
        /\ 0 \in 0..IdlePolls /\ 0 \in 0..MaxOut /\ 0 \in Nat
    BY Sizes
  <2>2. <<>> \in Seq(PageBytes) /\ <<>> \in Seq(FormBytes)
    OBVIOUS
  <2>3. Unasked \in [asked: PostLens \cup {0}, got: Seq(FormBytes)]
    BY <2>2 DEF Unasked
  <2> QED BY <2>1, <2>2, <2>3 DEF FreeSlot, Slot
<1> QED BY <1>1 DEF FreeSlot, Shut

LEMMA ClosingIs ==
  ASSUME NEW s \in Slot
  PROVE  LET t == Closing(s)
         IN  /\ t \in Slot /\ t.tcp = "closing" /\ t.conn_id = s.conn_id
             /\ (t.special <=> s.special) /\ t.reply = "200" /\ t.wrote = 0 /\ Shut(t)
             /\ t.form = s.form /\ t.posted = s.posted /\ t.waited = s.waited
<1> DEFINE t == Closing(s)
<1>1. t = [FreeSlot EXCEPT !.tcp = "closing", !.conn_id = s.conn_id, !.special = s.special,
                           !.form = s.form, !.posted = s.posted, !.waited = s.waited]
  BY DEF Closing
<1>2. FreeSlot \in Slot /\ FreeSlot.reply = "200" /\ FreeSlot.wrote = 0 /\ Shut(FreeSlot)
  BY FreeSlotIs
<1> HIDE DEF t
<1>3. t \in Slot
  <2>1. FreeSlot \in Slot
    BY <1>2
  <2>2. /\ s.conn_id \in 0..MaxConns /\ s.special \in BOOLEAN /\ s.form \in 0..MaxBody
        /\ s.posted \in [asked: PostLens \cup {0}, got: Seq(FormBytes)] /\ s.waited \in BOOLEAN
    BY DEF Slot
  <2>3. [FreeSlot EXCEPT !.tcp = "closing", !.conn_id = s.conn_id, !.special = s.special,
                         !.form = s.form, !.posted = s.posted, !.waited = s.waited] \in Slot
    BY ONLY <2>1, <2>2 DEF Slot
  <2> QED BY ONLY <1>1, <2>3
<1>4. t.tcp = "closing" /\ t.conn_id = s.conn_id /\ (t.special <=> s.special)
  BY <1>1, <1>2 DEF Slot
<1>5. t.reply = "200" /\ t.wrote = 0 /\ Shut(t)
  BY <1>1, <1>2 DEF Slot, Shut
<1>6. t.form = s.form /\ t.posted = s.posted /\ t.waited = s.waited
  BY <1>1, <1>2 DEF Slot
<1> QED BY <1>3, <1>4, <1>5, <1>6 DEF t

\* What uIP makes of the slot.
LEMMA UipDone ==
  ASSUME NEW y, Done(y)
  PROVE  /\ Uip(y) \in Slot /\ SlotOK(Uip(y), y.r)
         /\ Uip(y).conn_id \in {0, y.s.conn_id}
         /\ PasswordSet \/ (y.r.active /\ y.r.conn_id = y.s.conn_id => Uip(y).special)
<1> DEFINE t == Uip(y)
<1>1. y \in Midway /\ y.s.conn_id # 0 /\ Owner(y.s, y.r) /\ RelayOK(y.r)
  BY DEF Done
<1>2. y.s \in Slot /\ y.s.conn_id \in 0..MaxConns /\ y.flag \in {"none", "close", "abort"}
      /\ y.s.special \in BOOLEAN
  BY <1>1, MidwayParts, SlotTypes
<1>3. CASE y.flag = "none"
  <2>1. t = y.s
    BY <1>3 DEF Uip
  <2>2. y.s.tcp = "open" /\ OpenOK(y.s, y.r) /\ (PasswordSet \/ y.s.reply # "401")
    BY <1>3 DEF Done
  <2>3. SlotOK(y.s, y.r)
    BY <1>1, <2>2 DEF SlotOK
  <2> QED BY <1>1, <1>2, <2>1, <2>3 DEF Owner
<1>4. CASE y.flag = "abort"
  <2>1. t = FreeSlot
    BY <1>4 DEF Uip
  <2>2. ~y.s.special
    BY <1>4 DEF Done
  <2>3. SlotOK(FreeSlot, y.r)
    BY <1>1, FreeSlotIs DEF SlotOK, Owner, RelayOK
  <2> QED BY <1>1, <2>1, <2>2, <2>3, FreeSlotIs DEF Owner
<1>5. CASE y.flag = "close"
  <2>1. t = Closing(y.s)
    BY <1>5 DEF Uip, Closing
  <2>2. PasswordSet \/ ~y.s.special
    BY <1>5 DEF Done
  <2>3. /\ t \in Slot /\ t.tcp = "closing" /\ t.conn_id = y.s.conn_id
        /\ (t.special <=> y.s.special) /\ t.reply = "200" /\ Shut(t)
    BY <1>2, <2>1, ClosingIs
  <2> HIDE DEF t
  <2>4. SlotOK(t, y.r)
    BY <1>1, <2>2, <2>3 DEF SlotOK, Owner
  <2> QED BY <1>1, <2>2, <2>3, <2>4 DEF Owner, t
<1> QED BY <1>2, <1>3, <1>4, <1>5

-----------------------------------------------------------------------------
(* The events *)

In(s, ev, new) == [s |-> s, r |-> relay, ev |-> ev, new |-> new, flag |-> "none"]

\* A call that may follow in a state of the invariant.
Enters(c, s, ev, new) ==
  /\ s \in Slot /\ ev \subseteq Flags /\ new \in Seq(FormBytes)
  /\ s.conn_id = conns[c].conn_id /\ s.conn_id # 0 /\ (s.special <=> conns[c].special)
  /\ "closed" \notin ev =>
       /\ Going(In(s, ev, new))
       /\ "poll" \in ev => Patient(s) /\ "acked" \notin ev /\ s.output # "begin"

\* A slot that the step leaves alone goes on as before.
LEMMA OtherSlot ==
  ASSUME NEW d, NEW r, NEW q, NEW id, SlotOK(d, r), d.conn_id # id, id # 0,
         RelayOK(q),
         r.active /\ r.conn_id # id => q = r,
         q.active /\ q.conn_id # id => r.active /\ r.conn_id = q.conn_id
  PROVE  SlotOK(d, q)
<1>1. Owner(d, q)
  BY DEF SlotOK, Owner
<1>2. d.special => q = r
  BY DEF SlotOK, Owner
<1>3. d.tcp = "open" => OpenOK(d, q)
  BY <1>2 DEF SlotOK, OpenOK
<1> QED BY <1>1, <1>3 DEF SlotOK

LEMMA CalledDone ==
  ASSUME Inv, NEW c \in Slots, NEW s, NEW ev, NEW new, Enters(c, s, ev, new),
         Called(c, s, ev, new)
  PROVE  \E y \in httpd_appcall(In(s, ev, new)) :
           /\ conns' = [conns EXCEPT ![c] = Uip(y)] /\ relay' = y.r
           /\ Done(y) /\ Frame(In(s, ev, new), y)
<1> DEFINE x == In(s, ev, new)
<1>1. PICK y \in httpd_appcall(x) :
        conns' = [conns EXCEPT ![c] = Uip(y)] /\ relay' = y.r
  BY DEF Called, In
<1>2. TypeOK /\ RelayOK(relay) /\ SlotOK(conns[c], relay)
  BY DEF Inv
<1>3. x \in Midway /\ x.s = s /\ x.r = relay /\ x.ev = ev
  BY <1>2 DEF In, Midway, Enters, TypeOK
<1>4. s.conn_id = conns[c].conn_id /\ s.conn_id # 0 /\ (s.special <=> conns[c].special)
  BY DEF Enters
<1>5. Owner(s, relay)
  BY <1>2, <1>4 DEF SlotOK, Owner
<1>6. CASE "closed" \in ev
  BY <1>1, <1>2, <1>3, <1>4, <1>5, <1>6, CallClosed
<1>7. CASE "closed" \notin ev
  <2>1. Going(x) /\ ("poll" \in x.ev => Patient(x.s) /\ "acked" \notin x.ev /\ x.s.output # "begin")
    BY <1>3, <1>7 DEF Enters
  <2>2. "closed" \notin x.ev
    BY <1>3, <1>7
  <2> HIDE DEF x
  <2>3. Done(y) /\ Frame(x, y)
    BY ONLY <1>3, <2>1, <2>2, y \in httpd_appcall(x), CallDone
  <2> QED BY <1>1, <2>3 DEF x
<1> QED BY <1>6, <1>7

LEMMA CalledInv ==
  ASSUME Inv, NEW c \in Slots, NEW s, NEW ev, NEW new, Enters(c, s, ev, new),
         Called(c, s, ev, new), UNCHANGED <<cur_conn_id, program>>
  PROVE  Inv'
<1> DEFINE x == In(s, ev, new)
<1>1. PICK y \in httpd_appcall(x) :
        /\ conns' = [conns EXCEPT ![c] = Uip(y)] /\ relay' = y.r
        /\ Done(y) /\ Frame(x, y)
  BY CalledDone
<1>2. /\ TypeOK /\ ProgramOK /\ IdsOK /\ RelayOK(relay)
      /\ \A d \in Slots : SlotOK(conns[d], relay)
      /\ PasswordSet \/ Held
  BY DEF Inv
<1>3. x.s = s /\ x.r = relay
  BY DEF In
<1>4. s.conn_id = conns[c].conn_id /\ s.conn_id # 0 /\ (s.special <=> conns[c].special)
  BY DEF Enters
<1>6. Done(y) /\ Frame(x, y)
  BY <1>1
<1> DEFINE t == Uip(y)
           id == s.conn_id
<1>7. /\ y.r \in Relays /\ y.s.conn_id = id /\ RelayOK(y.r)
      /\ relay.active /\ relay.conn_id # id => y.r = relay
      /\ y.r.active /\ y.r.conn_id # id => relay.active /\ relay.conn_id = y.r.conn_id
  BY <1>3, <1>6, MidwayParts DEF Done, Frame
<1>8. /\ t \in Slot /\ SlotOK(t, y.r) /\ t.conn_id \in {0, id}
      /\ PasswordSet \/ (y.r.active /\ y.r.conn_id = id => t.special)
  BY <1>6, <1>7, UipDone
<1> HIDE DEF x, t
<1>9. /\ conns \in [Slots -> Slot] /\ conns' \in [Slots -> Slot] /\ relay' = y.r
      /\ conns'[c] = t /\ \A d \in Slots \ {c} : conns'[d] = conns[d]
  BY <1>1, <1>2, <1>8 DEF TypeOK, t
<1>10. /\ cur_conn_id' = cur_conn_id /\ basic_running' = basic_running /\ wc' = wc
       /\ call' = call /\ runs' = runs
  BY DEF program
<1>11. TypeOK' /\ ProgramOK'
  BY <1>2, <1>7, <1>9, <1>10 DEF TypeOK, ProgramOK
<1>12. RelayOK(relay)'
  BY <1>7, <1>9, <1>10 DEF RelayOK
<1>13. \A d \in Slots \ {c} : conns[d].conn_id # id
  BY <1>2, <1>4 DEF IdsOK
<1>14. ASSUME NEW d \in Slots PROVE SlotOK(conns'[d], relay')
  <2>1. CASE d = c
    BY <1>8, <1>9, <2>1
  <2>2. CASE d # c
    <3>1. conns'[d] = conns[d] /\ SlotOK(conns[d], relay) /\ conns[d].conn_id # id
      BY <1>2, <1>9, <1>13, <2>2
    <3> HIDE DEF id
    <3>2. SlotOK(conns[d], y.r)
      BY ONLY <1>4, <1>7, <3>1, OtherSlot DEF id
    <3> QED BY <1>9, <3>1, <3>2
  <2> QED BY <2>1, <2>2
<1>15. IdsOK'
  <2>0. cur_conn_id \in Nat /\ conns[c].conn_id <= cur_conn_id
    BY <1>2, Sizes DEF TypeOK, IdsOK
  <2>1. ASSUME NEW d \in Slots PROVE conns'[d].conn_id <= cur_conn_id'
    BY <1>2, <1>4, <1>8, <1>9, <1>10, <2>0 DEF IdsOK
  <2>2. ASSUME NEW d \in Slots, NEW e \in Slots,
               conns'[d].conn_id = conns'[e].conn_id, conns'[d].conn_id # 0
        PROVE  d = e
    BY <1>2, <1>4, <1>8, <1>9, <1>13, <2>2 DEF IdsOK
  <2>3. relay'.active => relay'.conn_id <= cur_conn_id'
    BY <1>2, <1>4, <1>7, <1>9, <1>10, <2>0 DEF IdsOK
  <2> QED BY <2>1, <2>2, <2>3 DEF IdsOK
<1>16. PasswordSet \/ Held'
  <2> SUFFICES ASSUME ~PasswordSet, relay'.active PROVE \E d \in Slots : conns'[d].special
    BY DEF Held
  <2>1. CASE y.r.conn_id = id
    BY <1>8, <1>9, <2>1
  <2>2. CASE y.r.conn_id # id
    <3>1. relay.active /\ relay.conn_id # id
      BY <1>7, <1>9, <2>2
    <3>2. PICK d \in Slots : conns[d].special
      BY <1>2, <3>1 DEF Held
    <3>3. conns[d].conn_id = relay.conn_id
      BY <1>2, <3>2 DEF SlotOK, Owner
    <3>4. d # c
      BY <1>4, <3>1, <3>3
    <3> QED BY <1>9, <3>2, <3>4
  <2> QED BY <2>1, <2>2
<1> QED BY <1>11, <1>12, <1>14, <1>15, <1>16 DEF Inv, SlotOK, Owner, OpenOK, PageOK, LeftOK,
           RequestIn, Patient, Shut, Base, From, Stretch

\* Slots that differ only in what the properties do not look at.
Alike(s, t) ==
  /\ t.tcp = s.tcp /\ t.conn_id = s.conn_id /\ t.timer = s.timer
  /\ t.slen = s.slen /\ t.page = s.page /\ t.wrote = s.wrote
  /\ t.output = s.output /\ t.input = s.input /\ t.content_length = s.content_length
  /\ t.inbuf = s.inbuf /\ (t.special <=> s.special) /\ t.reply = s.reply
  /\ t.form = s.form /\ t.waited = s.waited /\ t.posted = s.posted
  /\ t.blocked = s.blocked /\ (s.unread = <<>> => t.unread = <<>>)
SameSegment(s, t) == t.outstanding = s.outstanding /\ t.arrived = s.arrived

Junked(s) == [s EXCEPT !.unread = [i \in DOMAIN @ |-> Junk]]

LEMMA JunkedIs ==
  ASSUME NEW s \in Slot
  PROVE  /\ Junked(s) \in Slot /\ Alike(s, Junked(s)) /\ SameSegment(s, Junked(s))
         /\ Junked(s).unsent = s.unsent /\ Junked(s).form = s.form
<1> DEFINE u == [i \in DOMAIN s.unread |-> Junk]
           t == Junked(s)
<1>1. u \in Seq(FormBytes)
  <2>1. s.unread \in Seq(FormBytes)
    BY SlotTypes
  <2>2. DOMAIN s.unread = 1..Len(s.unread) /\ Len(s.unread) \in Nat
    BY <2>1
  <2>3. Junk \in FormBytes
    BY Sizes DEF Junk, FormBytes
  <2> QED BY <2>2, <2>3
<1>0. s.unread = <<>> => u = <<>>
  OBVIOUS
<1>2. t = [s EXCEPT !.unread = u]
  BY DEF Junked
<1> HIDE DEF u, t
<1>3. t \in Slot
  BY <1>1, <1>2 DEF Slot
<1>4. Alike(s, t) /\ SameSegment(s, t) /\ t.unsent = s.unsent /\ t.form = s.form
  BY <1>0, <1>2 DEF Slot, Alike, SameSegment
<1> QED BY <1>3, <1>4 DEF t

LEMMA AlikeTwice ==
  ASSUME NEW s, NEW t, NEW u, Alike(s, t), Alike(t, u)
  PROVE  Alike(s, u)
BY DEF Alike

\* A slot of the invariant.
LEMMA SlotHas ==
  ASSUME Inv, NEW c \in Slots
  PROVE  /\ conns[c] \in Slot /\ SlotOK(conns[c], relay) /\ RelayOK(relay) /\ relay \in Relays
         /\ (conns[c].tcp = "free" <=> conns[c].conn_id = 0)
         /\ Owner(conns[c], relay)
         /\ conns[c].tcp = "open" =>
              /\ PageOK(conns[c]) /\ RequestIn(conns[c]) /\ Patient(conns[c])
              /\ conns[c].output # "begin" /\ (conns[c].special => LeftOK(conns[c], relay))
              /\ conns[c].unsent <= conns[c].form /\ (PasswordSet \/ conns[c].reply # "401")
         /\ conns[c].tcp # "open" => Shut(conns[c])
BY DEF Inv, SlotOK, OpenOK, TypeOK

\* A call without an acknowledgement.
LEMMA PlainEnters ==
  ASSUME Inv, NEW c \in Slots, conns[c].tcp = "open", NEW t \in Slot,
         Alike(conns[c], t), SameSegment(conns[c], t), t.unsent <= t.form,
         NEW ev, ev \subseteq Flags, "acked" \notin ev, NEW new \in Seq(FormBytes)
  PROVE  Enters(c, t, ev, new)
<1> DEFINE s == conns[c]
           x == In(t, ev, new)
<1>1. /\ s \in Slot /\ RelayOK(relay) /\ Owner(s, relay) /\ s.conn_id # 0
      /\ PageOK(s) /\ RequestIn(s) /\ Patient(s)
      /\ s.output # "begin" /\ (s.special => LeftOK(s, relay))
      /\ (PasswordSet \/ s.reply # "401") /\ s.tcp = "open"
  BY SlotHas
<1>2. Alike(s, t) /\ SameSegment(s, t)
  OBVIOUS
<1> HIDE DEF s
<1>3. PageOK(t) /\ (t.special => LeftOK(t, relay))
  <2>1. Base(t) = Base(s) /\ From(t) = From(s)
    BY <1>2 DEF Base, From, Alike, SameSegment
  <2>2. PageOK(t)
    BY <1>1, <1>2, <2>1 DEF PageOK, Alike, SameSegment
  <2>3. t.special => LeftOK(t, relay)
    BY <1>1, <1>2, <2>1 DEF LeftOK, Alike
  <2> QED BY <2>2, <2>3
<1>4. RequestIn(t) /\ Patient(t) /\ Owner(t, relay)
  BY <1>1, <1>2 DEF RequestIn, Patient, Owner, Alike
<1>5. x.s = t /\ x.r = relay /\ x.ev = ev /\ x.flag = "none"
  BY DEF In
<1> HIDE DEF x
<1>6. Going(x)
  BY <1>1, <1>2, <1>3, <1>4, <1>5 DEF Going, PageIn, Alike, Patient
<1> QED BY <1>1, <1>2, <1>4, <1>6 DEF Enters, Alike, s, x

\* A call for an acknowledgement of what the browser got.
LEMMA AckEnters ==
  ASSUME Inv, NEW c \in Slots, conns[c].tcp = "open",
         conns[c].outstanding # <<>>, conns[c].arrived, NEW t \in Slot,
         Alike(conns[c], t), t.outstanding = <<>>, ~t.arrived, t.unsent <= t.form,
         NEW ev, ev \subseteq Flags, "acked" \in ev, "poll" \notin ev, NEW new \in Seq(FormBytes)
  PROVE  Enters(c, t, ev, new)
<1> DEFINE s == conns[c]
           x == In(t, ev, new)
           o == Len(s.outstanding)
           p == Len(s.page)
<1>1. /\ s \in Slot /\ RelayOK(relay) /\ Owner(s, relay) /\ s.conn_id # 0
      /\ PageOK(s) /\ RequestIn(s) /\ Patient(s)
      /\ s.output # "begin" /\ (s.special => LeftOK(s, relay))
      /\ (PasswordSet \/ s.reply # "401") /\ s.tcp = "open"
  BY SlotHas
<1>2. Alike(s, t) /\ s.outstanding # <<>> /\ s.arrived
  OBVIOUS
<1> HIDE DEF s
<1>3. s.wrote \in Nat /\ o \in Nat /\ p \in Nat /\ s.slen \in Nat /\ s.output \in {"none", "begin", "header", "relay", "string"}
  <2>1. s.page \in Seq(PageBytes) /\ s.outstanding \in Seq(PageBytes)
    BY <1>1, SlotTypes
  <2>2. s.output \in {"none", "begin", "header", "relay", "string"}
    BY <1>1 DEF Slot
  <2> QED BY <1>1, <2>1, <2>2, SlotTypes
<1>4. Base(s) = p - o
  BY <1>2 DEF Base
<1> HIDE DEF o, p
<1>5. /\ s.page = Stretch(s.conn_id, 0, p) /\ p - o \in Nat /\ (p - o) + o <= s.wrote + 1
      /\ s.output = "header" => p - o = 0 /\ o = 1
      /\ s.output = "string" => p - o > 0 /\ o = s.slen /\ s.slen > 0
      /\ s.output \in {"header", "string"}
  BY <1>1, <1>2, <1>3, <1>4 DEF PageOK, o, p
<1>6. p <= s.wrote + 1
  BY <1>3, <1>5
<1>7. CASE s.output = "header"
  <2>1. p = 1 /\ s.wrote + 1 - 1 = s.wrote
    BY <1>3, <1>5, <1>7
  <2>2. s.special => relay.left = Stretch(s.conn_id, 1, s.wrote)
    BY <1>1, <1>7, <2>1 DEF LeftOK, From
  <2>3. x.s = t /\ x.r = relay /\ x.ev = ev /\ x.flag = "none"
    BY DEF In
  <2> HIDE DEF x
  <2>4. PageIn(x)
    BY <1>2, <1>5, <1>6, <1>7, <2>1, <2>2, <2>3 DEF PageIn, Alike, p
  <2>5. RequestIn(t) /\ Owner(t, relay)
    BY <1>1, <1>2 DEF RequestIn, Owner, Alike
  <2>6. Going(x)
    BY <1>1, <1>2, <2>3, <2>4, <2>5 DEF Going, Alike, Patient
  <2> QED BY <1>1, <1>2, <2>6 DEF Enters, Alike, s, x
<1>8. CASE s.output = "string"
  <2>1. p - s.slen = p - o /\ s.slen \in 1..(p - 1)
    BY <1>3, <1>5, <1>8
  <2>2. s.special => relay.left = Stretch(s.conn_id, p - s.slen, s.wrote + 1 - (p - s.slen))
    BY <1>1, <1>4, <1>8, <2>1 DEF LeftOK, From
  <2>3. x.s = t /\ x.r = relay /\ x.ev = ev /\ x.flag = "none"
    BY DEF In
  <2> HIDE DEF x
  <2>4. PageIn(x)
    BY <1>2, <1>5, <1>6, <1>8, <2>1, <2>2, <2>3 DEF PageIn, Alike, p
  <2>5. RequestIn(t) /\ Owner(t, relay)
    BY <1>1, <1>2 DEF RequestIn, Owner, Alike
  <2>6. Going(x)
    BY <1>1, <1>2, <2>3, <2>4, <2>5 DEF Going, Alike, Patient
  <2> QED BY <1>1, <1>2, <2>6 DEF Enters, Alike, s, x
<1> QED BY <1>5, <1>7, <1>8

\* An event of uIP and the call it makes, with the part of the form that comes
\* with it; what was left of a segment that has gone is junk by then.
Follows(c, s, ev, new) ==
  /\ s \in Slot /\ Event(c, s, ev, new) /\ Enters(c, Junked(s), ev, new)
  /\ "closed" \notin ev =>
       /\ conns[c].tcp = "open" /\ Alike(conns[c], s) /\ s.unsent <= conns[c].unsent
       /\ new = [i \in 1..(conns[c].unsent - s.unsent) |-> conns[c].form - conns[c].unsent + i]

LEMMA EventInv ==
  ASSUME Inv, NEW c \in Slots, NEW s, NEW ev, NEW new, Follows(c, s, ev, new)
  PROVE  Inv'
<1>1. Called(c, Junked(s), ev, new) /\ UNCHANGED <<cur_conn_id, program>>
  BY DEF Follows, Event, Junked
<1> QED BY <1>1, CalledInv DEF Follows

\* A call for a slot that has changed in nothing that matters.
LEMMA PlainFollows ==
  ASSUME Inv, NEW c \in Slots, conns[c].tcp = "open", NEW t \in Slot,
         Alike(conns[c], t), SameSegment(conns[c], t), t.unsent <= conns[c].unsent,
         NEW ev, ev \subseteq Flags, "acked" \notin ev, NEW new \in Seq(FormBytes),
         new = [i \in 1..(conns[c].unsent - t.unsent) |-> conns[c].form - conns[c].unsent + i],
         Event(c, t, ev, new)
  PROVE  Follows(c, t, ev, new)
<1>1. /\ Junked(t) \in Slot /\ Alike(t, Junked(t)) /\ SameSegment(t, Junked(t))
      /\ Junked(t).unsent = t.unsent /\ Junked(t).form = t.form
  BY JunkedIs
<1>2. conns[c].unsent <= conns[c].form /\ t.form = conns[c].form /\ conns[c] \in Slot
  BY SlotHas DEF Alike
<1>3. t.unsent <= t.form
  <2>1. conns[c].unsent \in Nat /\ conns[c].form \in Nat /\ t.unsent \in Nat
    BY <1>2, SlotTypes
  <2> QED BY <1>2, <2>1
<1>4. /\ Alike(conns[c], Junked(t)) /\ SameSegment(conns[c], Junked(t))
      /\ Junked(t).unsent <= Junked(t).form
  BY <1>1, <1>3, AlikeTwice DEF SameSegment
<1>5. Enters(c, Junked(t), ev, new)
  BY <1>1, <1>4, PlainEnters
<1> QED BY <1>5 DEF Follows

LEMMA AckFollows ==
  ASSUME Inv, NEW c \in Slots, conns[c].tcp = "open",
         conns[c].outstanding # <<>>, conns[c].arrived, NEW t \in Slot,
         Alike(conns[c], t), t.outstanding = <<>>, ~t.arrived, t.unsent <= conns[c].unsent,
         NEW ev, ev \subseteq Flags, "acked" \in ev, "poll" \notin ev, NEW new \in Seq(FormBytes),
         new = [i \in 1..(conns[c].unsent - t.unsent) |-> conns[c].form - conns[c].unsent + i],
         Event(c, t, ev, new)
  PROVE  Follows(c, t, ev, new)
<1>1. /\ Junked(t) \in Slot /\ Alike(t, Junked(t)) /\ SameSegment(t, Junked(t))
      /\ Junked(t).unsent = t.unsent /\ Junked(t).form = t.form
  BY JunkedIs
<1>2. conns[c].unsent <= conns[c].form /\ t.form = conns[c].form /\ conns[c] \in Slot
  BY SlotHas DEF Alike
<1>3. t.unsent <= t.form
  <2>1. conns[c].unsent \in Nat /\ conns[c].form \in Nat /\ t.unsent \in Nat
    BY <1>2, SlotTypes
  <2> QED BY <1>2, <2>1
<1>4. /\ Alike(conns[c], Junked(t)) /\ Junked(t).outstanding = <<>> /\ ~Junked(t).arrived
      /\ Junked(t).unsent <= Junked(t).form
  BY <1>1, <1>3, AlikeTwice DEF SameSegment
<1>5. Enters(c, Junked(t), ev, new)
  BY <1>1, <1>4, AckEnters
<1> QED BY <1>5 DEF Follows

LEMMA ClosedFollows ==
  ASSUME Inv, NEW c \in Slots, conns[c].tcp # "free", Event(c, conns[c], {"closed"}, <<>>)
  PROVE  \E s, ev, new : Follows(c, s, ev, new)
<1> DEFINE s == conns[c]
           ev == {"closed"}
           new == <<>>
<1>1. s \in Slot /\ s.conn_id # 0
  BY SlotHas
<1>2. Junked(s) \in Slot /\ Alike(s, Junked(s))
  BY <1>1, JunkedIs
<1>3. ev \subseteq Flags /\ "closed" \in ev /\ new \in Seq(FormBytes)
  BY DEF Flags
<1>4. Event(c, s, ev, new)
  OBVIOUS
<1>5. s = conns[c]
  OBVIOUS
<1> HIDE DEF s, ev, new
<1>6. Enters(c, Junked(s), ev, new)
  BY <1>1, <1>2, <1>3, <1>5 DEF Enters, Alike
<1>7. Follows(c, s, ev, new)
  BY <1>1, <1>3, <1>4, <1>6 DEF Follows
<1> QED BY <1>7

LEMMA EndsFollows ==
  ASSUME Inv, NEW c \in Slots, Ends(c)
  PROVE  \E s, ev, new : Follows(c, s, ev, new)
BY ClosedFollows DEF Ends

LEMMA TimerFollows ==
  ASSUME Inv, NEW c \in Slots, Timer(c)
  PROVE  \E t, ev, data : Follows(c, t, ev, data)
<1> DEFINE s == conns[c]
           z == [s EXCEPT !.nrtx = 0]
           u == [s EXCEPT !.nrtx = @ + 1]
           new == <<>>
<1>1. s \in Slot /\ s.tcp = "open" /\ s.unsent <= s.form
  BY SlotHas DEF Timer
<1>2. s.nrtx \in 0..UIP_MAXRTX /\ UIP_MAXRTX \in Nat
  BY <1>1, Sizes DEF Slot
<1>3. new \in Seq(FormBytes) /\ {"poll"} \subseteq Flags /\ {"rexmit"} \subseteq Flags
  BY DEF Flags
<1>f. s.unsent \in Nat /\ new = [i \in 1..(s.unsent - s.unsent) |-> s.form - s.unsent + i]
  <2>1. s.unsent \in Nat
    BY <1>1, SlotTypes
  <2>2. s.unsent - s.unsent = 0 /\ \A i \in 1..0 : FALSE
    BY <2>1
  <2>3. [i \in 1..0 |-> s.form - s.unsent + i] = <<>>
    BY <2>2
  <2> QED BY <2>1, <2>2, <2>3
<1>4. CASE s.outstanding = <<>>
  <2>1. Event(c, z, {"poll"}, new)
    BY <1>4 DEF Timer
  <2> HIDE DEF s, new
  <2>2. /\ z \in Slot /\ Alike(s, z) /\ SameSegment(s, z) /\ z.unsent = s.unsent /\ z.form = s.form
    <3>1. 0 \in 0..UIP_MAXRTX
      BY <1>2
    <3> QED BY ONLY <1>1, <3>1 DEF Slot, Alike, SameSegment
  <2> HIDE DEF z
  <2>3. z.unsent <= s.unsent /\ new = [i \in 1..(s.unsent - z.unsent) |-> s.form - s.unsent + i]
    BY <1>f, <2>2
  <2>4. Follows(c, z, {"poll"}, new)
    BY <1>1, <1>3, <2>1, <2>2, <2>3, PlainFollows DEF s
  <2> QED BY <2>4
<1>5. CASE s.outstanding # <<>> /\ s.nrtx = UIP_MAXRTX
  <2>1. Event(c, s, {"closed"}, <<>>)
    BY <1>5 DEF Timer
  <2> QED BY <1>1, <2>1, ClosedFollows
<1>6. CASE s.outstanding # <<>> /\ s.nrtx # UIP_MAXRTX
  <2>1. Event(c, u, {"rexmit"}, new)
    BY <1>6 DEF Timer
  <2> HIDE DEF s, new
  <2>2. /\ u \in Slot /\ Alike(s, u) /\ SameSegment(s, u) /\ u.unsent = s.unsent /\ u.form = s.form
    <3>1. s.nrtx + 1 \in 0..UIP_MAXRTX
      BY <1>2, <1>6
    <3> QED BY ONLY <1>1, <3>1 DEF Slot, Alike, SameSegment
  <2> HIDE DEF u
  <2>3. u.unsent <= s.unsent /\ new = [i \in 1..(s.unsent - u.unsent) |-> s.form - s.unsent + i]
    BY <1>f, <2>2
  <2>4. Follows(c, u, {"rexmit"}, new)
    BY <1>1, <1>3, <2>1, <2>2, <2>3, PlainFollows DEF s
  <2> QED BY <2>4
<1> QED BY <1>4, <1>5, <1>6

\* A slot with a segment taken in.
WithSegment(s, w, n, o, a) ==
  [s EXCEPT !.mss = w, !.nrtx = 0, !.unsent = @ - n, !.outstanding = o, !.arrived = a]

LEMMA SegmentTaken ==
  ASSUME NEW s \in Slot, NEW w \in Windows, NEW n \in Nat, n <= s.unsent, s.unsent <= s.form,
         NEW o \in Seq(PageBytes), NEW a \in BOOLEAN
  PROVE  /\ WithSegment(s, w, n, o, a) \in Slot /\ Alike(s, WithSegment(s, w, n, o, a))
         /\ WithSegment(s, w, n, o, a).outstanding = o /\ (WithSegment(s, w, n, o, a).arrived <=> a)
         /\ WithSegment(s, w, n, o, a).unsent <= WithSegment(s, w, n, o, a).form
         /\ WithSegment(s, w, n, o, a).unsent = s.unsent - n
         /\ [i \in 1..n |-> s.form - s.unsent + i] \in Seq(FormBytes)
<1> DEFINE t == WithSegment(s, w, n, o, a)
           new == [i \in 1..n |-> s.form - s.unsent + i]
<1>1. /\ s.unsent \in 0..MaxBody /\ s.form \in 0..MaxBody /\ MaxBody \in Nat
      /\ w \in 1..MSS /\ UIP_MAXRTX \in Nat
  BY Sizes DEF Slot
<1>2. s.unsent - n \in 0..MaxBody /\ s.unsent - n <= s.form /\ 0 \in 0..UIP_MAXRTX
  BY <1>1
<1>3. t \in Slot
  BY ONLY <1>1, <1>2, s \in Slot, o \in Seq(PageBytes), a \in BOOLEAN DEF Slot, WithSegment
<1>4. /\ Alike(s, t) /\ t.outstanding = o /\ (t.arrived <=> a)
      /\ t.unsent = s.unsent - n /\ t.form = s.form
  BY ONLY s \in Slot DEF Slot, WithSegment, Alike
<1>5. new \in Seq(FormBytes)
  <2>1. ASSUME NEW i \in 1..n PROVE s.form - s.unsent + i \in FormBytes
    BY <1>1, <2>1 DEF FormBytes
  <2> QED BY <2>1
<1> QED BY <1>2, <1>3, <1>4, <1>5

LEMMA SegmentFollows ==
  ASSUME Inv, NEW c \in Slots, Segment(c)
  PROVE  \E r, e, data : Follows(c, r, e, data)
<1> DEFINE s == conns[c]
<1>1. PICK ack \in BOOLEAN, n \in 0..MaxBody, w \in Windows :
        /\ s.tcp = "open" /\ (ack \/ n > 0) /\ n <= s.unsent
        /\ (ack => s.outstanding # <<>> /\ s.arrived)
        /\ Event(c, WithSegment(s, w, n, IF ack THEN <<>> ELSE s.outstanding, s.arrived /\ ~ack),
                 (IF ack THEN {"acked"} ELSE {}) \cup (IF n > 0 THEN {"newdata"} ELSE {}),
                 [i \in 1..n |-> s.form - s.unsent + i])
  BY DEF Segment, WithSegment
<1> DEFINE o == IF ack THEN <<>> ELSE s.outstanding
           a == s.arrived /\ ~ack
           ev == (IF ack THEN {"acked"} ELSE {}) \cup (IF n > 0 THEN {"newdata"} ELSE {})
           new == [i \in 1..n |-> s.form - s.unsent + i]
           t == WithSegment(s, w, n, o, a)
<1>2. s \in Slot /\ s.unsent <= s.form /\ s.outstanding \in Seq(PageBytes) /\ s.arrived \in BOOLEAN
  <2>1. s \in Slot /\ s.unsent <= s.form
    BY <1>1, SlotHas
  <2>2. s.outstanding \in Seq(PageBytes) /\ s.arrived \in BOOLEAN
    BY <2>1 DEF Slot
  <2> QED BY <2>1, <2>2
<1>3. o \in Seq(PageBytes) /\ a \in BOOLEAN /\ n \in Nat /\ n <= s.unsent
  BY <1>1, <1>2, Sizes
<1>4. ev \subseteq Flags /\ ("acked" \in ev <=> ack) /\ "poll" \notin ev
  BY DEF Flags
<1>5. Event(c, t, ev, new)
  BY <1>1
<1>6. s = conns[c] /\ s.tcp = "open" /\ (ack => s.outstanding # <<>> /\ s.arrived)
  BY <1>1
<1>7. IF ack THEN o = <<>> /\ ~a ELSE o = s.outstanding /\ (a <=> s.arrived)
  OBVIOUS
<1> HIDE DEF o, a, ev, s
<1>8. /\ t \in Slot /\ Alike(s, t) /\ t.outstanding = o /\ (t.arrived <=> a)
      /\ t.unsent <= t.form /\ t.unsent = s.unsent - n /\ new \in Seq(FormBytes)
  BY <1>2, <1>3, SegmentTaken
<1>f. t.unsent <= s.unsent /\ new = [i \in 1..(s.unsent - t.unsent) |-> s.form - s.unsent + i]
  <2>1. s.unsent \in Nat
    BY <1>2, SlotTypes
  <2>2. t.unsent <= s.unsent /\ s.unsent - t.unsent = n
    BY <1>3, <1>8, <2>1
  <2> QED BY <2>2
<1> HIDE DEF t, new
<1>9. CASE ack
  <2>1. Follows(c, t, ev, new)
    BY <1>4, <1>5, <1>6, <1>7, <1>8, <1>9, <1>f, AckFollows
  <2> QED BY <2>1
<1>10. CASE ~ack
  <2>1. t.arrived = s.arrived
    BY <1>2, <1>7, <1>8, <1>10 DEF Slot
  <2>2. SameSegment(s, t)
    BY <1>7, <1>8, <1>10, <2>1 DEF SameSegment
  <2>3. Follows(c, t, ev, new)
    BY <1>4, <1>5, <1>6, <1>8, <1>10, <1>f, <2>2, PlainFollows
  <2> QED BY <2>3
<1> QED BY <1>9, <1>10

\* A slot with the headers of its request.
Requested(s, authorized, length, n, waited) ==
  [s EXCEPT !.input = "wait", !.is_authorized = authorized,
            !.content_length = length, !.unsent = length - n,
            !.unread = [i \in 1..n |-> i], !.form = length, !.waited = waited]

LEMMA RequestedIs ==
  ASSUME NEW s \in Slot, NEW u \in BOOLEAN, NEW m \in 0..MaxBody, NEW n \in 0..m,
         NEW w \in BOOLEAN
  PROVE  LET t == Requested(s, u, m, n, w)
         IN  /\ t \in Slot /\ SameSegment(s, t) /\ t.unsent <= t.form /\ t.input = "wait"
             /\ t.tcp = s.tcp /\ t.conn_id = s.conn_id /\ t.timer = s.timer
             /\ t.slen = s.slen /\ t.page = s.page /\ t.wrote = s.wrote
             /\ t.output = s.output /\ t.inbuf = s.inbuf /\ (t.special <=> s.special)
             /\ t.reply = s.reply
<1> DEFINE t == Requested(s, u, m, n, w)
           d == [i \in 1..n |-> i]
           k == m - n
<1>1. m \in Nat /\ n \in Nat /\ MaxBody \in Nat /\ m <= MaxBody /\ n <= m
  BY Sizes
<1>2. k \in 0..MaxBody /\ k <= m
  BY <1>1
<1>3. d \in Seq(FormBytes)
  BY <1>1 DEF FormBytes
<1>4. t = [s EXCEPT !.input = "wait", !.is_authorized = u, !.content_length = m, !.unsent = k,
                    !.unread = d, !.form = m, !.waited = w]
  BY DEF Requested
<1> HIDE DEF t, d, k
<1>5. t \in Slot
  <2>0. "wait" \in {"headers", "wait", "read", "hold", "done"} /\ m \in 0..MaxBody
    OBVIOUS
  <2>1. [s EXCEPT !.input = "wait", !.is_authorized = u, !.content_length = m, !.unsent = k,
                  !.unread = d, !.form = m, !.waited = w] \in Slot
    BY ONLY <1>2, <1>3, <2>0, s \in Slot, u \in BOOLEAN, w \in BOOLEAN DEF Slot
  <2> QED BY ONLY <1>4, <2>1
<1>6. /\ SameSegment(s, t) /\ t.unsent = k /\ t.form = m /\ t.input = "wait"
      /\ t.tcp = s.tcp /\ t.conn_id = s.conn_id /\ t.timer = s.timer
      /\ t.slen = s.slen /\ t.page = s.page /\ t.wrote = s.wrote
      /\ t.output = s.output /\ t.inbuf = s.inbuf /\ (t.special <=> s.special)
      /\ t.reply = s.reply
  BY ONLY <1>4, s \in Slot DEF Slot, SameSegment
<1> QED BY <1>2, <1>5, <1>6 DEF t

LEMMA RequestCalled ==
  ASSUME Inv, NEW c \in Slots, Request(c)
  PROVE  \E m \in 0..MaxBody, u \in BOOLEAN : \E n \in 0..m :
           LET t == Requested(conns[c], u, m, n, ~RelayFree([r |-> relay]))
           IN  Enters(c, t, {"newdata"}, <<>>) /\ Called(c, t, {"newdata"}, <<>>)
<1> DEFINE s == conns[c]
           w == ~RelayFree([r |-> relay])
           ev == {"newdata"}
           new == <<>>
<1>1. s.tcp = "open" /\ s.input = "headers" /\ UNCHANGED <<cur_conn_id, program>>
  BY DEF Request
<1>2. PICK m \in Forms[c], u \in {TRUE, ~PasswordSet} : \E n \in 0..m :
        Called(c, Requested(s, u, m, n, w), ev, new)
  BY DEF Request, Requested
<1>3. PICK n \in 0..m : Called(c, Requested(s, u, m, n, w), ev, new)
  BY <1>2
<1> DEFINE t == Requested(s, u, m, n, w)
           x == In(t, ev, new)
<1>4. m \in 0..MaxBody /\ u \in BOOLEAN /\ w \in BOOLEAN
  BY SizeAssumption, Sizes DEF RelayFree
<1>5. s \in Slot /\ s.conn_id # 0 /\ PageOK(s) /\ RequestIn(s) /\ Patient(s) /\ Owner(s, relay)
      /\ (PasswordSet \/ s.reply # "401") /\ RelayOK(relay)
  BY <1>1, SlotHas
<1>6. s.output = "none" /\ ~s.special /\ s.reply = "200" /\ s.inbuf = <<>>
  BY <1>1, <1>5 DEF RequestIn
<1>7. s = conns[c] /\ ev \subseteq Flags /\ "closed" \notin ev /\ "poll" \notin ev
      /\ "acked" \notin ev /\ new \in Seq(FormBytes)
  BY DEF Flags
<1> HIDE DEF s, w, ev, new
<1>8. /\ t \in Slot /\ SameSegment(s, t) /\ t.unsent <= t.form /\ t.input = "wait"
      /\ t.tcp = s.tcp /\ t.conn_id = s.conn_id /\ t.timer = s.timer
      /\ t.slen = s.slen /\ t.page = s.page /\ t.wrote = s.wrote
      /\ t.output = s.output /\ t.inbuf = s.inbuf /\ (t.special <=> s.special)
      /\ t.reply = s.reply
  BY ONLY <1>4, <1>5, n \in 0..m, RequestedIs
<1>9. Called(c, t, ev, new)
  BY <1>3
<1> HIDE DEF t
<1>10. x.s = t /\ x.r = relay /\ x.ev = ev /\ x.flag = "none"
  BY DEF In
<1> HIDE DEF x
<1>11. RequestIn(t)
  BY <1>6, <1>8 DEF RequestIn
<1>12. PageOK(t) /\ ~t.special
  BY <1>5, <1>6, <1>8 DEF PageOK, Base, SameSegment
<1>13. Owner(t, relay)
  BY <1>5, <1>8 DEF Owner
<1>14. Going(x)
  BY <1>1, <1>5, <1>7, <1>8, <1>10, <1>11, <1>12, <1>13 DEF Going, PageIn, Patient
<1>15. Enters(c, t, ev, new)
  BY <1>5, <1>7, <1>8, <1>14 DEF Enters, x
<1>16. Enters(c, Requested(s, u, m, n, w), ev, new) /\ Called(c, Requested(s, u, m, n, w), ev, new)
  BY <1>9, <1>15 DEF t
<1> QED BY <1>4, <1>16 DEF s, w, ev, new

LEMMA RequestInv ==
  ASSUME Inv, NEW c \in Slots, Request(c)
  PROVE  Inv'
<1> DEFINE s(u, m, n) == Requested(conns[c], u, m, n, ~RelayFree([r |-> relay]))
<1>1. PICK m \in 0..MaxBody, u \in BOOLEAN : \E n \in 0..m :
        Enters(c, s(u, m, n), {"newdata"}, <<>>) /\ Called(c, s(u, m, n), {"newdata"}, <<>>)
  BY RequestCalled
<1>2. PICK n \in 0..m :
        Enters(c, s(u, m, n), {"newdata"}, <<>>) /\ Called(c, s(u, m, n), {"newdata"}, <<>>)
  BY <1>1
<1>3. UNCHANGED <<cur_conn_id, program>>
  BY DEF Request
<1> HIDE DEF s
<1> QED BY <1>2, <1>3, CalledInv

\* One slot changes and the relay does not.
LEMMA OneSlot ==
  ASSUME Inv, NEW c \in Slots, NEW t \in Slot, conns' = [conns EXCEPT ![c] = t],
         UNCHANGED <<relay, program>>, cur_conn_id' \in 0..MaxConns,
         cur_conn_id <= cur_conn_id', t.conn_id <= cur_conn_id', SlotOK(t, relay),
         t.conn_id # 0 => \A d \in Slots \ {c} : conns[d].conn_id # t.conn_id,
         PasswordSet \/ (conns[c].special => t.special)
  PROVE  Inv'
<1>1. /\ TypeOK /\ ProgramOK /\ IdsOK /\ RelayOK(relay)
      /\ \A d \in Slots : SlotOK(conns[d], relay)
      /\ PasswordSet \/ Held
  BY DEF Inv
<1>2. /\ relay' = relay /\ basic_running' = basic_running /\ wc' = wc /\ call' = call
      /\ runs' = runs
  BY DEF program
<1>3. /\ conns \in [Slots -> Slot] /\ conns' \in [Slots -> Slot] /\ conns'[c] = t
      /\ \A d \in Slots \ {c} : conns'[d] = conns[d]
  BY <1>1 DEF TypeOK
<1>4. TypeOK' /\ ProgramOK' /\ RelayOK(relay)'
  BY <1>1, <1>2, <1>3 DEF TypeOK, ProgramOK, RelayOK
<1>5. ASSUME NEW d \in Slots PROVE SlotOK(conns'[d], relay')
  BY <1>1, <1>2, <1>3
<1>6. IdsOK'
  <2>0. /\ cur_conn_id \in Nat /\ cur_conn_id' \in Nat
        /\ (relay.active => relay.conn_id \in Nat) /\ \A d \in Slots : conns[d].conn_id \in Nat
    BY <1>1, Sizes DEF TypeOK, Relays, Slot
  <2>1. ASSUME NEW d \in Slots PROVE conns'[d].conn_id <= cur_conn_id'
    BY <1>1, <1>3, <2>0 DEF IdsOK
  <2>2. ASSUME NEW d \in Slots, NEW e \in Slots,
               conns'[d].conn_id = conns'[e].conn_id, conns'[d].conn_id # 0
        PROVE  d = e
    BY <1>1, <1>3, <2>2 DEF IdsOK
  <2>3. relay'.active => relay'.conn_id <= cur_conn_id'
    BY <1>1, <1>2, <2>0 DEF IdsOK
  <2> QED BY <2>1, <2>2, <2>3 DEF IdsOK
<1>7. PasswordSet \/ Held'
  BY <1>1, <1>2, <1>3 DEF Held
<1> QED BY <1>4, <1>5, <1>6, <1>7 DEF Inv, SlotOK, Owner, OpenOK, PageOK, LeftOK,
           RequestIn, Patient, Shut, Base, From, Stretch

LEMMA FinWait2Inv ==
  ASSUME Inv, NEW c \in Slots, FinWait2Expires(c)
  PROVE  Inv'
<1>1. conns' = [conns EXCEPT ![c] = FreeSlot] /\ UNCHANGED <<relay, program>>
      /\ cur_conn_id' = cur_conn_id
  BY DEF FinWait2Expires
<1>2. /\ FreeSlot \in Slot /\ FreeSlot.tcp = "free" /\ FreeSlot.conn_id = 0
      /\ ~FreeSlot.special /\ FreeSlot.reply = "200" /\ Shut(FreeSlot)
  BY FreeSlotIs
<1>3. SlotOK(conns[c], relay) /\ RelayOK(relay) /\ cur_conn_id \in 0..MaxConns
      /\ (PasswordSet \/ ~conns[c].special)
  BY DEF Inv, TypeOK, SlotOK, FinWait2Expires
<1>4. SlotOK(FreeSlot, relay)
  BY <1>2, <1>3 DEF SlotOK, Owner, RelayOK
<1>5. cur_conn_id' \in 0..MaxConns /\ cur_conn_id <= cur_conn_id'
      /\ FreeSlot.conn_id <= cur_conn_id'
  BY <1>1, <1>2, <1>3, Sizes
<1>6. FreeSlot.conn_id # 0 => \A d \in Slots \ {c} : conns[d].conn_id # FreeSlot.conn_id
  BY <1>2
<1> DEFINE t == FreeSlot
<1>7. /\ t \in Slot /\ conns' = [conns EXCEPT ![c] = t] /\ UNCHANGED <<relay, program>>
      /\ SlotOK(t, relay) /\ t.conn_id <= cur_conn_id'
      /\ (t.conn_id # 0 => \A d \in Slots \ {c} : conns[d].conn_id # t.conn_id)
      /\ (PasswordSet \/ (conns[c].special => t.special))
  BY <1>1, <1>2, <1>3, <1>4, <1>5, <1>6
<1> HIDE DEF t
<1> QED BY <1>5, <1>7, OneSlot

LEMMA ConnectInv ==
  ASSUME Inv, NEW c \in Slots, Connect(c)
  PROVE  Inv'
<1> DEFINE id == cur_conn_id + 1
           t == [FreeSlot EXCEPT !.tcp = "open", !.conn_id = id]
<1>1. /\ conns' = [conns EXCEPT ![c] = t] /\ UNCHANGED <<relay, program>> /\ cur_conn_id' = id
      /\ conns[c].tcp = "free" /\ cur_conn_id < MaxConns
  BY DEF Connect
<1>2. /\ FreeSlot \in Slot /\ ~FreeSlot.special /\ FreeSlot.reply = "200" /\ FreeSlot.wrote = 0
      /\ FreeSlot.timer = 0 /\ FreeSlot.unsent = 0 /\ FreeSlot.form = 0 /\ FreeSlot.inbuf = <<>>
      /\ FreeSlot.arrived = FALSE /\ FreeSlot.content_length = 0 /\ Shut(FreeSlot)
  BY FreeSlotIs
<1>3. /\ TypeOK /\ IdsOK /\ RelayOK(relay) /\ SlotOK(conns[c], relay)
  BY DEF Inv
<1>4. /\ cur_conn_id \in Nat /\ MaxConns \in Nat /\ id \in 0..MaxConns /\ id # 0
      /\ cur_conn_id <= id /\ relay \in Relays
  BY <1>1, <1>3, Sizes DEF TypeOK
<1>5. \A d \in Slots : conns[d].conn_id # id
  <2>1. ASSUME NEW d \in Slots PROVE conns[d].conn_id \in Nat /\ conns[d].conn_id <= cur_conn_id
    BY <1>3, Sizes DEF TypeOK, IdsOK, Slot
  <2>2. \A k \in Nat : k <= cur_conn_id => k # id
    BY <1>4
  <2> HIDE DEF id
  <2> QED BY <2>1, <2>2
<1>6. ~(relay.active /\ relay.conn_id = id)
  BY <1>3, <1>4 DEF IdsOK
<1>7. ~conns[c].special
  BY <1>1, <1>3 DEF SlotOK, Owner, RelayOK
<1> HIDE DEF id
<1>8. t \in Slot
  BY ONLY <1>2, <1>4 DEF Slot
<1>9. /\ t.tcp = "open" /\ t.conn_id = id /\ ~t.special /\ t.reply = "200" /\ t.wrote = 0
      /\ t.timer = 0 /\ t.unsent = 0 /\ t.form = 0 /\ t.inbuf = <<>>
      /\ ~t.arrived /\ t.content_length = 0
      /\ t.output = "none" /\ t.input = "headers" /\ t.page = <<>> /\ t.outstanding = <<>>
  BY ONLY <1>2 DEF Slot, Shut
<1> HIDE DEF t
<1>10. Len(t.page) = 0 /\ Len(t.outstanding) = 0 /\ Base(t) = 0
  <2>1. Len(t.page) = 0 /\ Len(t.outstanding) = 0
    BY <1>9
  <2> QED BY <1>9, <2>1 DEF Base
<1>11. PageOK(t)
  <2>1. Stretch(t.conn_id, 0, 0) = <<>>
    BY StretchIs
  <2> QED BY <1>9, <1>10, <2>1 DEF PageOK
<1>12. RequestIn(t) /\ Patient(t)
  BY <1>9, Sizes DEF RequestIn, Patient
<1>13. Owner(t, relay)
  BY <1>6, <1>9 DEF Owner
<1>14. SlotOK(t, relay)
  BY <1>4, <1>9, <1>11, <1>12, <1>13 DEF SlotOK, OpenOK
<1>15. cur_conn_id' \in 0..MaxConns /\ cur_conn_id <= cur_conn_id' /\ t.conn_id <= cur_conn_id'
  BY <1>1, <1>4, <1>9
<1>16. \A d \in Slots \ {c} : conns[d].conn_id # t.conn_id
  BY <1>5, <1>9
<1> QED BY <1>1, <1>7, <1>8, <1>14, <1>15, <1>16, OneSlot

LEMMA ArrivesInv ==
  ASSUME Inv, NEW c \in Slots, Arrives(c)
  PROVE  Inv'
<1> DEFINE s == conns[c]
           g == s.page \o s.outstanding
           t == [s EXCEPT !.arrived = TRUE, !.page = g]
<1>1. /\ s.outstanding # <<>> /\ ~s.arrived /\ UNCHANGED <<relay, program>>
      /\ cur_conn_id' = cur_conn_id
  BY DEF Arrives
<1>2. /\ s \in Slot /\ RelayOK(relay) /\ Owner(s, relay) /\ SlotOK(s, relay)
  BY SlotHas
<1>3. s.tcp = "open" /\ s.conn_id # 0 /\ PageOK(s) /\ RequestIn(s) /\ Patient(s)
      /\ s.output # "begin" /\ (s.special => LeftOK(s, relay)) /\ s.unsent <= s.form
      /\ (PasswordSet \/ s.reply # "401")
  BY <1>1, SlotHas DEF Shut
<1>4. conns' = [conns EXCEPT ![c] = t]
  BY DEF Arrives, Inv, TypeOK
<1>5. s.page \in Seq(PageBytes) /\ s.outstanding \in Seq(PageBytes) /\ s.wrote \in Nat
      /\ s.conn_id \in 0..MaxConns
  BY <1>2, SlotTypes
<1>6. TypeOK /\ IdsOK
  BY DEF Inv
<1>7. cur_conn_id \in 0..MaxConns /\ cur_conn_id \in Nat /\ s.conn_id <= cur_conn_id
      /\ (\A d \in Slots \ {c} : conns[d].conn_id # s.conn_id)
  BY <1>3, <1>6, Sizes DEF TypeOK, IdsOK
<1> HIDE DEF s
<1>8. g \in Seq(PageBytes) /\ Len(g) = Len(s.page) + Len(s.outstanding)
  BY <1>5, ConcatProperties
<1>9. Base(s) = Len(s.page) /\ Len(s.page) \in Nat /\ Len(s.outstanding) \in Nat
  BY <1>1, <1>5 DEF Base
<1>10. g = Stretch(s.conn_id, 0, Len(g))
  <2> DEFINE a == Len(s.page)
             b == Len(s.outstanding)
             id == s.conn_id
  <2>1. s.page = Stretch(id, 0, a) /\ s.outstanding = Stretch(id, 0 + a, b)
    <3>1. 0 + a = a
      BY <1>9
    <3> QED BY <1>3, <1>9, <3>1 DEF PageOK
  <2>2. a \in Nat /\ b \in Nat /\ 0 \in Nat
    BY <1>9
  <2> HIDE DEF a, b, id
  <2>3. Stretch(id, 0, a) \o Stretch(id, 0 + a, b) = Stretch(id, 0, a + b)
    BY ONLY <2>2, StretchJoin
  <2>4. Len(g) = a + b
    BY <1>8 DEF a, b
  <2> QED BY <2>1, <2>3, <2>4 DEF id
<1> HIDE DEF g
<1>11. t \in Slot
  BY ONLY <1>2, <1>8 DEF Slot
<1>12. /\ t.tcp = s.tcp /\ t.conn_id = s.conn_id /\ t.timer = s.timer
       /\ t.slen = s.slen /\ t.page = g /\ t.wrote = s.wrote
       /\ t.output = s.output /\ t.input = s.input /\ t.content_length = s.content_length
       /\ t.inbuf = s.inbuf /\ (t.special <=> s.special) /\ t.reply = s.reply
       /\ t.outstanding = s.outstanding /\ t.arrived /\ t.unsent = s.unsent /\ t.form = s.form
  BY ONLY <1>2 DEF Slot
<1> HIDE DEF t
<1>13. Base(t) = Base(s)
  <2>1. Base(t) = Len(g) - Len(s.outstanding)
    BY <1>12 DEF Base
  <2> QED BY <1>8, <1>9, <2>1
<1>14. PageOK(t)
  BY <1>3, <1>10, <1>12, <1>13 DEF PageOK
<1>15. RequestIn(t) /\ Patient(t) /\ Owner(t, relay) /\ (t.special => LeftOK(t, relay))
  BY <1>2, <1>3, <1>12, <1>13 DEF RequestIn, Patient, Owner, LeftOK, From
<1>16. SlotOK(t, relay)
  BY <1>3, <1>12, <1>14, <1>15 DEF SlotOK, OpenOK
<1>17. /\ cur_conn_id' \in 0..MaxConns /\ cur_conn_id <= cur_conn_id'
       /\ t.conn_id <= cur_conn_id' /\ \A d \in Slots \ {c} : conns[d].conn_id # t.conn_id
  BY <1>1, <1>7, <1>12
<1>18. PasswordSet \/ (conns[c].special => t.special)
  BY <1>12 DEF s
<1> QED BY <1>1, <1>4, <1>11, <1>16, <1>17, <1>18, OneSlot

-----------------------------------------------------------------------------
(* The program *)

\* A command leaves connections and the relay to who has them.
LEMMA CommandInv ==
  ASSUME Inv, conns' \in [Slots -> Slot], relay' \in Relays, cur_conn_id' = cur_conn_id,
         basic_running' \in BOOLEAN, wc' \in Ids \cup {NoConnection}, call' \in Calls,
         runs' \in 0..MaxRuns, ProgramOK', RelayOK(relay)',
         relay'.active = relay.active, relay'.conn_id = relay.conn_id,
         \A c \in Slots : /\ conns'[c].conn_id = conns[c].conn_id
                          /\ conns'[c].special = conns[c].special
                          /\ SlotOK(conns'[c], relay')
  PROVE  Inv'
<1>1. IdsOK /\ (PasswordSet \/ Held) /\ cur_conn_id \in 0..MaxConns
  BY DEF Inv, TypeOK
<1>2. TypeOK'
  BY <1>1 DEF TypeOK
<1>3. IdsOK'
  BY <1>1 DEF IdsOK
<1>4. PasswordSet \/ Held'
  BY <1>1 DEF Held
<1> QED BY <1>2, <1>3, <1>4 DEF Inv, SlotOK, Owner, OpenOK, PageOK, LeftOK,
           RequestIn, Patient, Shut, Base, From, Stretch

\* What the commands start from.
LEMMA CommandHas ==
  ASSUME Inv
  PROVE  /\ conns \in [Slots -> Slot] /\ relay \in Relays /\ basic_running \in BOOLEAN
         /\ wc \in Ids \cup {NoConnection} /\ call \in Calls /\ runs \in 0..MaxRuns
         /\ ProgramOK /\ RelayOK(relay) /\ (\A c \in Slots : SlotOK(conns[c], relay))
         /\ (call = Idle => relay.left = <<>> /\ ~relay.posting)
         /\ (call.op # "out" => relay.left = <<>>) /\ (call.op # "post" => ~relay.posting)
BY DEF Inv, TypeOK, RelayOK, Idle

LEMMA SlotRelay ==
  ASSUME NEW s, NEW r, NEW q, SlotOK(s, r),
         q.active = r.active, q.conn_id = r.conn_id, q.left = r.left
  PROVE  SlotOK(s, q)
BY DEF SlotOK, Owner, OpenOK, LeftOK

LEMMA RunStartsInv ==
  ASSUME Inv, RunStarts
  PROVE  Inv'
<1>1. /\ conns' = conns /\ relay' = relay /\ cur_conn_id' = cur_conn_id /\ call' = call
      /\ ~basic_running /\ basic_running' = TRUE /\ wc' = NoConnection /\ runs' = runs + 1
      /\ runs < MaxRuns
  BY DEF RunStarts
<1>2. call = Idle /\ relay.left = <<>> /\ ~relay.posting
  BY <1>1, CommandHas DEF ProgramOK
<1>3. ProgramOK' /\ runs' \in 0..MaxRuns
  BY <1>1, CommandHas, Sizes DEF ProgramOK
<1>4. RelayOK(relay)'
  BY <1>1, <1>2, CommandHas DEF RelayOK
<1> QED BY <1>1, <1>3, <1>4, CommandHas, CommandInv

LEMMA RunEndsInv ==
  ASSUME Inv, RunEnds
  PROVE  Inv'
<1>1. /\ conns' = conns /\ relay' = relay /\ cur_conn_id' = cur_conn_id /\ call' = call
      /\ call = Idle /\ basic_running' = FALSE /\ wc' = wc /\ runs' = runs
  BY DEF RunEnds
<1>2. ProgramOK' /\ RelayOK(relay)'
  BY <1>1, CommandHas DEF ProgramOK, RelayOK
<1> QED BY <1>1, <1>2, CommandHas, CommandInv

LEMMA WebconInv ==
  ASSUME Inv, httpd_basic_connection
  PROVE  Inv'
<1>1. /\ conns' = conns /\ relay' = relay /\ cur_conn_id' = cur_conn_id /\ call' = call
      /\ call = Idle /\ basic_running' = basic_running /\ runs' = runs
      /\ wc' = IF relay.active /\ ~relay.term THEN relay.conn_id ELSE NoConnection
  BY DEF httpd_basic_connection
<1>2. wc' \in Ids \cup {NoConnection}
  <2>1. relay.active => relay.conn_id # 0 /\ relay.conn_id \in 0..MaxConns
    BY CommandHas DEF RelayOK, Relays
  <2> QED BY <1>1, <2>1, Sizes DEF Ids
<1>3. ProgramOK' /\ RelayOK(relay)'
  BY <1>1, CommandHas DEF ProgramOK, RelayOK
<1> QED BY <1>1, <1>2, <1>3, CommandHas, CommandInv

\* A relay whose owner and string stay the same.
LEMMA SameRelayInv ==
  ASSUME Inv, conns' = conns, cur_conn_id' = cur_conn_id, basic_running' = basic_running,
         wc' = wc, runs' = runs, call' \in Calls, ProgramOK', RelayOK(relay)', relay' \in Relays,
         relay'.active = relay.active, relay'.conn_id = relay.conn_id, relay'.left = relay.left
  PROVE  Inv'
<1>1. ASSUME NEW c \in Slots PROVE SlotOK(conns'[c], relay')
  BY CommandHas, SlotRelay
<1> QED BY <1>1, CommandHas, CommandInv

LEMMA WeboutReturnsInv ==
  ASSUME Inv, WeboutReturns
  PROVE  Inv'
<1> DEFINE b == relay.term \/ (call.last /\ Named)
<1>1. /\ conns' = conns /\ cur_conn_id' = cur_conn_id /\ basic_running' = basic_running
      /\ wc' = wc /\ runs' = runs /\ call' = Idle /\ call.op = "out"
      /\ relay' = [relay EXCEPT !.term = b]
      /\ (relay.left = <<>> \/ ~relay.active \/ wc # relay.conn_id)
  BY DEF WeboutReturns
<1>2. b \in BOOLEAN
  <2>1. relay.term \in BOOLEAN
    BY CommandHas DEF Relays
  <2> QED BY <2>1
<1>3. relay.left = <<>> /\ ~relay.posting
  BY <1>1, CommandHas DEF RelayOK
<1> HIDE DEF b
<1>4. /\ relay' \in Relays /\ relay'.active = relay.active /\ relay'.conn_id = relay.conn_id
      /\ relay'.left = relay.left /\ relay'.posting = relay.posting
  BY <1>1, <1>2, CommandHas DEF Relays
<1>5. call' \in Calls /\ ProgramOK' /\ RelayOK(relay)'
  BY <1>1, <1>3, <1>4, CommandHas DEF Calls, ProgramOK, RelayOK
<1> QED BY <1>1, <1>4, <1>5, SameRelayInv

LEMMA GetPostInv ==
  ASSUME Inv, NEW n \in PostLens, httpd_get_post(n)
  PROVE  Inv'
<1> DEFINE e == <<>>
<1>1. /\ conns' = conns /\ cur_conn_id' = cur_conn_id /\ basic_running' = basic_running
      /\ wc' = wc /\ runs' = runs /\ call' = [op |-> "post", asked |-> n] /\ call = Idle
      /\ relay' = [relay EXCEPT !.posting = TRUE, !.room = n, !.got = e]
      /\ basic_running /\ relay.active /\ wc = relay.conn_id
  BY DEF httpd_get_post, Named
<1>2. e \in Seq(FormBytes) /\ n \in Nat /\ relay \in Relays
  BY SizeAssumption, CommandHas
<1> HIDE DEF e
<1>3. /\ relay' \in Relays /\ relay'.active = relay.active /\ relay'.conn_id = relay.conn_id
      /\ relay'.left = relay.left
  BY ONLY <1>1, <1>2 DEF Relays
<1>4. call' \in Calls /\ call'.op = "post" /\ ProgramOK'
  BY <1>1 DEF Calls, ProgramOK
<1>5. RelayOK(relay)'
  <2>1. relay'.left = <<>> /\ relay'.active /\ relay'.conn_id # 0
    BY <1>1, <1>3, CommandHas DEF RelayOK
  <2> QED BY <1>1, <1>3, <1>4, <2>1 DEF RelayOK
<1> QED BY <1>1, <1>3, <1>4, <1>5, SameRelayInv

\* The connection a string is for.
Written(s, k) == [s EXCEPT !.wrote = k]

LEMMA WrittenOK ==
  ASSUME NEW s \in Slot, NEW r, NEW q, SlotOK(s, r), s.special, r.left = <<>>, NEW n \in Nat,
         s.wrote + n <= MaxOut, q.active = r.active, q.conn_id = r.conn_id,
         q.left = Stretch(s.conn_id, s.wrote + 1, n)
  PROVE  /\ Written(s, s.wrote + n) \in Slot /\ SlotOK(Written(s, s.wrote + n), q)
         /\ Written(s, s.wrote + n).conn_id = s.conn_id
         /\ Written(s, s.wrote + n).special = s.special
<1> DEFINE k == s.wrote + n
           t == Written(s, k)
<1>1. s.wrote \in Nat /\ MaxOut \in Nat /\ k \in 0..MaxOut /\ s.wrote <= k
  BY SlotTypes, Sizes
<1>2. k = s.wrote + n
  OBVIOUS
<1> HIDE DEF k
<1>3. t \in Slot
  BY ONLY <1>1, s \in Slot DEF Written, Slot
<1>4. /\ t.wrote = k /\ t.tcp = s.tcp /\ t.conn_id = s.conn_id /\ t.timer = s.timer
      /\ t.slen = s.slen /\ t.page = s.page /\ t.outstanding = s.outstanding
      /\ t.arrived = s.arrived /\ t.unsent = s.unsent /\ t.form = s.form
      /\ t.output = s.output /\ t.input = s.input /\ t.content_length = s.content_length
      /\ t.inbuf = s.inbuf /\ t.special = s.special /\ t.reply = s.reply
  BY ONLY <1>1, s \in Slot DEF Written, Slot
<1> HIDE DEF t
<1>5. Owner(t, q)
  BY <1>4 DEF SlotOK, Owner
<1>6. ASSUME s.tcp # "open" PROVE SlotOK(t, q)
  BY <1>4, <1>5, <1>6 DEF SlotOK, Shut
<1>7. ASSUME s.tcp = "open" PROVE SlotOK(t, q)
  <2>1. /\ PageOK(s) /\ RequestIn(s) /\ Patient(s) /\ s.output # "begin" /\ LeftOK(s, r)
        /\ s.unsent <= s.form
    BY <1>7 DEF SlotOK, OpenOK
  <2>2. s.output # "none"
    BY <2>1 DEF RequestIn
  <2> DEFINE f == From(s)
             b == Base(s)
             o == Len(s.outstanding)
             m == s.wrote + 1 - f
             id == s.conn_id
  <2>3. b \in Nat /\ o \in Nat /\ b + o <= s.wrote + 1
    <3>1. s.outstanding \in Seq(PageBytes)
      BY SlotTypes
    <3> QED BY <2>1, <3>1 DEF PageOK
  <2>4. f = 1 \/ f = b
    BY DEF From
  <2> HIDE DEF b, o, f
  <2>5. f \in Nat /\ m \in Nat
    BY <1>1, <2>3, <2>4
  <2>6. r.left = Stretch(id, f, m)
    BY <2>1 DEF LeftOK, f
  <2> HIDE DEF m, id
  <2>7. m = 0
    <3>1. Stretch(id, f, m) = <<>> <=> m = 0
      BY ONLY <2>5, StretchIs
    <3> QED BY <2>6, <3>1
  <2>8. f = s.wrote + 1
    BY <1>1, <2>5, <2>7 DEF m
  <2>9. k + 1 - f = n
    BY <1>1, <1>2, <2>8
  <2>10. Base(t) = b /\ From(t) = f
    BY <1>4 DEF Base, From, b, f
  <2>11. LeftOK(t, q)
    BY <1>4, <2>8, <2>9, <2>10 DEF LeftOK
  <2>12. b + o <= k + 1
    BY <1>1, <2>3
  <2>13. PageOK(t)
    BY <1>4, <2>1, <2>2, <2>10, <2>12 DEF PageOK, b, o
  <2>14. RequestIn(t) /\ Patient(t)
    BY <1>4, <2>1 DEF RequestIn, Patient
  <2> QED BY <1>4, <1>5, <1>7, <2>1, <2>11, <2>13, <2>14 DEF SlotOK, OpenOK
<1> QED BY <1>3, <1>4, <1>6, <1>7 DEF t, k

LEMMA RelayHtmlInv ==
  ASSUME Inv, NEW n \in OutLens, NEW last \in BOOLEAN, httpd_relay_html(n, last)
  PROVE  Inv'
<1>1. PICK at \in 0..MaxOut :
        /\ at + n <= MaxOut /\ \A c \in Slots : conns[c].conn_id = wc => conns[c].wrote = at
        /\ IF n > 0
           THEN /\ relay' = [relay EXCEPT !.left = [i \in 1..n |-> <<wc, at + i>>]]
                /\ call' = [op |-> "out", last |-> last]
           ELSE relay' = [relay EXCEPT !.term = last] /\ UNCHANGED call
        /\ conns' = [c \in Slots |-> IF conns[c].conn_id = wc
                                     THEN Written(conns[c], at + n) ELSE conns[c]]
  BY DEF httpd_relay_html, Written
<1>2. /\ cur_conn_id' = cur_conn_id /\ basic_running' = basic_running /\ wc' = wc
      /\ runs' = runs /\ basic_running /\ call = Idle /\ relay.active /\ wc = relay.conn_id
  BY DEF httpd_relay_html, Named
<1> DEFINE left == Stretch(wc, at + 1, n)
<1>3. n \in Nat /\ at \in Nat /\ MaxOut \in Nat /\ MaxConns \in Nat
  BY SizeAssumption, Sizes
<1>4. relay \in Relays /\ relay.left = <<>> /\ ~relay.posting /\ wc \in 1..MaxConns
  BY <1>2, CommandHas DEF RelayOK, Ids, NoConnection
<1>5. left \in Seq(PageBytes)
  <2>1. at + 1 \in Nat
    BY <1>3
  <2>2. ASSUME NEW i \in 1..n PROVE <<wc, (at + 1) + i - 1>> \in PageBytes
    <3>1. (at + 1) + i - 1 \in 0..MaxOut
      BY <1>1, <1>3, <2>2
    <3> QED BY <1>4, <3>1 DEF PageBytes, Ids
  <2> QED BY <1>3, <2>1, <2>2, StretchIs
<1>6. /\ relay' \in Relays /\ relay'.active = relay.active /\ relay'.conn_id = relay.conn_id
      /\ relay'.left = left /\ relay'.posting = relay.posting
  <2>1. CASE n > 0
    <3>1. left = [i \in 1..n |-> <<wc, at + i>>]
      <4>1. \A i \in 1..n : (at + 1) + i - 1 = at + i
        BY <1>3
      <4> QED BY <4>1 DEF Stretch
    <3>2. relay' = [relay EXCEPT !.left = left]
      BY <1>1, <2>1, <3>1
    <3> HIDE DEF left
    <3> QED BY ONLY <1>4, <1>5, <3>2 DEF Relays
  <2>2. CASE n = 0
    <3>1. relay' = [relay EXCEPT !.term = last]
      BY <1>1, <2>2
    <3>2. left = <<>>
      <4>1. at + 1 \in Nat /\ 0 \in Nat
        BY <1>3
      <4>2. Stretch(wc, at + 1, 0) = <<>>
        BY ONLY <4>1, StretchIs
      <4> QED BY <2>2, <4>2
    <3> HIDE DEF left
    <3> QED BY ONLY <1>4, <3>1, <3>2, last \in BOOLEAN DEF Relays
  <2> QED BY <1>3, <2>1, <2>2
<1> HIDE DEF left
<1>7. call' \in Calls /\ (n > 0 => call'.op = "out") /\ ProgramOK'
  BY <1>1, <1>2, CommandHas DEF ProgramOK, Calls
<1>8. n = 0 => left = <<>>
  <2>1. at + 1 \in Nat /\ 0 \in Nat
    BY <1>3
  <2>2. Stretch(wc, at + 1, 0) = <<>>
    BY ONLY <2>1, StretchIs
  <2> QED BY <2>2 DEF left
<1>9. RelayOK(relay)'
  <2>1. ~relay'.posting /\ relay'.active /\ relay'.conn_id = wc' /\ relay'.conn_id # 0
    BY <1>2, <1>4, <1>6
  <2>2. relay'.left # <<>> => call'.op = "out"
    BY <1>3, <1>6, <1>7, <1>8
  <2> QED BY <2>1, <2>2 DEF RelayOK
<1>10. ASSUME NEW c \in Slots
       PROVE  /\ conns'[c] \in Slot /\ conns'[c].conn_id = conns[c].conn_id
              /\ conns'[c].special = conns[c].special /\ SlotOK(conns'[c], relay')
  <2> DEFINE s == conns[c]
             t == conns'[c]
             q == relay'
  <2>1. s \in Slot /\ SlotOK(s, relay) /\ Owner(s, relay)
    BY SlotHas
  <2>2. t = IF s.conn_id = wc THEN Written(s, at + n) ELSE s
    BY <1>1
  <2>3. CASE s.conn_id = wc
    <3>1. s.special /\ s.wrote = at
      BY <1>1, <1>2, <2>1, <2>3 DEF Owner
    <3>2. t = Written(s, s.wrote + n) /\ s.wrote + n <= MaxOut
      BY <1>1, <2>2, <2>3, <3>1
    <3>3. q.active = relay.active /\ q.conn_id = relay.conn_id
          /\ q.left = Stretch(s.conn_id, s.wrote + 1, n)
      BY <1>6, <2>3, <3>1 DEF left
    <3> HIDE DEF s, t, q
    <3>4. /\ Written(s, s.wrote + n) \in Slot /\ SlotOK(Written(s, s.wrote + n), q)
          /\ Written(s, s.wrote + n).conn_id = s.conn_id
          /\ Written(s, s.wrote + n).special = s.special
      BY <1>3, <1>4, <2>1, <3>1, <3>2, <3>3, WrittenOK
    <3> QED BY <3>2, <3>4 DEF s, t, q
  <2>4. CASE s.conn_id # wc
    <3>1. t = s
      BY <2>2, <2>4
    <3>2. ~s.special
      BY <1>2, <2>1, <2>4 DEF Owner
    <3>3. q.active = relay.active /\ q.conn_id = relay.conn_id
      BY <1>6
    <3> HIDE DEF s, q
    <3>4. SlotOK(s, q)
      BY <2>1, <3>2, <3>3 DEF SlotOK, Owner, OpenOK
    <3> QED BY <2>1, <3>1, <3>4 DEF s, q
  <2> QED BY <2>3, <2>4
<1>11. conns' \in [Slots -> Slot]
  <2>1. conns' = [c \in Slots |-> conns'[c]]
    BY <1>1
  <2> QED BY <1>10, <2>1
<1> QED BY <1>2, <1>6, <1>7, <1>9, <1>10, <1>11, CommandHas, CommandInv

\* A connection whose first WEBPST$ has been answered.
Answered(s, p) == [s EXCEPT !.posted = p]

LEMMA AnsweredOK ==
  ASSUME NEW s \in Slot, NEW r, SlotOK(s, r),
         NEW p \in [asked: PostLens \cup {0}, got: Seq(FormBytes)]
  PROVE  /\ Answered(s, p) \in Slot /\ SlotOK(Answered(s, p), r)
         /\ Answered(s, p).conn_id = s.conn_id /\ Answered(s, p).special = s.special
<1> DEFINE t == Answered(s, p)
<1>1. t \in Slot
  <2>1. s \in Slot /\ p \in [asked: PostLens \cup {0}, got: Seq(FormBytes)]
    OBVIOUS
  <2> QED BY ONLY <2>1 DEF Answered, Slot
<1>2. /\ t.wrote = s.wrote /\ t.tcp = s.tcp /\ t.conn_id = s.conn_id /\ t.timer = s.timer
      /\ t.slen = s.slen /\ t.page = s.page /\ t.outstanding = s.outstanding
      /\ t.arrived = s.arrived /\ t.unsent = s.unsent /\ t.form = s.form
      /\ t.output = s.output /\ t.input = s.input /\ t.content_length = s.content_length
      /\ t.inbuf = s.inbuf /\ t.special = s.special /\ t.reply = s.reply
  BY ONLY s \in Slot DEF Answered, Slot
<1> HIDE DEF t
<1>3. SlotOK(t, r)
  <2>1. Base(t) = Base(s) /\ From(t) = From(s)
    BY <1>2 DEF Base, From
  <2>2. PageOK(s) => PageOK(t)
    BY <1>2, <2>1 DEF PageOK
  <2>3. LeftOK(s, r) => LeftOK(t, r)
    BY <1>2, <2>1 DEF LeftOK
  <2>4. (RequestIn(s) => RequestIn(t)) /\ (Patient(s) => Patient(t))
    BY <1>2 DEF RequestIn, Patient
  <2>5. OpenOK(s, r) => OpenOK(t, r)
    BY <1>2, <2>2, <2>3, <2>4 DEF OpenOK
  <2>6. (Owner(s, r) => Owner(t, r)) /\ (Shut(s) => Shut(t))
    BY <1>2 DEF Owner, Shut
  <2> QED BY <1>2, <2>5, <2>6 DEF SlotOK
<1> QED BY <1>1, <1>2, <1>3 DEF t

LEMMA WebpstReturnsInv ==
  ASSUME Inv, WebpstReturns
  PROVE  Inv'
<1> DEFINE p == [asked |-> call.asked, got |-> relay.got]
<1>1. /\ relay' = relay /\ cur_conn_id' = cur_conn_id /\ basic_running' = basic_running
      /\ wc' = wc /\ runs' = runs /\ call' = Idle /\ call.op = "post"
      /\ (~relay.posting \/ ~relay.active \/ wc # relay.conn_id)
      /\ conns' = [c \in Slots |->
                     IF conns[c].conn_id = wc /\ conns[c].posted = Unasked
                     THEN Answered(conns[c], p) ELSE conns[c]]
  BY DEF WebpstReturns, Answered
<1>2. p \in [asked: PostLens \cup {0}, got: Seq(FormBytes)]
  <2>1. relay.got \in Seq(FormBytes)
    BY CommandHas DEF Relays
  <2>2. call.asked \in PostLens
    BY <1>1, CommandHas DEF Calls, Idle
  <2> QED BY <2>1, <2>2
<1>3. ~relay.posting /\ relay.left = <<>>
  BY <1>1, CommandHas DEF RelayOK
<1> HIDE DEF p
<1>4. call' \in Calls /\ ProgramOK' /\ RelayOK(relay)'
  BY <1>1, <1>3, CommandHas DEF Calls, ProgramOK, RelayOK
<1>5. ASSUME NEW c \in Slots
      PROVE  /\ conns'[c] \in Slot /\ conns'[c].conn_id = conns[c].conn_id
             /\ conns'[c].special = conns[c].special /\ SlotOK(conns'[c], relay)
  <2> DEFINE s == conns[c]
  <2>1. s \in Slot /\ SlotOK(s, relay)
    BY SlotHas
  <2>2. conns'[c] = s \/ conns'[c] = Answered(s, p)
    BY <1>1
  <2> HIDE DEF s
  <2>3. /\ Answered(s, p) \in Slot /\ SlotOK(Answered(s, p), relay)
        /\ Answered(s, p).conn_id = s.conn_id /\ Answered(s, p).special = s.special
    BY ONLY <1>2, <2>1, AnsweredOK
  <2> QED BY <2>1, <2>2, <2>3 DEF s
<1>6. conns' \in [Slots -> Slot]
  <2>1. conns' = [c \in Slots |-> conns'[c]]
    BY <1>1
  <2> QED BY <1>5, <2>1
<1> QED BY <1>1, <1>4, <1>5, <1>6, CommandHas, CommandInv

-----------------------------------------------------------------------------
(* The specification *)

LEMMA InitInv == Init => Inv
<1> SUFFICES ASSUME Init PROVE Inv
  OBVIOUS
<1>1. /\ conns = [c \in Slots |-> FreeSlot] /\ cur_conn_id = 0 /\ ~basic_running
      /\ basic_running = FALSE /\ wc = NoConnection /\ call = Idle /\ runs = 0
      /\ relay = [active |-> FALSE, conn_id |-> 0, term |-> FALSE, left |-> <<>>,
                  posting |-> FALSE, room |-> 0, got |-> <<>>]
  BY DEF Init
<1>2. relay \in Relays
  BY <1>1, Sizes DEF Relays
<1>3. /\ FreeSlot \in Slot /\ FreeSlot.tcp = "free" /\ FreeSlot.conn_id = 0
      /\ ~FreeSlot.special /\ FreeSlot.reply = "200" /\ Shut(FreeSlot)
  BY FreeSlotIs
<1>4. \A c \in Slots : conns[c] = FreeSlot
  BY <1>1
<1>5. TypeOK
  <2>1. conns \in [Slots -> Slot]
    BY <1>1, <1>3
  <2>2. 0 \in 0..MaxConns /\ 0 \in 0..MaxRuns
    BY Sizes
  <2>3. Idle \in Calls
    BY DEF Calls
  <2> QED BY <1>1, <1>2, <2>1, <2>2, <2>3 DEF TypeOK
<1>6. ProgramOK /\ RelayOK(relay) /\ Held
  BY <1>1 DEF ProgramOK, RelayOK, Held
<1>7. IdsOK
  BY <1>1, <1>3, <1>4 DEF IdsOK
<1>8. \A c \in Slots : SlotOK(conns[c], relay)
  BY <1>1, <1>3, <1>4 DEF SlotOK, Owner
<1> QED BY <1>5, <1>6, <1>7, <1>8 DEF Inv

LEMMA NetworkInv ==
  ASSUME Inv, NEW c \in Slots, Network(c)
  PROVE  Inv'
<1>1. CASE Segment(c) \/ Ends(c) \/ Timer(c)
  <2>1. \E s, ev, new : Follows(c, s, ev, new)
    BY <1>1, SegmentFollows, EndsFollows, TimerFollows
  <2> QED BY <2>1, EventInv
<1> QED BY <1>1, ConnectInv, RequestInv, ArrivesInv, FinWait2Inv DEF Network

LEMMA ProgramInv ==
  ASSUME Inv, Program
  PROVE  Inv'
BY RunStartsInv, RunEndsInv, WebconInv, WeboutReturnsInv, WebpstReturnsInv,
   RelayHtmlInv, GetPostInv DEF Program

LEMMA NextInv == Inv /\ [Next]_vars => Inv'
<1> SUFFICES ASSUME Inv, [Next]_vars PROVE Inv'
  OBVIOUS
<1>1. CASE Next
  BY <1>1, NetworkInv, ProgramInv DEF Next
<1>2. CASE UNCHANGED vars
  <2>1. /\ conns' = conns /\ relay' = relay /\ cur_conn_id' = cur_conn_id /\ call' = call
        /\ basic_running' = basic_running /\ wc' = wc /\ runs' = runs
    BY <1>2 DEF vars, program
  <2> QED BY <2>1, CommandHas, SameRelayInv DEF ProgramOK, RelayOK
<1> QED BY <1>1, <1>2

LEMMA SpecInv == Spec => []Inv
<1>1. Init => Inv
  BY InitInv
<1>2. Inv /\ [Next]_vars => Inv'
  BY NextInv
<1> QED BY <1>1, <1>2, PTL DEF Spec

\* A string under way in psock_send belongs to the connection that has the
\* relay, and part of it is still to be taken.
LEMMA InvNothingDangles == Inv => NothingDangles
<1> SUFFICES ASSUME Inv PROVE NothingDangles
  OBVIOUS
<1>1. RelayOK(relay)
  BY CommandHas
<1>2. ASSUME NEW c \in Slots, conns[c].output = "string"
      PROVE  call.op = "out" /\ conns[c].special
  <2> DEFINE s == conns[c]
             b == Base(s)
             o == Len(s.outstanding)
             m == s.wrote + 1 - b
             id == s.conn_id
  <2>1. s.tcp = "open"
    BY <1>2, SlotHas DEF Shut
  <2>2. s \in Slot /\ PageOK(s) /\ RequestIn(s) /\ (s.special => LeftOK(s, relay))
    BY <2>1, SlotHas
  <2>3. s.special
    BY <1>2, <2>2 DEF RequestIn
  <2>4. b \in Nat /\ b + o <= s.wrote + 1 /\ o = s.slen /\ s.slen > 0
    BY <1>2, <2>2 DEF PageOK
  <2>5. s.wrote \in Nat /\ s.slen \in Nat
    BY <2>2, SlotTypes
  <2>6. relay.left = Stretch(id, b, m)
    BY <1>2, <2>2, <2>3 DEF LeftOK, From
  <2> HIDE DEF b, o
  <2>7. m \in Nat /\ m # 0
    BY <2>4, <2>5
  <2> HIDE DEF m, id
  <2>8. relay.left # <<>>
    <3>1. b \in Nat
      BY <2>4
    <3>2. Stretch(id, b, m) = <<>> <=> m = 0
      BY ONLY <2>7, <3>1, StretchIs
    <3> QED BY ONLY <2>6, <2>7, <3>2
  <2> QED BY <1>1, <2>3, <2>8 DEF RelayOK
<1> QED BY <1>1, <1>2 DEF NothingDangles, RelayOK

\* The page is a stretch that begins with the header; a connection that waits
\* for the next string has nothing under way and nothing left in the relay.
LEMMA InvPageAsWritten == Inv => PageAsWritten
<1> SUFFICES ASSUME Inv, NEW c \in Slots
             PROVE  LET s == conns[c]
                    IN  /\ s.page = [i \in 1..Len(s.page) |-> <<s.conn_id, i - 1>>]
                        /\ Len(s.page) <= s.wrote + 1
                        /\ s.output = "relay" /\ call.op # "out" => Len(s.page) = s.wrote + 1
  BY DEF PageAsWritten
<1> DEFINE s == conns[c]
           p == Len(s.page)
           b == Base(s)
           o == Len(s.outstanding)
<1>1. s \in Slot
  BY SlotHas
<1>2. /\ s.page \in Seq(PageBytes) /\ s.outstanding \in Seq(PageBytes) /\ s.wrote \in Nat
      /\ p \in Nat /\ o \in Nat
  BY <1>1, SlotTypes
<1>3. CASE s.tcp = "open"
  <2>1. PageOK(s) /\ RequestIn(s) /\ (s.special => LeftOK(s, relay))
    BY <1>3, SlotHas
  <2>2. s.page = [i \in 1..p |-> <<s.conn_id, i - 1>>]
    <3>1. \A i \in 1..p : 0 + i - 1 = i - 1
      BY <1>2
    <3>2. s.page = Stretch(s.conn_id, 0, p)
      BY <2>1 DEF PageOK
    <3> QED BY <3>1, <3>2 DEF Stretch
  <2>3. b = p \/ b = p - o
    <3>1. b = p - (IF s.arrived THEN o ELSE 0)
      BY DEF Base
    <3> HIDE DEF b, p, o
    <3> QED BY <1>2, <3>1
  <2>4. b \in Nat /\ b + o <= s.wrote + 1
    BY <2>1 DEF PageOK
  <2>5. p <= s.wrote + 1
    <3> HIDE DEF b, p, o
    <3> QED BY <1>2, <2>3, <2>4
  <2>6. ASSUME s.output = "relay", call.op # "out" PROVE p = s.wrote + 1
    <3> DEFINE m == s.wrote + 1 - b
               id == s.conn_id
    <3>1. s.special /\ s.outstanding = <<>>
      BY <2>1, <2>6 DEF RequestIn, PageOK
    <3>2. relay.left = Stretch(id, b, m)
      BY <2>1, <2>6, <3>1 DEF LeftOK, From
    <3>3. relay.left = <<>>
      BY <2>6, CommandHas
    <3>4. o = 0
      BY <3>1
    <3> HIDE DEF b, o, p, id
    <3>5. m \in Nat
      BY <1>2, <2>4, <3>4
    <3> HIDE DEF m
    <3>6. m = 0
      <4>1. b \in Nat
        BY <2>4
      <4>2. Stretch(id, b, m) = <<>> <=> m = 0
        BY ONLY <3>5, <4>1, StretchIs
      <4> QED BY ONLY <3>2, <3>3, <4>2
    <3>7. b = s.wrote + 1
      BY <1>2, <2>4, <3>6 DEF m
    <3> QED BY <1>2, <2>3, <3>4, <3>7
  <2> QED BY <2>2, <2>5, <2>6
<1>4. CASE s.tcp # "open"
  <2>1. s.page = <<>> /\ s.output = "none"
    BY <1>4, SlotHas DEF Shut
  <2>2. p = 0 /\ s.page = [i \in 1..p |-> <<s.conn_id, i - 1>>]
    <3>1. p = 0
      BY <2>1
    <3>2. Stretch(s.conn_id, 0, 0) = <<>>
      BY StretchIs
    <3>3. \A i \in 1..0 : FALSE
      OBVIOUS
    <3> QED BY <2>1, <3>1, <3>3
  <2> QED BY <1>2, <2>1, <2>2
<1> QED BY <1>3, <1>4

\* Who has the relay names it, no two connections have a name in common, and
\* without a password no call ends a connection that still has it.
LEMMA InvOneHolder == ASSUME ~PasswordSet PROVE Inv => OneHolder
<1> SUFFICES ASSUME Inv PROVE OneHolder
  OBVIOUS
<1>1. IdsOK /\ Held
  BY DEF Inv
<1>2. \A c \in Slots : conns[c].special <=> relay.active /\ relay.conn_id = conns[c].conn_id
  BY SlotHas DEF Owner
<1>3. relay.active => relay.conn_id # 0
  BY CommandHas DEF RelayOK
<1> DEFINE holders == {c \in Slots : conns[c].special}
<1>4. CASE ~relay.active
  BY <1>2, <1>4 DEF OneHolder
<1>5. CASE relay.active
  <2>1. PICK c \in holders : TRUE
    BY <1>1, <1>5 DEF Held
  <2>2. \A d \in holders : conns[d].conn_id = relay.conn_id
    BY <1>2
  <2>3. \A d \in holders : d = c
    <3>1. conns[c].conn_id = relay.conn_id /\ conns[c].conn_id # 0
      BY <1>3, <1>5, <2>2
    <3>2. \A d \in Slots : conns[d].conn_id = conns[c].conn_id => d = c
      BY <1>1, <3>1 DEF IdsOK
    <3> QED BY <2>2, <3>1, <3>2
  <2>4. holders = {c}
    BY <2>1, <2>3
  <2> QED BY <1>5, <2>1, <2>2, <2>4 DEF OneHolder
<1> QED BY <1>4, <1>5

-----------------------------------------------------------------------------
(* The form *)

Numbers(n) == [i \in 1..n |-> i]
Short(s) == s.form <= BUF /\ ~s.waited
Upto(s, asked) == {<<>>, Numbers(Least(s.form, asked))}
Posted(s) == Short(s) /\ s.posted.asked > 0 => s.posted.got \in Upto(s, s.posted.asked)

\* What the browser has sent of a short form is in inputbuf until all of it is.
ReadOK(s) ==
  /\ s.input = "read" /\ s.content_length # 0 =>
       /\ s.content_length = s.form /\ s.unread = <<>> /\ s.blocked
       /\ s.inbuf = Numbers(s.form - s.unsent)
  /\ s.input = "hold" => s.content_length = 0 /\ s.inbuf = Numbers(s.form)

\* What WEBPST$ has got so far: of the connection it waits for, of any other.
GotOK(s, r) ==
  call.op = "post" /\ s.conn_id = wc =>
    IF r.posting THEN r.got = <<>> /\ r.room = call.asked ELSE r.got \in Upto(s, call.asked)
GotFree(r) == call.op = "post" => wc # 0 /\ (~(r.active /\ r.conn_id = wc) => r.got = <<>>)

FormOK(s, r) ==
  /\ s.tcp = "open" => /\ s.input = "headers" => s.form = 0 /\ ~s.waited
                       /\ s.input = "wait" => s.waited
                       /\ Short(s) /\ s.special => ReadOK(s)
  /\ Short(s) /\ s.special => GotOK(s, r)
  /\ Posted(s)
FormInv == GotFree(relay) /\ \A c \in Slots : FormOK(conns[c], relay)

LEMMA NumbersIs ==
  ASSUME NEW n \in Nat
  PROVE  /\ Numbers(n) \in Seq(Nat) /\ Len(Numbers(n)) = n
         /\ \A i \in 1..n : Numbers(n)[i] = i
         /\ n = 0 => Numbers(n) = <<>>
<1>1. Numbers(n) \in Seq(Nat)
  BY DEF Numbers
<1>2. DOMAIN Numbers(n) = 1..n /\ \A i \in 1..n : Numbers(n)[i] = i
  BY DEF Numbers
<1>3. Len(Numbers(n)) = n
  <2> HIDE DEF Numbers
  <2> QED BY <1>1, <1>2
<1>4. n = 0 => Numbers(n) = <<>>
  BY DEF Numbers
<1> QED BY <1>1, <1>2, <1>3, <1>4

\* A sequence of numbers is known by its length.
LEMMA IsNumbers ==
  ASSUME NEW S, NEW s \in Seq(S), \A i \in 1..Len(s) : s[i] = i
  PROVE  s = Numbers(Len(s))
<1>1. Len(s) \in Nat /\ s = [i \in 1..Len(s) |-> s[i]]
  OBVIOUS
<1> QED BY <1>1 DEF Numbers

LEMMA NumbersCut ==
  ASSUME NEW n \in Nat, NEW m \in 0..n
  PROVE  SubSeq(Numbers(n), 1, m) = Numbers(m)
<1> DEFINE s == Numbers(n)
<1>1. s \in Seq(Nat) /\ Len(s) = n /\ \A i \in 1..n : s[i] = i
  BY NumbersIs
<1> HIDE DEF s
<1>2. m \in 0..Len(s) /\ \A i \in 1..m : i \in 1..n
  BY <1>1
<1>3. /\ SubSeq(s, 1, m) \in Seq(Nat) /\ Len(SubSeq(s, 1, m)) = m
      /\ \A i \in 1..m : SubSeq(s, 1, m)[i] = s[i]
  BY ONLY <1>1, <1>2, Cut
<1>4. SubSeq(s, 1, m) = Numbers(Len(SubSeq(s, 1, m)))
  BY ONLY <1>1, <1>2, <1>3, IsNumbers
<1> QED BY <1>3, <1>4 DEF s

\* The form grows by a segment that begins where it ends.
LEMMA NumbersJoin ==
  ASSUME NEW n \in Nat, NEW m \in Nat
  PROVE  Numbers(n) \o [i \in 1..m |-> n + i] = Numbers(n + m)
<1> DEFINE a == Numbers(n)
           b == [i \in 1..m |-> n + i]
<1>1. a \in Seq(Nat) /\ Len(a) = n /\ \A i \in 1..n : a[i] = i
  BY NumbersIs
<1>2. b \in Seq(Nat) /\ Len(b) = m /\ \A i \in 1..m : b[i] = n + i
  OBVIOUS
<1> HIDE DEF a, b
<1>3. /\ a \o b \in Seq(Nat) /\ Len(a \o b) = n + m
      /\ \A i \in 1..(n + m) : (a \o b)[i] = IF i <= n THEN a[i] ELSE b[i - n]
  BY <1>1, <1>2, ConcatProperties
<1>4. ASSUME NEW i \in 1..(n + m) PROVE (a \o b)[i] = i
  <2>0. i \in 1..n \/ i > n
    OBVIOUS
  <2>1. CASE i \in 1..n
    BY <1>1, <1>3, <2>1
  <2>2. CASE i > n
    <3>1. i - n \in 1..m /\ n + (i - n) = i
      BY <2>2
    <3> QED BY <1>2, <1>3, <2>2, <3>1
  <2> QED BY <2>0, <2>1, <2>2
<1>5. a \o b = Numbers(Len(a \o b))
  BY ONLY <1>3, <1>4, IsNumbers
<1> QED BY <1>3, <1>5 DEF a, b

\* The form in a call: what has been read of it, what WEBPST$ has got.
Data(x) == IF x.s.unread = <<>> /\ x.s.blocked THEN x.new ELSE x.s.unread
Reading(x) == /\ x.s.content_length = x.s.form
              /\ x.s.inbuf \o Data(x) = Numbers(x.s.form - x.s.unsent)
FormIn(x) ==
  /\ x.s.input = "headers" => x.s.form = 0 /\ ~x.s.waited
  /\ x.s.input = "wait" /\ ~x.s.waited => RelayFree(x) /\ (Short(x.s) => Reading(x))
  /\ Short(x.s) /\ x.s.special =>
       /\ x.s.input = "read" /\ x.s.content_length # 0 => Reading(x)
       /\ x.s.input = "hold" => x.s.content_length = 0 /\ x.s.inbuf = Numbers(x.s.form)
       /\ GotOK(x.s, x.r)
  /\ Posted(x.s) /\ GotFree(x.r)

\* A request that may have the relay has it, and what came of the form is read.
Settled(s) ==
  /\ s.input = "wait" => s.waited
  /\ Short(s) /\ s.special /\ s.input = "read" /\ s.content_length # 0 =>
       s.unread = <<>> /\ s.blocked /\ s.inbuf = Numbers(s.form - s.unsent)

\* The form and its history, and what lies of it where.
SameForm(s, t) ==
  /\ t.conn_id = s.conn_id /\ t.form = s.form /\ t.unsent = s.unsent
  /\ t.waited = s.waited /\ t.posted = s.posted
SameInput(s, t) ==
  /\ t.input = s.input /\ t.content_length = s.content_length /\ t.inbuf = s.inbuf
  /\ t.unread = s.unread /\ t.blocked = s.blocked
SameGot(r, q) ==
  /\ (q.active <=> r.active) /\ q.conn_id = r.conn_id /\ (q.posting <=> r.posting)
  /\ q.room = r.room /\ q.got = r.got

LEMMA FormSame ==
  ASSUME NEW x, NEW y, FormIn(x), SameForm(x.s, y.s), SameInput(x.s, y.s),
         y.s.special <=> x.s.special, y.new = x.new, SameGot(x.r, y.r)
  PROVE  FormIn(y) /\ (Settled(x.s) => Settled(y.s))
<1>1. (Short(y.s) <=> Short(x.s)) /\ (Posted(x.s) => Posted(y.s))
  BY DEF Short, Posted, Upto, SameForm
<1>2. Data(y) = Data(x) /\ (Reading(x) => Reading(y)) /\ (RelayFree(x) => RelayFree(y))
  BY DEF Data, Reading, RelayFree, SameForm, SameInput, SameGot
<1>3. (GotOK(x.s, x.r) => GotOK(y.s, y.r)) /\ (GotFree(x.r) => GotFree(y.r))
  BY DEF GotOK, GotFree, Upto, SameForm, SameGot
<1> QED BY <1>1, <1>2, <1>3 DEF FormIn, Settled, SameForm, SameInput

LEMMA AdmitForm ==
  ASSUME NEW x \in Midway, Going(x), FormIn(x)
  PROVE  FormIn(Admit(x)) /\ (Admit(x).s.input = "wait" => Admit(x).s.waited)
<1> DEFINE y == Admit(x)
           s == x.s
<1>1. s \in Slot /\ x.r \in Relays
  BY MidwayParts
<1>2. CASE y = x /\ (s.input = "wait" => ~RelayFree(x))
  BY <1>2 DEF FormIn
<1>3. CASE s.input = "wait" /\ RelayFree(x) /\ y = [x EXCEPT !.s = Admitted(s), !.r = Fresh(s.conn_id)]
  <2> DEFINE t == Admitted(s)
             q == Fresh(s.conn_id)
  <2>1. y.s = t /\ y.r = q /\ y.new = x.new
    <3> HIDE DEF t, q, y
    <3> QED BY <1>3 DEF Midway, t, q
  <2>2. /\ SameForm(s, t) /\ t.content_length = s.content_length /\ t.inbuf = s.inbuf
        /\ t.unread = s.unread /\ t.blocked = s.blocked /\ t.input = "read"
    BY <1>1 DEF Slot, Admitted, SameForm
  <2>3. ~q.posting /\ q.got = <<>>
    BY DEF Fresh
  <2> HIDE DEF t, q, y
  <2>4. (Short(t) <=> Short(s)) /\ Posted(t) /\ (Reading(x) => Reading(y))
    BY <2>1, <2>2 DEF FormIn, Short, Posted, Upto, SameForm, Reading, Data
  <2>5. GotOK(t, q) /\ GotFree(q)
    BY <2>3 DEF FormIn, GotOK, GotFree, Upto
  <2>6. Short(s) => Reading(x)
    BY <1>3 DEF FormIn, Short
  <2> QED BY <2>1, <2>2, <2>4, <2>5, <2>6 DEF FormIn, y
<1>4. CASE s.input = "wait" /\ ~RelayFree(x) /\ y = [x EXCEPT !.s = Refused(s), !.r = x.r]
  <2> DEFINE t == Refused(s)
  <2>1. y.s = t /\ y.r = x.r /\ y.new = x.new
    <3> HIDE DEF t, y
    <3> QED BY <1>4 DEF Midway, t
  <2>2. SameForm(s, t) /\ t.input = "read"
    BY <1>1 DEF Slot, Refused, SameForm
  <2> HIDE DEF t, y
  <2>3. s.waited
    BY <1>4 DEF FormIn
  <2>4. Posted(t) /\ ~Short(t)
    BY <2>2, <2>3 DEF Short, Posted, SameForm
  <2> QED BY <2>1, <2>2, <2>4 DEF FormIn, y
<1> QED BY <1>2, <1>3, <1>4, AdmitIs

\* The history of a connection is not what handle_input changes.
LEMMA TurnHistory ==
  ASSUME NEW x \in Midway
  PROVE  Turn(x).s.waited = x.s.waited /\ Turn(x).s.posted = x.s.posted
<1> DEFINE s == x.s
<1>1. s \in Slot
  BY MidwayParts
<1>2. ASSUME NEW y, y.s.waited = s.waited, y.s.posted = s.posted, Turn(x) = y
      PROVE  Turn(x).s.waited = s.waited /\ Turn(x).s.posted = s.posted
  BY <1>2
<1>3. ReadChunk(x).s.waited = s.waited /\ ReadChunk(x).s.posted = s.posted
  BY <1>1 DEF ReadChunk, Midway, Slot
<1>4. GiveChunk(x).s.waited = s.waited /\ GiveChunk(x).s.posted = s.posted
  BY <1>1 DEF GiveChunk, Midway, Slot
<1>5. /\ [x EXCEPT !.s.input = "done"].s.waited = s.waited
      /\ [x EXCEPT !.s.input = "done"].s.posted = s.posted
  BY <1>1 DEF Midway, Slot
<1> QED BY <1>3, <1>4, <1>5 DEF Turn

\* A turn that reads: all that has come of the form is in inputbuf, and when
\* that is the form the chunk is complete.
LEMMA ReadForm ==
  ASSUME NEW x \in Midway, x.s.input = "read", x.s.content_length > 0, ReadBound(x.s),
         x.s.form <= BUF, x.s.unsent <= x.s.form, Reading(x)
  PROVE  LET y == ReadChunk(x)
         IN  \/ /\ y.s.input = "read" /\ y.s.content_length = x.s.form
                /\ y.s.unread = <<>> /\ y.s.blocked /\ Data(y) = <<>>
                /\ y.s.inbuf = Numbers(x.s.form - x.s.unsent)
             \/ /\ y.s.input = "hold" /\ y.s.content_length = 0
                /\ y.s.inbuf = Numbers(x.s.form)
<1> DEFINE s == x.s
           data == Data(x)
           l == Len(s.inbuf)
           f == s.form
           u == s.unsent
           room == Least(BUF, s.content_length) - Len(s.inbuf)
           y == ReadChunk(x)
<1>1. /\ s \in Slot /\ s.inbuf \in Seq(FormBytes) /\ data \in Seq(FormBytes)
      /\ l \in Nat /\ Len(data) \in Nat /\ f \in Nat /\ u \in Nat /\ f <= BUF /\ u <= f
  <2>1. s \in Slot /\ x.new \in Seq(FormBytes)
    BY MidwayParts
  <2>2. s.inbuf \in Seq(FormBytes) /\ s.unread \in Seq(FormBytes) /\ f \in Nat /\ u \in Nat
    BY <2>1, SlotTypes
  <2>3. data \in Seq(FormBytes)
    BY <2>1, <2>2 DEF Data
  <2> QED BY <2>1, <2>2, <2>3
<1>2. s.content_length = f /\ s.inbuf \o data = Numbers(f - u)
  BY DEF Reading
<1>3. l + Len(data) = f - u
  <2>1. Len(s.inbuf \o data) = l + Len(data)
    BY <1>1
  <2>2. f - u \in Nat
    BY <1>1
  <2>3. Len(Numbers(f - u)) = f - u
    BY ONLY <2>2, NumbersIs
  <2> QED BY <1>2, <2>1, <2>3
<1>4. Least(BUF, s.content_length) = f /\ room = f - l /\ l < f
  <2>1. Least(BUF, f) = f
    BY <1>1, Sizes DEF Least
  <2> QED BY <1>2, <2>1 DEF ReadBound
<1>5. CASE Len(data) < room
  <2> DEFINE k == s.inbuf \o data
             e == <<>>
  <2>1. y = [x EXCEPT !.s.inbuf = k, !.s.unread = e, !.s.blocked = TRUE, !.new = e]
    BY <1>5 DEF ReadChunk, Data
  <2>2. k = Numbers(f - u) /\ e = <<>>
    BY <1>2
  <2> HIDE DEF k, y, e, data, room
  <2>3. y.s = [s EXCEPT !.inbuf = k, !.unread = e, !.blocked = TRUE] /\ y.new = e
    BY <2>1 DEF Midway
  <2>4. /\ y.s.input = "read" /\ y.s.content_length = f /\ y.s.inbuf = k
        /\ y.s.unread = e /\ y.s.blocked = TRUE
    BY <1>1, <1>2, <2>3 DEF Slot
  <2>5. Data(y) = <<>>
    BY <2>2, <2>3, <2>4 DEF Data
  <2> QED BY <2>2, <2>4, <2>5 DEF y
<1>6. CASE ~(Len(data) < room)
  <2> DEFINE k == s.inbuf \o SubSeq(data, 1, room)
             d == Drop(data, room)
             n == s.content_length - Len(s.inbuf) - room
  <2>1. y = [x EXCEPT !.s.inbuf = k, !.s.unread = d, !.s.blocked = FALSE,
                      !.s.content_length = n, !.s.input = "hold"]
    BY <1>6 DEF ReadChunk, Data
  <2>2. room = Len(data) /\ u = 0 /\ n = 0
    <3> HIDE DEF data, l, f, u, room
    <3>1. Len(data) = room /\ u = 0 /\ f - l - room = 0
      BY <1>1, <1>3, <1>4, <1>6
    <3> QED BY <1>2, <3>1 DEF l
  <2>3. SubSeq(data, 1, room) = data
    <3> HIDE DEF data, room
    <3> QED BY <1>1, <2>2
  <2>4. k = Numbers(f)
    <3>1. f - u = f
      BY <1>1, <2>2
    <3> QED BY <1>2, <2>3, <3>1
  <2> HIDE DEF k, d, n, y, data, room
  <2>5. y.s = [s EXCEPT !.inbuf = k, !.unread = d, !.blocked = FALSE,
                        !.content_length = n, !.input = "hold"]
    BY <2>1 DEF Midway
  <2>6. y.s.input = "hold" /\ y.s.content_length = n /\ y.s.inbuf = k
    BY <1>1, <2>5 DEF Slot
  <2> QED BY <2>2, <2>4, <2>6 DEF y
<1> QED BY <1>5, <1>6

\* A turn that copies: a chunk that is a short form is all WEBPST$ gets.
LEMMA GiveForm ==
  ASSUME NEW x \in Midway, x.s.input = "hold", x.s.content_length = 0,
         x.s.inbuf = Numbers(x.s.form), x.r.posting => x.r.got = <<>> /\ x.r.room = call.asked
  PROVE  LET y == GiveChunk(x)
         IN  /\ y.s.input = "read" /\ y.s.content_length = 0
             /\ \/ y.r = x.r
                \/ ~y.r.posting /\ y.r.got = Numbers(Least(x.s.form, call.asked))
<1> DEFINE s == x.s
           r == x.r
           y == GiveChunk(x)
           f == s.form
           e == <<>>
           fits == Len(s.inbuf) <= r.room
<1>1. s \in Slot /\ r \in Relays /\ f \in Nat /\ r.room \in Nat /\ r.got \in Seq(FormBytes)
  <2>1. s \in Slot /\ r \in Relays
    BY MidwayParts
  <2> QED BY <2>1, SlotTypes DEF Relays
<1>2. Len(s.inbuf) = f
  BY <1>1, NumbersIs
<1>3. CASE basic_running /\ ~r.term /\ r.posting
  <2> DEFINE n == IF fits THEN s.content_length ELSE 0
             g == r.got \o SubSeq(s.inbuf, 1, Least(Len(s.inbuf), r.room))
             z == IF fits THEN r.room - Len(s.inbuf) ELSE 0
             p == fits /\ s.content_length > 0
  <2>1. y = [x EXCEPT !.s.inbuf = e, !.s.input = "read", !.s.content_length = n,
                      !.r.got = g, !.r.room = z, !.r.posting = p]
    BY <1>3 DEF GiveChunk
  <2>2. n = 0 /\ ~p
    OBVIOUS
  <2>3. g = Numbers(Least(f, call.asked))
    <3> DEFINE m == Least(f, r.room)
    <3>1. m \in 0..f /\ m \in Nat
      <4> DEFINE b == r.room
      <4>1. f \in Nat /\ b \in Nat
        BY <1>1
      <4> HIDE DEF f, b
      <4>2. Least(f, b) \in Nat /\ Least(f, b) <= f
        BY ONLY <4>1, LeastIs
      <4>3. Least(f, b) \in 0..f /\ Least(f, b) \in Nat
        BY <4>1, <4>2
      <4> QED BY <4>3 DEF b
    <3>2. SubSeq(Numbers(f), 1, m) = Numbers(m)
      <4> HIDE DEF m, f
      <4> QED BY ONLY <1>1, <3>1, NumbersCut
    <3>3. g = <<>> \o Numbers(m)
      BY <1>2, <1>3, <3>2
    <3>4. <<>> \o Numbers(m) = Numbers(m)
      <4>1. Numbers(m) \in Seq(Nat)
        BY ONLY <3>1, NumbersIs
      <4> QED BY <4>1
    <3> QED BY <1>3, <3>3, <3>4
  <2> HIDE DEF n, g, z, p, y, e, fits
  <2>4. /\ y.s = [s EXCEPT !.inbuf = e, !.input = "read", !.content_length = n]
        /\ y.r = [r EXCEPT !.got = g, !.room = z, !.posting = p]
    BY <2>1 DEF Midway
  <2>5. y.s.input = "read" /\ y.s.content_length = n
    BY <1>1, <2>4 DEF Slot
  <2>6. y.r.got = g /\ y.r.posting = p
    BY <1>1, <2>4 DEF Relays
  <2> QED BY <2>2, <2>3, <2>5, <2>6 DEF y
<1>4. CASE ~(basic_running /\ ~r.term /\ r.posting)
  <2>1. y = [x EXCEPT !.s.inbuf = e, !.s.input = "read"]
    BY <1>4 DEF GiveChunk
  <2> HIDE DEF y, e
  <2>2. y.s = [s EXCEPT !.inbuf = e, !.input = "read"] /\ y.r = x.r
    BY <2>1 DEF Midway
  <2>3. y.s.input = "read" /\ y.s.content_length = 0
    BY <1>1, <2>2 DEF Slot
  <2> QED BY <2>2, <2>3 DEF y
<1> QED BY <1>3, <1>4

LEMMA TurnForm ==
  ASSUME NEW x \in Midway, Going(x), FormIn(x), x.s.input = "wait" => x.s.waited
  PROVE  FormIn(Turn(x)) /\ Settled(Turn(x).s)
<1> DEFINE y == Turn(x)
           s == x.s
           t == y.s
           r == x.r
<1>1. /\ s \in Slot /\ s.content_length \in Nat /\ s.unsent <= s.form /\ RequestIn(s)
      /\ Owner(s, r) /\ RelayOK(r) /\ ReadBound(s)
  <2>1. s \in Slot
    BY MidwayParts
  <2> QED BY <2>1, SlotTypes DEF Going, RequestIn, ReadBound
<1>2. y \in Midway /\ TurnKeeps(x, y) /\ TurnGoes(s, t)
  BY <1>1, TurnIs
<1>3. t.waited = s.waited /\ t.posted = s.posted
  BY TurnHistory
<1>4. SameForm(s, t) /\ (t.special <=> s.special) /\ (t.output = s.output)
  BY <1>2, <1>3 DEF TurnKeeps, SameConnection, SameForm
<1> HIDE DEF y
<1>5. Posted(t) /\ (Short(t) <=> Short(s))
  BY <1>4 DEF FormIn, Posted, Short, Upto, SameForm
<1>6. GotFree(y.r)
  BY <1>1, <1>2 DEF FormIn, GotFree, TurnKeeps, RelayOK
<1>7. CASE s.input \in {"headers", "wait"}
  <2>1. t = s /\ ~s.special
    BY <1>1, <1>2, <1>7 DEF TurnGoes, RequestIn
  <2> QED BY <1>5, <1>6, <1>7, <2>1 DEF FormIn, Settled, y
<1>8. CASE s.input \notin {"headers", "wait"}
  <2>1. t.input \notin {"headers", "wait"}
    BY <1>2, <1>8 DEF TurnGoes
  <2>2. ASSUME Short(s), s.special
        PROVE  /\ t.input = "read" /\ t.content_length # 0 =>
                    /\ Reading(y) /\ t.unread = <<>> /\ t.blocked
                    /\ t.inbuf = Numbers(t.form - t.unsent)
               /\ t.input = "hold" => t.content_length = 0 /\ t.inbuf = Numbers(t.form)
               /\ GotOK(t, y.r)
    <3>1. /\ s.input = "read" /\ s.content_length # 0 => Reading(x)
          /\ s.input = "hold" => s.content_length = 0 /\ s.inbuf = Numbers(s.form)
          /\ GotOK(s, r) /\ s.form <= BUF
      BY <2>2 DEF FormIn, Short
    <3>2. ASSUME y.r = r PROVE GotOK(t, y.r)
      BY <1>4, <3>1, <3>2 DEF GotOK, Upto, SameForm
    <3>3. CASE s.input = "read" /\ s.content_length > 0
      <4>1. y = ReadChunk(x) /\ y.r = r
        BY <1>1, <1>2, <3>3 DEF Turn, TurnKeeps, y
      <4>2. Reading(x)
        BY <1>1, <3>1, <3>3
      <4>3. \/ /\ t.input = "read" /\ t.content_length = s.form
               /\ t.unread = <<>> /\ t.blocked /\ Data(y) = <<>>
               /\ t.inbuf = Numbers(s.form - s.unsent)
            \/ /\ t.input = "hold" /\ t.content_length = 0 /\ t.inbuf = Numbers(s.form)
        BY <1>1, <3>1, <3>3, <4>1, <4>2, ReadForm
      <4>4. Numbers(s.form - s.unsent) \o <<>> = Numbers(s.form - s.unsent)
        <5>1. s.form \in Nat /\ s.unsent \in Nat
          BY <1>1, SlotTypes
        <5>2. s.form - s.unsent \in Nat
          BY <1>1, <5>1
        <5>3. Numbers(s.form - s.unsent) \in Seq(Nat)
          BY ONLY <5>2, NumbersIs
        <5> QED BY <5>3
      <4> QED BY <1>4, <3>2, <4>1, <4>3, <4>4 DEF Reading, SameForm
    <3>4. CASE s.input = "hold" /\ (~basic_running \/ r.term \/ r.posting)
      <4>1. y = GiveChunk(x)
        BY <3>4 DEF Turn, y
      <4>2. r.posting => r.got = <<>> /\ r.room = call.asked /\ call.op = "post" /\ s.conn_id = wc
        BY <1>1, <2>2, <3>1 DEF GotOK, RelayOK, Owner
      <4>3. /\ t.input = "read" /\ t.content_length = 0
            /\ \/ y.r = r
               \/ ~y.r.posting /\ y.r.got = Numbers(Least(s.form, call.asked))
        BY <3>1, <3>4, <4>1, <4>2, GiveForm
      <4> QED BY <1>4, <3>2, <4>3 DEF GotOK, Upto, SameForm
    <3>5. CASE s.input = "read" /\ s.content_length = 0
      <4>1. y = [x EXCEPT !.s.input = "done"]
        BY <3>5 DEF Turn, y
      <4>2. t = [s EXCEPT !.input = "done"] /\ y.r = r
        BY <4>1 DEF Midway
      <4>3. t.input = "done"
        BY <1>1, <4>2 DEF Slot
      <4> QED BY <3>2, <4>2, <4>3
    <3>6. CASE /\ ~(s.input = "read" /\ s.content_length > 0)
               /\ ~(s.input = "read" /\ s.content_length = 0)
               /\ ~(s.input = "hold" /\ (~basic_running \/ r.term \/ r.posting))
      <4>1. y = x
        BY <3>6 DEF Turn, y
      <4>2. ~(s.input = "read")
        BY <1>1, <3>6
      <4> QED BY <3>1, <3>2, <4>1, <4>2
    <3> QED BY <3>3, <3>4, <3>5, <3>6
  <2> QED BY <1>4, <1>5, <1>6, <2>1, <2>2 DEF FormIn, Settled, y
<1> QED BY <1>7, <1>8

LEMMA InputForm ==
  ASSUME NEW x \in Midway, Going(x), FormIn(x), NEW y \in handle_input(x)
  PROVE  FormIn(y) /\ Settled(y.s)
<1> DEFINE G == {z \in Midway : Going(z) /\ Patient(z.s) /\ FormIn(z)
                                /\ (z.s.input = "wait" => z.s.waited)}
<1>1. Admit(x) \in G
  BY AdmitGoing, AdmitForm
<1>2. ASSUME NEW z \in G PROVE Turn(z) \in G /\ FormIn(Turn(z)) /\ Settled(Turn(z).s)
  <2>1. z \in Midway /\ Going(z) /\ Patient(z.s) /\ FormIn(z) /\ (z.s.input = "wait" => z.s.waited)
    OBVIOUS
  <2>2. Turn(z) \in Midway /\ Going(Turn(z)) /\ Patient(Turn(z).s)
    BY ONLY <2>1, TurnGoing
  <2>3. FormIn(Turn(z)) /\ Settled(Turn(z).s)
    BY ONLY <2>1, TurnForm
  <2> QED BY <2>2, <2>3 DEF Settled
<1> HIDE DEF G
<1>3. \E z \in G : y = Turn(z)
  BY <1>1, <1>2, Loop
<1> QED BY <1>2, <1>3

\* What handle_output leaves of the form, and of what WEBPST$ has got.
OutForm(x, y) ==
  /\ SameForm(x.s, y.s) /\ SameInput(x.s, y.s) /\ y.new = x.new
  /\ \/ (y.s.special <=> x.s.special) /\ SameGot(x.r, y.r)
     \/ ~y.s.special /\ y.r = Cleared(x.r)

LEMMA SameSelf == ASSUME NEW s, NEW r PROVE SameForm(s, s) /\ SameInput(s, s) /\ SameGot(r, r)
BY DEF SameForm, SameInput, SameGot

LEMMA SendForm ==
  ASSUME NEW x \in Midway, NEW bytes \in Seq(PageBytes), NEW place \in {"header", "string"}
  PROVE  OutForm(x, psock_send(x, bytes, place))
<1> DEFINE s == x.s
           y == psock_send(x, bytes, place)
           n == Least(Len(bytes), s.mss)
           o == SubSeq(bytes, 1, n)
<1>1. s \in Slot
  BY MidwayParts
<1>2. y = [x EXCEPT !.s.outstanding = o, !.s.arrived = FALSE, !.s.slen = n, !.s.output = place]
  BY DEF psock_send
<1> HIDE DEF n, o, y
<1>3. /\ y.s = [s EXCEPT !.outstanding = o, !.arrived = FALSE, !.slen = n, !.output = place]
      /\ y.r = x.r /\ y.new = x.new
  BY <1>2 DEF Midway
<1>4. SameForm(s, y.s) /\ SameInput(s, y.s) /\ y.s.special = s.special
  BY <1>1, <1>3 DEF Slot, SameForm, SameInput
<1> QED BY <1>3, <1>4, SameSelf DEF OutForm, y

LEMMA CleanupForm ==
  ASSUME NEW x \in Midway
  PROVE  OutForm(x, PSOCK_CLOSE(cleanup_special_state(x)))
<1> DEFINE z == cleanup_special_state(x)
           y == PSOCK_CLOSE(z)
<1>1. x.s \in Slot
  BY MidwayParts
<1>2. /\ z \in Midway /\ z.s = [x.s EXCEPT !.special = FALSE] /\ z.new = x.new
      /\ z.r = (IF x.s.special THEN Cleared(x.r) ELSE x.r)
  BY CleanupIs
<1> HIDE DEF z
<1>3. y.s = z.s /\ y.r = z.r /\ y.new = z.new
  BY <1>2, FlagIs DEF PSOCK_CLOSE
<1> HIDE DEF y
<1>4. SameForm(x.s, y.s) /\ SameInput(x.s, y.s) /\ ~y.s.special
  BY <1>1, <1>2, <1>3 DEF Slot, SameForm, SameInput
<1> QED BY <1>2, <1>3, <1>4, SameSelf DEF OutForm, y, z

LEMMA RelayForm ==
  ASSUME NEW x \in Midway
  PROVE  OutForm(x, Relay(x))
<1>1. x.s \in Slot /\ x.r.left \in Seq(PageBytes)
  BY MidwayParts DEF Relays
<1>2. CASE ~basic_running \/ x.r.term
  <2>1. Relay(x) = PSOCK_CLOSE(cleanup_special_state(x))
    BY <1>2 DEF Relay
  <2> QED BY <2>1, CleanupForm
<1>3. CASE ~(~basic_running \/ x.r.term) /\ x.r.left # <<>>
  <2>1. Relay(x) = psock_send(x, x.r.left, "string")
    BY <1>3 DEF Relay
  <2> QED BY <1>1, <2>1, SendForm
<1>4. CASE ~(~basic_running \/ x.r.term) /\ x.r.left = <<>>
  <2> DEFINE y == Relay(x)
  <2>1. y = [x EXCEPT !.s.output = "relay"]
    BY <1>4 DEF Relay
  <2> HIDE DEF y
  <2>2. y.s = [x.s EXCEPT !.output = "relay"] /\ y.r = x.r /\ y.new = x.new
    BY <2>1 DEF Midway
  <2>3. SameForm(x.s, y.s) /\ SameInput(x.s, y.s) /\ y.s.special = x.s.special
    BY <1>1, <2>2 DEF Slot, SameForm, SameInput
  <2> QED BY <2>2, <2>3, SameSelf DEF OutForm, y
<1> QED BY <1>2, <1>3, <1>4

\* A string loses what was acknowledged of it, which is not of the form.
LEMMA TakenForm ==
  ASSUME NEW x \in Midway, NEW rest \in Seq(PageBytes), NEW y, OutForm(Taken(x, rest), y)
  PROVE  OutForm(x, y)
<1> DEFINE z == Taken(x, rest)
<1>1. x.r \in Relays
  BY MidwayParts
<1>2. z = [x EXCEPT !.r.left = rest]
  BY DEF Taken
<1> HIDE DEF z
<1>3. z.r = [x.r EXCEPT !.left = rest] /\ z.s = x.s /\ z.new = x.new
  BY <1>2 DEF Midway
<1>4. SameGot(x.r, z.r) /\ Cleared(z.r) = Cleared(x.r)
  BY <1>1, <1>3 DEF Relays, SameGot, Cleared
<1>5. OutForm(z, y)
  BY DEF z
<1> QED BY <1>3, <1>4, <1>5 DEF OutForm, SameGot

LEMMA OutputForm ==
  ASSUME NEW x \in Midway, Going(x), Patient(x.s)
  PROVE  OutForm(x, handle_output(x))
<1> DEFINE s == x.s
           y == handle_output(x)
<1>1. s \in Slot /\ x.r \in Relays
  BY MidwayParts
<1>2. CASE s.output = "begin"
  <2> DEFINE v == IF PasswordSet /\ ~s.is_authorized THEN "401" ELSE s.reply
             z == [x EXCEPT !.s.reply = v]
             bytes == << <<s.conn_id, 0>> >>
  <2>1. y = psock_send(z, bytes, "header")
    BY <1>2 DEF handle_output, Header
  <2>2. v \in {"200", "401", "503"}
    BY <1>1 DEF Slot
  <2>3. bytes \in Seq(PageBytes)
    <3>1. s.conn_id # 0 /\ s.conn_id \in 0..MaxConns
      BY <1>1, SlotTypes DEF Going
    <3>2. <<s.conn_id, 0>> \in PageBytes
      BY <3>1, Sizes DEF PageBytes, Ids
    <3> QED BY <3>2
  <2> HIDE DEF v, y, bytes
  <2>4. z.s = [s EXCEPT !.reply = v] /\ z.r = x.r /\ z.new = x.new /\ z.ev = x.ev /\ z.flag = x.flag
    BY DEF Midway
  <2>5. z.s \in Slot
    <3>1. [s EXCEPT !.reply = v] \in Slot
      BY ONLY <1>1, <2>2 DEF Slot
    <3> QED BY ONLY <2>4, <3>1
  <2>6. z \in Midway
    BY <2>4, <2>5 DEF Midway
  <2>7. OutForm(z, y)
    BY <2>1, <2>3, <2>6, SendForm
  <2> HIDE DEF z
  <2>8. SameForm(s, z.s) /\ SameInput(s, z.s) /\ z.s.special = s.special
    BY <1>1, <2>4 DEF Slot, SameForm, SameInput
  <2> QED BY <2>4, <2>7, <2>8 DEF OutForm, SameForm, SameInput, y
<1>3. CASE s.output = "header" /\ "acked" \in x.ev
  <2>1. CASE s.reply = "200"
    <3>1. y = Relay(x)
      BY <1>3, <2>1 DEF handle_output
    <3> QED BY <3>1, RelayForm
  <2>2. CASE s.reply # "200"
    <3>1. y = PSOCK_CLOSE(x)
      BY <1>3, <2>2 DEF handle_output
    <3>2. y.s = s /\ y.r = x.r /\ y.new = x.new
      BY <3>1, FlagIs DEF PSOCK_CLOSE
    <3> QED BY <3>2, SameSelf DEF OutForm
  <2> QED BY <2>1, <2>2
<1>4. CASE s.output = "string" /\ "acked" \in x.ev
  <2> DEFINE rest == Drop(x.r.left, s.slen)
             e == <<>>
  <2>1. y = IF rest # <<>> THEN psock_send(Taken(x, rest), rest, "string") ELSE Relay(Taken(x, e))
    BY <1>4 DEF handle_output, send_basic_packet, Taken
  <2>2. rest \in Seq(PageBytes) /\ e \in Seq(PageBytes)
    <3>1. x.r.left \in Seq(PageBytes) /\ s.slen \in Nat
      BY <1>1, SlotTypes DEF Relays
    <3> QED BY <3>1 DEF Drop
  <2> HIDE DEF rest, e
  <2>3. Taken(x, rest) \in Midway /\ Taken(x, e) \in Midway
    BY <2>2, TakenIs
  <2>4. OutForm(Taken(x, rest), psock_send(Taken(x, rest), rest, "string"))
    BY <2>2, <2>3, SendForm
  <2>5. OutForm(Taken(x, e), Relay(Taken(x, e)))
    BY <2>3, RelayForm
  <2> QED BY <2>1, <2>2, <2>4, <2>5, TakenForm
<1>5. CASE s.output = "relay"
  <2>1. y = Relay(x)
    BY <1>5 DEF handle_output
  <2> QED BY <2>1, RelayForm
<1>6. CASE /\ s.output # "begin" /\ s.output # "relay"
           /\ ~(s.output = "header" /\ "acked" \in x.ev)
           /\ ~(s.output = "string" /\ "acked" \in x.ev)
  <2>1. y = x
    BY <1>6 DEF handle_output
  <2> QED BY <2>1, SameSelf DEF OutForm
<1> QED BY <1>2, <1>3, <1>4, <1>5, <1>6

\* The form after a call.
LEMMA CallForm ==
  ASSUME NEW x \in Midway, Going(x), FormIn(x), NEW y \in handle_connection(x)
  PROVE  FormOK(y.s, y.r) /\ GotFree(y.r)
<1>1. PICK z \in handle_input(x) : y = handle_output(z)
  BY DEF handle_connection
<1>2. z \in Midway /\ Going(z) /\ Patient(z.s) /\ FormIn(z) /\ Settled(z.s)
  BY InputGoing, InputForm
<1>3. OutForm(z, y)
  BY <1>1, <1>2, OutputForm
<1> DEFINE s == z.s
           t == y.s
<1>4. SameForm(s, t) /\ SameInput(s, t) /\ y.new = z.new
  BY <1>3 DEF OutForm
<1>5. CASE (t.special <=> s.special) /\ SameGot(z.r, y.r)
  <2>1. FormIn(y) /\ Settled(t)
    BY <1>2, <1>4, <1>5, FormSame
  <2>2. ASSUME Short(t), t.special PROVE ReadOK(t) /\ GotOK(t, y.r)
    BY <2>1, <2>2 DEF FormIn, Settled, ReadOK, Reading
  <2> QED BY <2>1, <2>2 DEF FormIn, FormOK, Settled
<1>6. CASE ~t.special /\ y.r = Cleared(z.r)
  <2>1. GotFree(y.r)
    BY <1>2, <1>6 DEF FormIn, GotFree, Cleared
  <2>2. Posted(t)
    BY <1>2, <1>4 DEF FormIn, Posted, Short, Upto, SameForm
  <2>3. (t.input = "headers" => t.form = 0 /\ ~t.waited) /\ (t.input = "wait" => t.waited)
    BY <1>2, <1>4 DEF FormIn, Settled, SameForm, SameInput
  <2> QED BY <1>6, <2>1, <2>2, <2>3 DEF FormOK
<1> QED BY <1>3, <1>5, <1>6 DEF OutForm

\* A connection that is about to be aborted keeps its history, and what there is
\* for WEBPST$ is not its own.
LEMMA AbortingForm ==
  ASSUME NEW x \in Midway, Aborting(x), Posted(x.s), NEW y \in handle_connection(x)
  PROVE  Posted(y.s) /\ ~y.s.special /\ y.flag # "none" /\ y.r = x.r
<1> DEFINE G == {z \in Midway : Aborting(z) /\ z.r = x.r /\ SameForm(x.s, z.s)}
<1>1. Admit(x) \in G
  <2>1. Admit(x) = x
    BY DEF Admit, Aborting
  <2> QED BY <2>1 DEF SameForm
<1>2. ASSUME NEW z \in G PROVE Turn(z) \in G
  <2>1. z \in Midway /\ Aborting(z) /\ z.r = x.r /\ SameForm(x.s, z.s)
    OBVIOUS
  <2>2. Turn(z) \in Midway /\ Aborting(Turn(z)) /\ Turn(z).r = z.r
    BY ONLY <2>1, TurnAborting
  <2>3. TurnKeeps(z, Turn(z))
    BY <2>1, TurnIs DEF Aborting
  <2>4. Turn(z).s.waited = z.s.waited /\ Turn(z).s.posted = z.s.posted
    BY <2>1, TurnHistory
  <2>5. SameForm(x.s, Turn(z).s)
    BY <2>1, <2>3, <2>4 DEF SameForm, TurnKeeps, SameConnection
  <2> QED BY <2>1, <2>2, <2>5
<1>3. PICK z \in handle_input(x) : y = handle_output(z)
  BY DEF handle_connection
<1>4. z \in Midway /\ Aborting(z) /\ z.r = x.r /\ SameForm(x.s, z.s)
  <2> HIDE DEF G
  <2>1. z \in G
    BY <1>1, <1>2, Loop
  <2> QED BY <2>1 DEF G
<1>5. Done(y) /\ y.r = z.r /\ y.flag # "none"
  BY <1>3, <1>4, OutputAborting
<1>6. OutForm(z, y)
  <2>1. CASE z.s.output = "relay"
    <3>1. y = Relay(z)
      BY <1>3, <2>1 DEF handle_output
    <3> QED BY <1>4, <3>1, RelayForm
  <2>2. CASE z.s.output # "relay"
    <3>1. y = z
      BY <1>3, <1>4, <2>2 DEF handle_output, Aborting
    <3> QED BY <3>1, SameSelf DEF OutForm
  <2> QED BY <2>1, <2>2
<1>7. SameForm(x.s, y.s) /\ ~y.s.special
  BY <1>4, <1>6 DEF OutForm, SameForm, Aborting
<1>8. Posted(y.s)
  BY <1>7 DEF Posted, Short, Upto, SameForm
<1> QED BY <1>4, <1>5, <1>7, <1>8

\* The form after a call, by what the call asked of uIP.
FormOut(y) ==
  /\ GotFree(y.r)
  /\ y.flag = "none" => FormOK(y.s, y.r)
  /\ y.flag = "close" => Posted(y.s) /\ (Short(y.s) /\ y.s.special => GotOK(y.s, y.r))

LEMMA TimerForm ==
  ASSUME NEW x \in Midway, FormIn(x), NEW t \in 0..IdlePolls
  PROVE  FormIn(WithTimer(x, t)) /\ SameForm(x.s, WithTimer(x, t).s)
<1> DEFINE y == WithTimer(x, t)
<1>1. x.s \in Slot
  BY MidwayParts
<1>2. y = [x EXCEPT !.s.timer = t]
  BY DEF WithTimer
<1> HIDE DEF y
<1>3. y.s = [x.s EXCEPT !.timer = t] /\ y.r = x.r /\ y.new = x.new
  BY <1>2 DEF Midway
<1>4. SameForm(x.s, y.s) /\ SameInput(x.s, y.s) /\ y.s.special = x.s.special
  BY <1>1, <1>3 DEF Slot, SameForm, SameInput
<1> QED BY <1>3, <1>4, FormSame, SameSelf DEF y

LEMMA AppForm ==
  ASSUME NEW x \in Midway, Going(x), FormIn(x), "closed" \notin x.ev,
         "poll" \in x.ev => Patient(x.s) /\ "acked" \notin x.ev /\ x.s.output # "begin",
         NEW y \in httpd_appcall(x)
  PROVE  FormOut(y)
<1> DEFINE t == x.s.timer + 1
           w == WithTimer(x, t)
           c == cleanup_special_state(w)
           z == IF "poll" \in x.ev THEN Polled(x) ELSE WithTimer(x, 0)
<1>1. x.s.timer \in Nat /\ x.s.timer < IdlePolls /\ IdlePolls \in Nat
  <2>1. x.s \in Slot
    BY MidwayParts
  <2> QED BY <2>1, SlotTypes, Sizes DEF Going
<1>2. y \in handle_connection(z)
  BY DEF httpd_appcall, WithTimer
<1>3. ASSUME NEW k \in 0..IdlePolls, k < IdlePolls, z = WithTimer(x, k)
      PROVE  FormOut(y)
  <2>1. WithTimer(x, k) \in Midway /\ Going(WithTimer(x, k))
    BY ONLY <1>3, x \in Midway, Going(x), TimerGoing
  <2>2. FormIn(WithTimer(x, k))
    BY <1>3, TimerForm
  <2>3. y \in handle_connection(WithTimer(x, k))
    BY <1>2, <1>3
  <2>4. FormOK(y.s, y.r) /\ GotFree(y.r)
    BY ONLY <2>1, <2>2, <2>3, CallForm
  <2> QED BY <2>4 DEF FormOut, FormOK
<1>4. CASE "poll" \notin x.ev
  <2>1. 0 \in 0..IdlePolls /\ 0 < IdlePolls /\ z = WithTimer(x, 0)
    BY <1>1, <1>4
  <2> QED BY <1>3, <2>1
<1>5. CASE "poll" \in x.ev /\ t < IdlePolls
  <2>1. t \in 0..IdlePolls /\ Polled(x) = WithTimer(x, t)
    BY <1>1, <1>5 DEF Polled, WithTimer
  <2> QED BY <1>3, <1>5, <2>1
<1>6. CASE "poll" \in x.ev /\ ~(t < IdlePolls)
  <2> DEFINE p == Polled(x)
  <2>1. p \in Midway /\ Aborting(p)
    BY <1>6, PolledOut
  <2>2. y \in handle_connection(p)
    BY <1>2, <1>6
  <2>3. t \in 0..IdlePolls /\ p = [c EXCEPT !.flag = "abort"]
    BY <1>1, <1>6 DEF Polled, WithTimer
  <2> HIDE DEF t, p, z
  <2>4. w \in Midway /\ FormIn(w)
    BY <2>3, TimerIs, TimerForm
  <2> HIDE DEF w
  <2>5. /\ c \in Midway /\ c.s = [w.s EXCEPT !.special = FALSE]
        /\ c.r = (IF w.s.special THEN Cleared(w.r) ELSE w.r)
    BY <2>4, CleanupIs
  <2> HIDE DEF c
  <2>6. p.s = c.s /\ p.r = c.r
    BY <2>3, <2>5 DEF Midway
  <2>7. w.s \in Slot
    BY <2>4, MidwayParts
  <2>8. SameForm(w.s, p.s)
    BY <2>5, <2>6, <2>7 DEF Slot, SameForm
  <2>9. Posted(p.s)
    BY <2>4, <2>8 DEF FormIn, Posted, Short, Upto, SameForm
  <2>10. GotFree(p.r)
    BY <2>4, <2>5, <2>6 DEF FormIn, GotFree, Cleared
  <2>11. Posted(y.s) /\ ~y.s.special /\ y.flag # "none" /\ y.r = p.r
    BY ONLY <2>1, <2>2, <2>9, AbortingForm
  <2> QED BY <2>10, <2>11 DEF FormOut
<1> QED BY <1>4, <1>5, <1>6

LEMMA UipForm ==
  ASSUME NEW y, Done(y), FormOut(y)
  PROVE  FormOK(Uip(y), y.r)
<1>1. y.s \in Slot /\ y.flag \in {"none", "close", "abort"}
  BY MidwayParts DEF Done
<1>2. CASE y.flag = "none"
  BY <1>2 DEF FormOut, Uip
<1>3. CASE y.flag = "abort"
  <2>1. Uip(y) = FreeSlot
    BY <1>3 DEF Uip
  <2>2. ~FreeSlot.special /\ FreeSlot.tcp = "free" /\ FreeSlot.posted.asked = 0
    BY DEF FreeSlot, Unasked
  <2> QED BY <2>1, <2>2 DEF FormOK, Posted
<1>4. CASE y.flag = "close"
  <2> DEFINE t == Closing(y.s)
  <2>1. Uip(y) = t
    BY <1>4 DEF Uip, Closing
  <2>2. /\ t.tcp = "closing" /\ t.conn_id = y.s.conn_id /\ (t.special <=> y.s.special)
        /\ t.form = y.s.form /\ t.posted = y.s.posted /\ t.waited = y.s.waited
    BY <1>1, ClosingIs
  <2> HIDE DEF t
  <2>3. Posted(t) /\ (Short(t) /\ t.special => GotOK(t, y.r))
    BY <1>4, <2>2 DEF FormOut, Posted, Short, GotOK, Upto
  <2> QED BY <2>1, <2>2, <2>3 DEF FormOK
<1> QED BY <1>1, <1>2, <1>3, <1>4

\* The form in the next state, of a step that leaves the command alone.
LEMMA FormNext ==
  ASSUME call' = call, wc' = wc, GotFree(relay'), \A c \in Slots : FormOK(conns'[c], relay')
  PROVE  FormInv'
<1>1. GotFree(relay)'
  BY DEF GotFree
<1>2. ASSUME NEW c \in Slots PROVE FormOK(conns[c], relay)'
  <2>1. FormOK(conns'[c], relay')
    OBVIOUS
  <2>2. GotOK(conns'[c], relay') => GotOK(conns[c], relay)'
    BY DEF GotOK, Upto
  <2> QED BY <2>1, <2>2 DEF FormOK, Short, Posted, ReadOK, Upto
<1> QED BY <1>1, <1>2 DEF FormInv

LEMMA OneSlotForm ==
  ASSUME Inv, FormInv, NEW c \in Slots, NEW t, conns' = [conns EXCEPT ![c] = t],
         UNCHANGED <<relay, program>>, FormOK(t, relay)
  PROVE  FormInv'
<1>1. conns \in [Slots -> Slot]
  BY DEF Inv, TypeOK
<1>2. GotFree(relay) /\ \A d \in Slots : FormOK(conns[d], relay)
  BY DEF FormInv
<1>3. relay' = relay /\ call' = call /\ wc' = wc
  BY DEF program
<1>4. ASSUME NEW d \in Slots PROVE FormOK(conns'[d], relay')
  BY <1>1, <1>2, <1>3
<1> QED BY <1>2, <1>3, <1>4, FormNext

LEMMA CalledForm ==
  ASSUME Inv, FormInv, NEW c \in Slots, NEW s, NEW ev, NEW new, Enters(c, s, ev, new),
         Called(c, s, ev, new), UNCHANGED <<cur_conn_id, program>>,
         "closed" \notin ev => FormIn(In(s, ev, new))
  PROVE  FormInv'
<1> DEFINE x == In(s, ev, new)
<1>1. PICK y \in httpd_appcall(x) :
        /\ conns' = [conns EXCEPT ![c] = Uip(y)] /\ relay' = y.r
        /\ Done(y) /\ Frame(x, y)
  BY CalledDone
<1>2. /\ conns \in [Slots -> Slot] /\ relay \in Relays /\ IdsOK /\ RelayOK(relay)
      /\ \A d \in Slots : SlotOK(conns[d], relay)
  BY DEF Inv, TypeOK
<1>3. GotFree(relay) /\ \A d \in Slots : FormOK(conns[d], relay)
  BY DEF FormInv
<1>4. x \in Midway /\ x.s = s /\ x.r = relay /\ x.ev = ev
  BY <1>2 DEF In, Midway, Enters
<1>5. s.conn_id = conns[c].conn_id /\ s.conn_id # 0
  BY DEF Enters
<1>6. FormOut(y)
  <2>1. CASE "closed" \in ev
    <3> DEFINE z == cleanup_special_state(x)
    <3>1. y = [z EXCEPT !.flag = "abort"]
      BY <1>1, <1>4, <2>1 DEF httpd_appcall
    <3> HIDE DEF x
    <3>2. z \in Midway /\ z.r = (IF s.special THEN Cleared(relay) ELSE relay)
      BY <1>4, CleanupIs
    <3> HIDE DEF z
    <3>3. y.r = z.r /\ y.flag = "abort"
      BY <3>1, <3>2, FlagIs
    <3>4. GotFree(y.r)
      BY <1>3, <3>2, <3>3 DEF GotFree, Cleared
    <3> QED BY <3>3, <3>4 DEF FormOut
  <2>2. CASE "closed" \notin ev
    <3>1. Going(x) /\ FormIn(x) /\ "closed" \notin x.ev
          /\ ("poll" \in x.ev => Patient(x.s) /\ "acked" \notin x.ev /\ x.s.output # "begin")
      BY <1>4, <2>2 DEF Enters
    <3>2. y \in httpd_appcall(x)
      BY <1>1
    <3> HIDE DEF x
    <3> QED BY ONLY <1>4, <3>1, <3>2, AppForm
  <2> QED BY <2>1, <2>2
<1>7. Done(y) /\ relay' = y.r /\ conns' = [conns EXCEPT ![c] = Uip(y)]
      /\ (relay.active /\ relay.conn_id # s.conn_id => y.r = relay)
  <2> HIDE DEF x
  <2> QED BY <1>1, <1>4 DEF Frame
<1> HIDE DEF x
<1>8. FormOK(Uip(y), y.r)
  BY ONLY <1>6, <1>7, UipForm
<1>9. GotFree(relay')
  BY <1>6, <1>7 DEF FormOut
<1>10. ASSUME NEW d \in Slots PROVE FormOK(conns'[d], relay')
  <2>1. CASE d = c
    BY <1>2, <1>7, <1>8, <2>1
  <2>2. CASE d # c
    <3>1. conns'[d] = conns[d] /\ FormOK(conns[d], relay)
      BY <1>2, <1>3, <1>7, <2>2
    <3>2. conns[d].conn_id # s.conn_id
      BY <1>2, <1>5, <2>2 DEF IdsOK
    <3>3. conns[d].special => relay' = relay
      BY <1>2, <1>7, <3>2 DEF SlotOK, Owner
    <3> QED BY <3>1, <3>3 DEF FormOK
  <2> QED BY <2>1, <2>2
<1>11. call' = call /\ wc' = wc
  BY DEF program
<1> QED BY <1>9, <1>10, <1>11, FormNext

\* The headers of a request come with the first bytes of its form.
LEMMA RequestForm ==
  ASSUME Inv, FormInv, NEW c \in Slots, Request(c)
  PROVE  FormInv'
<1> DEFINE s == conns[c]
           w == ~RelayFree([r |-> relay])
           t(u, m, n) == Requested(s, u, m, n, w)
           ev == {"newdata"}
           new == <<>>
<1>1. PICK m \in 0..MaxBody, u \in BOOLEAN : \E n \in 0..m :
        Enters(c, t(u, m, n), ev, new) /\ Called(c, t(u, m, n), ev, new)
  BY RequestCalled
<1>2. PICK n \in 0..m : Enters(c, t(u, m, n), ev, new) /\ Called(c, t(u, m, n), ev, new)
  BY <1>1
<1>3. s.tcp = "open" /\ s.input = "headers" /\ UNCHANGED <<cur_conn_id, program>>
  BY DEF Request
<1>4. s \in Slot /\ SlotOK(s, relay) /\ FormOK(s, relay) /\ GotFree(relay) /\ relay \in Relays
  BY DEF Inv, TypeOK, FormInv
<1>5. ~s.special /\ s.inbuf = <<>>
  BY <1>3, <1>4 DEF SlotOK, OpenOK, RequestIn
<1>6. s.form = 0 /\ ~s.waited /\ Posted(s)
  BY <1>3, <1>4 DEF FormOK
<1> DEFINE z == t(u, m, n)
           x == In(z, ev, new)
           l == [i \in 1..n |-> i]
           k == m - n
<1>7. /\ z.input = "wait" /\ z.content_length = m /\ z.form = m /\ z.unsent = k
      /\ z.unread = l /\ z.inbuf = s.inbuf /\ z.posted = s.posted /\ z.special = s.special
      /\ z.waited = w
  <2>1. z = [s EXCEPT !.input = "wait", !.is_authorized = u, !.content_length = m,
                      !.unsent = k, !.unread = l, !.form = m, !.waited = w]
    BY DEF Requested
  <2> HIDE DEF z, l, k, w, s
  <2> QED BY <1>4, <2>1 DEF Slot
<1>8. x.s = z /\ x.r = relay /\ x.new = new
  BY DEF In
<1>9. RelayFree(x) <=> ~w
  BY <1>8 DEF RelayFree
<1>10. m \in Nat /\ n \in Nat /\ m - k = n
  <2>1. m \in Nat /\ n \in Nat
    BY Sizes
  <2> QED BY <2>1
<1>11. Reading(x)
  <2>1. Data(x) = Numbers(n)
    <3>1. l = Numbers(n)
      BY DEF Numbers
    <3>2. l = <<>> => Numbers(n) = new
      BY <3>1
    <3> QED BY <1>7, <1>8, <3>1, <3>2 DEF Data
  <2>2. Numbers(n) \in Seq(Nat)
    BY <1>10, NumbersIs
  <2>3. <<>> \o Numbers(n) = Numbers(n)
    BY <2>2
  <2>4. x.s.inbuf = <<>> /\ x.s.content_length = x.s.form /\ x.s.form - x.s.unsent = n
    BY <1>5, <1>7, <1>8, <1>10
  <2> HIDE DEF x
  <2> QED BY <2>1, <2>3, <2>4 DEF Reading
<1>12. Posted(z)
  <2>1. ASSUME s.posted.asked > 0 PROVE s.posted.got = <<>>
    <3>1. Short(s)
      BY <1>6, Sizes DEF Short
    <3>2. s.posted.asked \in PostLens \cup {0}
      BY <1>4 DEF Slot
    <3>3. s.posted.asked \in Nat
      <4>1. \A i \in PostLens \cup {0} : i \in Nat
        BY ONLY SizeAssumption
      <4> QED BY ONLY <3>2, <4>1
    <3>4. Least(0, s.posted.asked) = 0
      BY <2>1, <3>3 DEF Least
    <3>5. Numbers(0) = <<>>
      BY NumbersIs
    <3> QED BY <1>6, <2>1, <3>1, <3>4, <3>5 DEF Posted, Upto
  <2> QED BY <1>7, <2>1 DEF Posted, Upto
<1> HIDE DEF z, w
<1>13. FormIn(x)
  <2> HIDE DEF x
  <2> QED BY <1>4, <1>5, <1>7, <1>8, <1>9, <1>11, <1>12 DEF FormIn
<1>14. Enters(c, z, ev, new) /\ Called(c, z, ev, new)
  BY <1>2 DEF z
<1> HIDE DEF t
<1> QED BY <1>3, <1>13, <1>14, CalledForm

\* A segment of the form reaches the connection that waits for it; what was not
\* read of an earlier one is never of a short form.
LEMMA FollowsForm ==
  ASSUME Inv, FormInv, NEW c \in Slots, NEW s, NEW ev, NEW new, Follows(c, s, ev, new)
  PROVE  FormInv'
<1> DEFINE b == conns[c]
           t == Junked(s)
           x == In(t, ev, new)
<1>1. /\ s \in Slot /\ Enters(c, t, ev, new) /\ Called(c, t, ev, new)
      /\ UNCHANGED <<cur_conn_id, program>>
  BY DEF Follows, Event, Junked
<1>2. ASSUME "closed" \notin ev PROVE FormIn(x)
  <2>1. /\ b.tcp = "open" /\ Alike(b, s) /\ s.unsent <= b.unsent
        /\ new = [i \in 1..(b.unsent - s.unsent) |-> b.form - b.unsent + i]
    BY <1>2 DEF Follows
  <2>2. Alike(s, t) /\ t.unsent = s.unsent
    BY <1>1, JunkedIs
  <2>3. b \in Slot /\ SlotOK(b, relay) /\ FormOK(b, relay) /\ GotFree(relay)
    BY DEF Inv, TypeOK, FormInv
  <2>4. b.unsent \in Nat /\ s.unsent \in Nat /\ b.form \in Nat /\ b.unsent <= b.form
    BY <1>1, <2>1, <2>3, SlotTypes DEF SlotOK, OpenOK
  <2>5. x.s = t /\ x.r = relay /\ x.new = new
    BY DEF In
  <2> HIDE DEF b, t, x
  <2>6. /\ t.conn_id = b.conn_id /\ t.input = b.input /\ t.content_length = b.content_length
        /\ t.inbuf = b.inbuf /\ (t.special <=> b.special) /\ t.form = b.form
        /\ t.waited = b.waited /\ t.posted = b.posted /\ t.blocked = b.blocked
        /\ (b.unread = <<>> => t.unread = <<>>) /\ t.unsent = s.unsent
    BY <2>1, <2>2 DEF Alike
  <2>7. (Short(t) <=> Short(b)) /\ (Posted(b) <=> Posted(t))
    BY <2>6 DEF Short, Posted, Upto
  <2>8. GotOK(b, relay) => GotOK(t, relay)
    BY <2>6 DEF GotOK, Upto
  <2>9. ASSUME Short(b), b.special, b.input = "read", b.content_length # 0
        PROVE  Reading(x)
    <3>1. /\ b.content_length = b.form /\ b.unread = <<>> /\ b.blocked
          /\ b.inbuf = Numbers(b.form - b.unsent)
      BY <2>1, <2>3, <2>9 DEF FormOK, ReadOK
    <3>2. Data(x) = new
      BY <2>5, <2>6, <3>1 DEF Data
    <3> DEFINE p == b.form - b.unsent
               q == b.unsent - s.unsent
    <3>3. p \in Nat /\ q \in Nat /\ p + q = b.form - s.unsent
      BY <2>1, <2>4
    <3>4. new = [i \in 1..q |-> p + i]
      BY <2>1
    <3>5. b.inbuf = Numbers(p)
      BY <3>1
    <3>6. x.s.form - x.s.unsent = p + q
      BY <2>5, <2>6, <3>3
    <3> HIDE DEF p, q
    <3>7. Numbers(p) \o [i \in 1..q |-> p + i] = Numbers(p + q)
      BY ONLY <3>3, NumbersJoin
    <3> QED BY <2>5, <2>6, <3>1, <3>2, <3>4, <3>5, <3>6, <3>7 DEF Reading
  <2>10. Short(b) /\ b.special /\ b.input = "hold" =>
           b.content_length = 0 /\ b.inbuf = Numbers(b.form)
    BY <2>1, <2>3 DEF FormOK, ReadOK
  <2>11. (b.input = "headers" => b.form = 0 /\ ~b.waited) /\ (b.input = "wait" => b.waited)
         /\ Posted(b) /\ (Short(b) /\ b.special => GotOK(b, relay))
    BY <2>1, <2>3 DEF FormOK
  <2> QED BY <2>3, <2>5, <2>6, <2>7, <2>8, <2>9, <2>10, <2>11 DEF FormIn
<1> HIDE DEF t, x
<1> QED BY <1>1, <1>2, CalledForm DEF x

LEMMA NetworkForm ==
  ASSUME Inv, FormInv, NEW c \in Slots, Network(c)
  PROVE  FormInv'
<1>1. CASE Segment(c) \/ Ends(c) \/ Timer(c)
  <2>1. \E s, ev, new : Follows(c, s, ev, new)
    BY <1>1, SegmentFollows, EndsFollows, TimerFollows
  <2> QED BY <2>1, FollowsForm
<1>2. CASE Connect(c)
  <2> DEFINE id == cur_conn_id + 1
             t == [FreeSlot EXCEPT !.tcp = "open", !.conn_id = id]
  <2>1. conns' = [conns EXCEPT ![c] = t] /\ UNCHANGED <<relay, program>>
    BY <1>2 DEF Connect
  <2>2. ~t.special /\ t.input = "headers" /\ t.form = 0 /\ ~t.waited /\ t.posted.asked = 0
    BY DEF FreeSlot, Unasked
  <2> HIDE DEF t
  <2>3. FormOK(t, relay)
    BY <2>2 DEF FormOK, Posted
  <2> QED BY <2>1, <2>3, OneSlotForm
<1>3. CASE Arrives(c)
  <2> DEFINE s == conns[c]
             g == s.page \o s.outstanding
             t == [s EXCEPT !.arrived = TRUE, !.page = g]
  <2>1. conns' = [conns EXCEPT ![c] = t] /\ UNCHANGED <<relay, program>>
    BY <1>3 DEF Arrives, Inv, TypeOK
  <2>2. s \in Slot /\ FormOK(s, relay)
    BY DEF Inv, TypeOK, FormInv
  <2> HIDE DEF g, s
  <2>3. SameForm(s, t) /\ SameInput(s, t) /\ t.special = s.special /\ t.tcp = s.tcp
    BY <2>2 DEF Slot, SameForm, SameInput
  <2> HIDE DEF t
  <2>4. FormOK(t, relay)
    BY <2>2, <2>3 DEF FormOK, Short, Posted, ReadOK, GotOK, Upto, SameForm, SameInput
  <2> QED BY <2>1, <2>4, OneSlotForm DEF s
<1>4. CASE FinWait2Expires(c)
  <2>1. conns' = [conns EXCEPT ![c] = FreeSlot] /\ UNCHANGED <<relay, program>>
    BY <1>4 DEF FinWait2Expires
  <2>2. ~FreeSlot.special /\ FreeSlot.tcp = "free" /\ FreeSlot.posted.asked = 0
    BY DEF FreeSlot, Unasked
  <2>3. FormOK(FreeSlot, relay)
    BY <2>2 DEF FormOK, Posted
  <2> QED BY <2>1, <2>3, OneSlotForm
<1> QED BY <1>1, <1>2, <1>3, <1>4, RequestForm DEF Network

\* A step of the program that does not run WEBPST$.
LEMMA OtherCommandForm ==
  ASSUME FormInv, call.op # "post", call'.op # "post",
         \A c \in Slots : /\ conns'[c].tcp = conns[c].tcp
                          /\ conns'[c].special = conns[c].special
                          /\ SameForm(conns[c], conns'[c]) /\ SameInput(conns[c], conns'[c])
  PROVE  FormInv'
<1>1. GotFree(relay)'
  BY DEF GotFree
<1>2. ASSUME NEW c \in Slots PROVE FormOK(conns[c], relay)'
  <2> DEFINE s == conns[c]
  <2>1. FormOK(s, relay)
    BY DEF FormInv
  <2>2. /\ s'.tcp = s.tcp /\ s'.special = s.special /\ s'.form = s.form
        /\ s'.unsent = s.unsent /\ s'.waited = s.waited /\ s'.posted = s.posted
        /\ s'.input = s.input /\ s'.content_length = s.content_length /\ s'.inbuf = s.inbuf
        /\ s'.unread = s.unread /\ s'.blocked = s.blocked
    BY DEF SameForm, SameInput
  <2>3. (Short(s))' <=> Short(s)
    BY <2>2 DEF Short
  <2>4. (Posted(s) => Posted(s)') /\ (ReadOK(s) => ReadOK(s)')
    BY <2>2 DEF Posted, Short, ReadOK, Upto
  <2>5. GotOK(s, relay)'
    BY DEF GotOK
  <2> HIDE DEF s
  <2>6. FormOK(s, relay)'
    BY <2>1, <2>2, <2>3, <2>4, <2>5 DEF FormOK
  <2> QED BY <2>6 DEF s
<1> QED BY <1>1, <1>2 DEF FormInv

LEMMA WaitingForm ==
  ASSUME FormInv, conns' = conns, call.op # "post", call'.op # "post"
  PROVE  FormInv'
BY OtherCommandForm, SameSelf

\* WEBPST$ begins with nothing got.
LEMMA GetPostForm ==
  ASSUME Inv, FormInv, NEW n \in PostLens, httpd_get_post(n)
  PROVE  FormInv'
<1>1. /\ conns' = conns /\ wc' = wc /\ call' = [op |-> "post", asked |-> n] /\ call = Idle
      /\ relay' = [relay EXCEPT !.posting = TRUE, !.room = n, !.got = <<>>]
      /\ relay.active /\ wc = relay.conn_id
  BY DEF httpd_get_post, Named
<1>2. relay \in Relays /\ wc # 0
  BY <1>1 DEF Inv, TypeOK, RelayOK
<1>3. relay'.posting /\ relay'.room = n /\ relay'.got = <<>>
  BY <1>1, <1>2 DEF Relays
<1>4. call'.op = "post" /\ call'.asked = n
  BY <1>1
<1>5. GotFree(relay)'
  BY <1>1, <1>2, <1>3 DEF GotFree
<1>6. ASSUME NEW c \in Slots PROVE FormOK(conns[c], relay)'
  <2>1. FormOK(conns[c], relay) /\ conns'[c] = conns[c]
    BY <1>1 DEF FormInv
  <2>2. GotOK(conns[c], relay)'
    BY <1>3, <1>4 DEF GotOK
  <2> QED BY <2>1, <2>2 DEF FormOK, Short, Posted, ReadOK, Upto
<1> QED BY <1>5, <1>6 DEF FormInv

\* WEBPST$ returns with what it got, which is of the connection it waited for or
\* is nothing.
LEMMA WebpstReturnsForm ==
  ASSUME Inv, FormInv, WebpstReturns
  PROVE  FormInv'
<1> DEFINE p == [asked |-> call.asked, got |-> relay.got]
<1>1. /\ relay' = relay /\ call' = Idle /\ call.op = "post"
      /\ (~relay.posting \/ ~relay.active \/ wc # relay.conn_id)
      /\ conns' = [c \in Slots |->
                     IF conns[c].conn_id = wc /\ conns[c].posted = Unasked
                     THEN Answered(conns[c], p) ELSE conns[c]]
  BY DEF WebpstReturns, Answered
<1>2. ~relay.posting
  BY <1>1 DEF Inv, RelayOK
<1>3. GotFree(relay)'
  BY <1>1 DEF GotFree, Idle
<1>4. ASSUME NEW c \in Slots PROVE FormOK(conns[c], relay)'
  <2> DEFINE s == conns[c]
             t == Answered(s, p)
  <2>1. s \in Slot /\ FormOK(s, relay) /\ SlotOK(s, relay) /\ GotFree(relay) /\ RelayOK(relay)
    BY DEF Inv, TypeOK, FormInv
  <2>2. ASSUME NEW u, conns'[c] = u, u.tcp = s.tcp, u.special = s.special, u.form = s.form,
               u.unsent = s.unsent, u.waited = s.waited, SameInput(s, u), Posted(u)
        PROVE  FormOK(conns[c], relay)'
    <3>1. (Short(u) <=> Short(s)) /\ (ReadOK(s) => ReadOK(u))
      BY <2>2 DEF Short, ReadOK, SameInput
    <3>2. GotOK(conns[c], relay)'
      BY <1>1 DEF GotOK, Idle
    <3>3. (Short(conns[c]))' <=> Short(u)
      BY <2>2 DEF Short
    <3>4. (ReadOK(conns[c]))' <=> ReadOK(u)
      BY <2>2 DEF ReadOK
    <3>5. (Posted(conns[c]))'
      BY <2>2 DEF Posted, Short, Upto
    <3> QED BY <2>1, <2>2, <3>1, <3>2, <3>3, <3>4, <3>5 DEF FormOK, SameInput
  <2>3. CASE conns'[c] = s
    <3>1. Posted(s)
      BY <2>1 DEF FormOK
    <3> QED BY <2>2, <2>3, <3>1, SameSelf
  <2>4. CASE conns'[c] = t /\ s.conn_id = wc
    <3>1. /\ t.tcp = s.tcp /\ t.special = s.special /\ t.form = s.form /\ t.unsent = s.unsent
          /\ t.waited = s.waited /\ SameInput(s, t) /\ t.posted = p
      <4> HIDE DEF p, s
      <4> QED BY <2>1 DEF Slot, Answered, SameInput
    <3>2. p.asked = call.asked /\ p.got = relay.got
      OBVIOUS
    <3> HIDE DEF p, t
    <3>3. Posted(t)
      <4> SUFFICES ASSUME Short(t) PROVE relay.got \in Upto(t, call.asked)
        BY <3>1, <3>2 DEF Posted
      <4>1. Short(s) /\ Upto(t, call.asked) = Upto(s, call.asked)
        BY <3>1 DEF Short, Upto
      <4>2. CASE s.special
        BY <1>1, <1>2, <2>1, <2>4, <4>1, <4>2 DEF FormOK, GotOK
      <4>3. CASE ~s.special
        <5>1. ~(relay.active /\ relay.conn_id = wc)
          BY <2>1, <2>4, <4>3 DEF SlotOK, Owner
        <5>2. relay.got = <<>>
          BY <1>1, <2>1, <5>1 DEF GotFree
        <5> QED BY <5>2 DEF Upto
      <4> QED BY <4>2, <4>3
    <3> QED BY <2>2, <2>4, <3>1, <3>3
  <2> QED BY <1>1, <2>3, <2>4
<1> QED BY <1>3, <1>4 DEF FormInv

LEMMA ProgramForm ==
  ASSUME Inv, FormInv, Program
  PROVE  FormInv'
<1>1. Idle.op # "post"
  BY DEF Idle
<1>2. CASE RunStarts \/ RunEnds \/ httpd_basic_connection
  <2>1. conns' = conns /\ call' = call /\ call = Idle
    BY <1>2 DEF RunStarts, RunEnds, httpd_basic_connection, Inv, ProgramOK
  <2> QED BY <1>1, <2>1, WaitingForm
<1>3. CASE WeboutReturns
  <2>1. conns' = conns /\ call' = Idle /\ call.op = "out"
    BY <1>3 DEF WeboutReturns
  <2> QED BY <1>1, <2>1, WaitingForm
<1>4. ASSUME NEW n \in OutLens, NEW last \in BOOLEAN, httpd_relay_html(n, last)
      PROVE  FormInv'
  <2>1. PICK at \in 0..MaxOut :
          /\ IF n > 0 THEN call' = [op |-> "out", last |-> last] ELSE call' = call
          /\ conns' = [c \in Slots |-> IF conns[c].conn_id = wc
                                       THEN Written(conns[c], at + n) ELSE conns[c]]
    BY <1>4 DEF httpd_relay_html, Written
  <2>2. call = Idle
    BY <1>4 DEF httpd_relay_html
  <2>3. call.op # "post" /\ call'.op # "post"
    <3>1. [op |-> "out", last |-> last].op # "post"
      OBVIOUS
    <3> QED BY <1>1, <2>1, <2>2, <3>1
  <2>4. ASSUME NEW c \in Slots
        PROVE  /\ conns'[c].tcp = conns[c].tcp /\ conns'[c].special = conns[c].special
               /\ SameForm(conns[c], conns'[c]) /\ SameInput(conns[c], conns'[c])
    <3> DEFINE s == conns[c]
               k == at + n
               t == Written(s, k)
    <3>1. s \in Slot
      BY DEF Inv, TypeOK
    <3>2. conns'[c] = s \/ conns'[c] = t
      BY <2>1
    <3> HIDE DEF s, k
    <3>3. t.tcp = s.tcp /\ t.special = s.special /\ SameForm(s, t) /\ SameInput(s, t)
      BY <3>1 DEF Slot, Written, SameForm, SameInput
    <3> HIDE DEF t
    <3>4. \A u : u = s \/ u = t => u.tcp = s.tcp /\ u.special = s.special
                                   /\ SameForm(s, u) /\ SameInput(s, u)
      BY <3>3, SameSelf
    <3> QED BY <3>2, <3>4 DEF s
  <2> QED BY <2>3, <2>4, OtherCommandForm
<1> QED BY <1>2, <1>3, <1>4, GetPostForm, WebpstReturnsForm DEF Program

LEMMA InitForm == Init => FormInv
<1> SUFFICES ASSUME Init PROVE FormInv
  OBVIOUS
<1>1. call.op # "post" /\ \A c \in Slots : conns[c] = FreeSlot
  BY DEF Init, Idle
<1>2. ~FreeSlot.special /\ FreeSlot.tcp = "free" /\ FreeSlot.posted.asked = 0
  BY DEF FreeSlot, Unasked
<1> QED BY <1>1, <1>2 DEF FormInv, GotFree, FormOK, Posted

\* The form's part of the inductive invariant rests on the other part.
LEMMA SpecForm == Spec => [](Inv /\ FormInv)
<1>1. Init => Inv /\ FormInv
  BY InitInv, InitForm
<1>2. Inv /\ FormInv /\ [Next]_vars => (Inv /\ FormInv)'
  <2> SUFFICES ASSUME Inv, FormInv, [Next]_vars PROVE FormInv'
    BY NextInv
  <2>1. CASE Next
    BY <2>1, ProgramForm, NetworkForm DEF Next
  <2>2. CASE UNCHANGED vars
    BY <2>2 DEF vars, program, FormInv, FormOK, GotOK, GotFree, Short, Posted, ReadOK, Upto
  <2> QED BY <2>1, <2>2
<1> QED BY <1>1, <1>2, PTL DEF Spec

(* Every variable keeps its type: no counter, timer or buffer length of an
   httpd_state leaves its range, whatever comes from the browser and however
   the program writes.  *)
THEOREM SpecTypeOK == Spec => []TypeOK
<1>1. Inv => TypeOK
  BY DEF Inv
<1> QED BY <1>1, SpecInv, PTL

(* When WEBOUT and WEBPST$ return, neither the relay nor a protosocket still
   points to the string or buffer they were given, retransmissions, aborts and
   closes included.  *)
THEOREM SpecNothingDangles == Spec => []NothingDangles
BY InvNothingDangles, SpecInv, PTL

(* The browser gets the header and what the program wrote to its connection, in
   order and each byte once, for strings of any length and windows that change;
   a connection that waits for the next string has got all before.  *)
THEOREM SpecPageAsWritten == Spec => []PageAsWritten
BY InvPageAsWritten, SpecInv, PTL

(* Without a password the relay is held exactly while one connection has it and
   names that connection, so WEBCON's number always has somebody behind it.
   With a password a refused request closes with the relay held: httpd_appcall
   frees it only when the browser ends the connection too.  *)
THEOREM SpecOneHolder == ASSUME ~PasswordSet PROVE Spec => []OneHolder
<1>1. Inv => OneHolder
  BY InvOneHolder
<1> QED BY <1>1, SpecInv, PTL

(* What a first WEBPST$ answers for a connection that did not wait for the relay
   and whose form fits inputbuf is the form up to the length asked for, whatever
   segments it came in, or nothing when the connection ended; a connection that
   takes the relay after it never answers in its place.  *)
THEOREM SpecFormAsPosted == Spec => []FormAsPosted
<1>1. FormInv => FormAsPosted
  BY DEF FormInv, FormOK, FormAsPosted, Posted, Short, Upto, Numbers
<1> QED BY <1>1, SpecForm, PTL

=============================================================================
