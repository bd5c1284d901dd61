--------------------------- MODULE SocketAppProofs ---------------------------
(***************************************************************************)
(* Proofs about SocketApp, for any number of slots, any sizes of buffers,  *)
(* packets and strings, and any number of connections: no byte that uIP    *)
(* took from the peer is lost in a receive FIFO, and the peer gets what    *)
(* the program wrote, in order and once.                                   *)
(***************************************************************************)
EXTENDS SocketApp, SequenceTheorems, WellFoundedInduction, TLAPS

\* The k numbers after f.
Run(f, k) == [i \in 1 .. k |-> f + i]

(* How the two layers of a slot fit: uIP's connection and socket_state.    *)
Link(s) ==
  /\ s.tcp = "established" => s.magic /\ s.connected
  /\ s.tcp = "syn" => ~s.connected /\ ~s.sending
  /\ ~s.alloc => s.buf = <<>>

(* A receive FIFO that holds what came after byte `from' up to byte `to',  *)
(* and will hold the next segment too, or has stopped the connection.      *)
Big(s) == s.alloc /\ s.fifosize >= UIP_BUFSIZE
RxGood(s, from, to) ==
  /\ from <= to /\ s.buf = Run(from, to - from)
  /\ s.tcp = "established" =>
       /\ s.recvthr = s.fifosize - UIP_BUFSIZE
       /\ s.stopped \/ s.buf = <<>> \/ Len(s.buf) < s.recvthr

(* What is left of the last write is the end of what was written; the peer *)
(* has all before it, and the first n bytes of it.                         *)
Pending(s, g, w, n) ==
  LET k == Len(s.senddata)
  IN  /\ ~s.sending => s.senddata = <<>>
      /\ k <= w /\ s.senddata = Run(w - k, k)
      /\ s.sendamt <= k /\ Len(g) = w - k + n
TxGood(s, g, w) ==
  /\ g = Run(0, Len(g)) /\ Len(g) <= w
  /\ ~s.sending => Len(g) = w
  /\ s.tcp # "established" => s.outstanding = <<>>
  /\ s.tcp = "established" =>
       /\ s.outstanding = SubSeq(s.senddata, 1, s.sendamt)
       /\ Pending(s, g, w, IF s.arrived THEN s.sendamt ELSE 0)

(* A write that has not been sent is still waited for: polls count only    *)
(* while nothing is under way, and then the next part is sent.             *)
Waits(s, cl, c) ==
  s.tcp = "established" /\ s.senddata # <<>> =>
    s.transtimecount = 0 /\ cl = [op |-> "write", conn |-> c]

\* What a stage of socket_appcall leaves alone.
KeepsUse(q, s) == q.magic = s.magic /\ q.connected = s.connected
KeepsFifo(q, s) == /\ q.alloc = s.alloc /\ q.fifosize = s.fifosize /\ q.buf = s.buf
                   /\ q.recvthr = s.recvthr
KeepsTx(q, s) == /\ q.tcp = s.tcp /\ q.outstanding = s.outstanding /\ q.arrived = s.arrived
                 /\ q.sending = s.sending /\ q.senddata = s.senddata
                 /\ q.sendamt = s.sendamt /\ q.transtimecount = s.transtimecount

Slot(c) ==
  /\ Link(sock[c])
  /\ Big(sock[c]) /\ carried[c] = 0 => RxGood(sock[c], lastread[c], delivered[c])
  /\ TxGood(sock[c], got[c], wrote[c])
  /\ Waits(sock[c], call, c)
Inv == TypeOK /\ \A c \in Conns : Slot(c)

-----------------------------------------------------------------------------
(* Runs of numbers                                                         *)

LEMMA RunIs ==
  ASSUME NEW f \in Nat, NEW k \in Nat
  PROVE  /\ Run(f, k) \in Seq(Nat) /\ Len(Run(f, k)) = k
         /\ \A i \in 1 .. k : Run(f, k)[i] = f + i
BY DEF Run

LEMMA RunOfNone ==
  /\ \A f \in Nat : Run(f, 0) = <<>>
  /\ \A f, k \in Nat : Run(f, k) = <<>> <=> k = 0
<1>1. \A f \in Nat : Run(f, 0) = <<>>
  BY DEF Run
<1>2. \A f, k \in Nat : Len(Run(f, k)) = k
  BY DEF Run
<1>3. Len(<<>>) = 0
  OBVIOUS
<1> QED BY <1>1, <1>2, <1>3

LEMMA RunJoin ==
  ASSUME NEW f \in Nat, NEW k \in Nat, NEW m \in Nat
  PROVE  Run(f, k) \o Run(f + k, m) = Run(f, k + m)
<1> DEFINE g == f + k
           n == k + m
<1>1. /\ g \in Nat /\ n \in Nat
      /\ Run(f, k) \in Seq(Nat) /\ Len(Run(f, k)) = k
      /\ Run(g, m) \in Seq(Nat) /\ Len(Run(g, m)) = m
      /\ Run(f, n) \in Seq(Nat) /\ Len(Run(f, n)) = n
  <2> g \in Nat /\ n \in Nat
    OBVIOUS
  <2> HIDE DEF g, n
  <2> QED BY DEF Run
<1>2. \A i \in 1 .. k + m : (Run(f, k) \o Run(f + k, m))[i] = Run(f, k + m)[i]
  BY <1>1 DEF Run
<1>3. /\ Run(f, k) \o Run(f + k, m) \in Seq(Nat)
      /\ Len(Run(f, k) \o Run(f + k, m)) = k + m
  BY <1>1
<1> QED BY <1>1, <1>2, <1>3, SeqEqual

LEMMA RunPart ==
  ASSUME NEW f \in Nat, NEW k \in Nat, NEW n \in 0 .. k
  PROVE  /\ SubSeq(Run(f, k), 1, n) = Run(f, n)
         /\ SubSeq(Run(f, k), n + 1, k) = Run(f + n, k - n)
<1> DEFINE g == f + n
           m == k - n
<1>1. /\ g \in Nat /\ m \in Nat
      /\ Run(f, k) \in Seq(Nat) /\ Len(Run(f, k)) = k
      /\ Run(f, n) \in Seq(Nat) /\ Len(Run(f, n)) = n
      /\ Run(g, m) \in Seq(Nat) /\ Len(Run(g, m)) = m
  <2> g \in Nat /\ m \in Nat
    OBVIOUS
  <2> HIDE DEF g, m
  <2> QED BY DEF Run
<1>2. /\ SubSeq(Run(f, k), 1, n) \in Seq(Nat) /\ Len(SubSeq(Run(f, k), 1, n)) = n
      /\ SubSeq(Run(f, k), n + 1, k) \in Seq(Nat) /\ Len(SubSeq(Run(f, k), n + 1, k)) = k - n
  BY <1>1, SMTT(30)
<1>3. \A i \in 1 .. n : SubSeq(Run(f, k), 1, n)[i] = Run(f, n)[i]
  BY <1>1 DEF Run
<1>4. \A i \in 1 .. k - n : SubSeq(Run(f, k), n + 1, k)[i] = Run(f + n, k - n)[i]
  BY <1>1 DEF Run
<1> QED BY <1>1, <1>2, <1>3, <1>4, SeqEqual

LEMMA PartOfSeq ==
  ASSUME NEW b \in Seq(Nat), NEW m \in 1 .. Len(b) + 1, NEW n \in Int, n <= Len(b)
  PROVE  SubSeq(b, m, n) \in Seq(Nat)
OBVIOUS

-----------------------------------------------------------------------------
(* The stages of socket_appcall                                            *)

LEMMA OpenedNow ==
  ASSUME NEW s \in Sockets, NEW ev, "connected" \in ev, NEW memory \in BOOLEAN,
         acceptlen \in Nat, ~s.alloc => s.buf = <<>>,
         NEW o, o = Opened(s, ev, memory)
  PROVE  /\ o \in Sockets
         /\ o.magic /\ o.connected /\ ~o.sending /\ ~o.stopped
         /\ o.tcp = s.tcp /\ o.outstanding = s.outstanding
         /\ o.senddata = <<>> /\ o.sendamt = 0 /\ o.transtimecount = 0
         /\ o.buf = s.buf /\ (s.alloc => o.alloc)
         /\ Big(o) => o.recvthr = o.fifosize - UIP_BUFSIZE
<1> DEFINE t == [init_socket_conn(s) EXCEPT !.connected = TRUE, !.transtimecount = 0]
           u == IF t.alloc THEN t ELSE initsocketfifo(t, acceptlen, memory)
           thr == IF u.fifosize < UIP_BUFSIZE THEN 0 ELSE u.fifosize - UIP_BUFSIZE
<1>1. /\ t \in Sockets
      /\ t.magic /\ t.connected /\ ~t.sending /\ ~t.stopped
      /\ t.tcp = s.tcp /\ t.outstanding = s.outstanding
      /\ t.senddata = <<>> /\ t.sendamt = 0 /\ t.transtimecount = 0
      /\ t.buf = s.buf /\ t.alloc = s.alloc
  <2>1. t = [s EXCEPT !.accepted = FALSE, !.connected = TRUE, !.sendamt = 0,
                      !.senddata = <<>>, !.sending = FALSE, !.recvthr = 0,
                      !.closesock = FALSE, !.stopped = FALSE, !.magic = TRUE,
                      !.transtimecount = 0]
    BY DEF Sockets, init_socket_conn
  <2>2. 0 \in 0 .. TRANS_TIMEOUT /\ 0 \in 0 .. MSS /\ <<>> \in Seq(Nat)
    BY SizeAssumption
  <2> HIDE DEF t
  <2>3. t \in Sockets
    BY <2>1, <2>2 DEF Sockets
  <2> QED BY <2>1, <2>3, ZenonT(60) DEF Sockets
<1> HIDE DEF t
<1>2. /\ u \in Sockets
      /\ u.magic /\ u.connected /\ ~u.sending /\ ~u.stopped
      /\ u.tcp = s.tcp /\ u.outstanding = s.outstanding
      /\ u.senddata = <<>> /\ u.sendamt = 0 /\ u.transtimecount = 0
      /\ u.buf = s.buf /\ (s.alloc => u.alloc)
  BY <1>1 DEF Sockets, initsocketfifo, freesocketfifo
<1>3. o = [u EXCEPT !.recvthr = thr]
  BY DEF Opened, t
<1> HIDE DEF u
<1>4. thr \in Nat /\ (u.fifosize >= UIP_BUFSIZE => thr = u.fifosize - UIP_BUFSIZE)
  BY <1>2, SizeAssumption DEF Sockets
<1> HIDE DEF thr
<1> QED BY <1>2, <1>3, <1>4, ZenonT(60) DEF Sockets, Big

LEMMA PolledIs ==
  ASSUME NEW s \in Sockets, NEW ev, NEW p, p = Polled(s, ev)
  PROVE  /\ p \in Sockets
         /\ "poll" \notin ev => p = s
         /\ p.tcp = s.tcp /\ p.outstanding = s.outstanding /\ p.arrived = s.arrived
         /\ p.sending = s.sending /\ p.senddata = s.senddata /\ p.sendamt = s.sendamt
         /\ KeepsUse(p, s) /\ KeepsFifo(p, s) /\ p.stopped = s.stopped
<1>1. CASE "poll" \in ev /\ s.transtimecount < TRANS_TIMEOUT
  <2>1. p = [s EXCEPT !.transtimecount = s.transtimecount + 1]
    BY <1>1 DEF Polled
  <2>2. s.transtimecount + 1 \in 0 .. TRANS_TIMEOUT
    BY <1>1, SizeAssumption DEF Sockets
  <2> QED BY <1>1, <2>1, <2>2 DEF Sockets, KeepsUse, KeepsFifo
<1>2. CASE ~("poll" \in ev /\ s.transtimecount < TRANS_TIMEOUT)
  BY <1>2 DEF Polled, KeepsUse, KeepsFifo
<1> QED BY <1>1, <1>2

LEMMA NextPartIs ==
  ASSUME NEW s \in Sockets, NEW q, q = NextPart(s)
  PROVE  /\ q \in Sockets
         /\ q.tcp = s.tcp /\ q.sending = s.sending /\ q.senddata = s.senddata
         /\ ~(s.senddata # <<>> /\ s.sendamt = 0) => q = s
         /\ s.senddata # <<>> /\ s.sendamt = 0 =>
              /\ ~q.arrived /\ q.transtimecount = 0
              /\ q.sendamt \in 1 .. Len(s.senddata)
              /\ q.outstanding = SubSeq(s.senddata, 1, q.sendamt)
         /\ KeepsUse(q, s) /\ KeepsFifo(q, s) /\ q.stopped = s.stopped
<1> DEFINE n == IF Len(s.senddata) > MSS THEN MSS ELSE Len(s.senddata)
<1>1. CASE s.senddata # <<>> /\ s.sendamt = 0
  <2>1. s.senddata \in Seq(Nat) /\ Len(s.senddata) \in Nat \ {0}
    BY <1>1, EmptySeq DEF Sockets
  <2>2. n \in 1 .. Len(s.senddata) /\ n \in 0 .. MSS
    BY <2>1, SizeAssumption
  <2>3. q = [s EXCEPT !.sendamt = n, !.transtimecount = 0, !.arrived = FALSE,
                      !.outstanding = SubSeq(s.senddata, 1, n)]
    BY <1>1 DEF NextPart
  <2> HIDE DEF n
  <2>4. SubSeq(s.senddata, 1, n) \in Seq(Nat)
    BY <2>1, <2>2, PartOfSeq
  <2>5. 0 \in 0 .. TRANS_TIMEOUT
    BY SizeAssumption
  <2>6. q \in Sockets
    BY <2>2, <2>3, <2>4, <2>5 DEF Sockets
  <2>7. /\ q.tcp = s.tcp /\ q.sending = s.sending /\ q.senddata = s.senddata
        /\ KeepsUse(q, s) /\ KeepsFifo(q, s) /\ q.stopped = s.stopped
    BY <2>3 DEF Sockets, KeepsUse, KeepsFifo
  <2>8. /\ ~q.arrived /\ q.transtimecount = 0 /\ q.sendamt = n
        /\ q.outstanding = SubSeq(s.senddata, 1, n)
    BY <2>3 DEF Sockets
  <2> QED BY <1>1, <2>2, <2>6, <2>7, <2>8
<1>2. CASE ~(s.senddata # <<>> /\ s.sendamt = 0)
  BY <1>2 DEF NextPart, KeepsUse, KeepsFifo
<1> QED BY <1>1, <1>2

LEMMA AcknowledgedIs ==
  ASSUME NEW s \in Sockets, s.sendamt <= Len(s.senddata), NEW q, q = Acknowledged(s)
  PROVE  /\ q \in Sockets
         /\ q.tcp = s.tcp /\ q.outstanding = s.outstanding /\ q.arrived = s.arrived
         /\ q.senddata = SubSeq(s.senddata, s.sendamt + 1, Len(s.senddata))
         /\ q.sendamt = 0 /\ q.sending = (q.senddata # <<>>)
         /\ q.transtimecount = s.transtimecount
         /\ KeepsUse(q, s) /\ KeepsFifo(q, s) /\ q.stopped = s.stopped
<1> DEFINE rest == SubSeq(s.senddata, s.sendamt + 1, Len(s.senddata))
<1>1. rest \in Seq(Nat)
  BY SizeAssumption, PartOfSeq DEF Sockets
<1>2. q = [s EXCEPT !.senddata = rest, !.sendamt = 0, !.sending = (rest # <<>>)]
  BY DEF Acknowledged
<1> HIDE DEF rest
<1>3. (rest # <<>>) \in BOOLEAN /\ 0 \in 0 .. MSS
  BY SizeAssumption
<1>4. q \in Sockets /\ q.senddata = rest /\ q.sending = (rest # <<>>)
  BY <1>1, <1>2, <1>3, ZenonT(60) DEF Sockets
<1> QED BY <1>2, <1>4 DEF Sockets, rest, KeepsUse, KeepsFifo

LEMMA ReceivedIs ==
  ASSUME NEW s \in Sockets, NEW ev, NEW bytes \in Seq(Nat),
         NEW r, r = Received(s, ev, bytes)
  PROVE  /\ r \in Sockets
         /\ KeepsUse(r, s) /\ KeepsTx(r, s)
         /\ r.alloc = s.alloc /\ r.fifosize = s.fifosize /\ r.recvthr = s.recvthr
         /\ "newdata" \notin ev => r = s
         /\ "newdata" \in ev /\ s.alloc /\ Len(bytes) <= s.fifosize - 1 - Len(s.buf) =>
              r.buf = s.buf \o bytes
         /\ ~s.alloc => r.buf = s.buf
         /\ "newdata" \in ev => r.stopped \/ Len(r.buf) < r.recvthr
<1>1. CASE "newdata" \in ev
  <2> DEFINE room == s.fifosize - 1 - Len(s.buf)
             n == IF Len(bytes) < room THEN Len(bytes) ELSE room
             t == putsocketfifo(s, bytes)
             stops == t.stopped \/ Len(t.buf) >= t.recvthr
  <2>1. s.fifosize \in Nat /\ s.buf \in Seq(Nat) /\ Len(s.buf) \in Nat /\ Len(bytes) \in Nat
    BY DEF Sockets
  <2>2. n \in Int /\ n <= Len(bytes) /\ (Len(bytes) <= room => n = Len(bytes))
    BY <2>1
  <2>3. t = IF s.alloc THEN [s EXCEPT !.buf = s.buf \o SubSeq(bytes, 1, n)] ELSE s
    BY DEF putsocketfifo
  <2> HIDE DEF n
  <2>4. SubSeq(bytes, 1, n) \in Seq(Nat)
    BY <2>1, <2>2, PartOfSeq
  <2>5. n = Len(bytes) => SubSeq(bytes, 1, n) = bytes
    BY SubSeqFull
  <2>6. s.buf \o SubSeq(bytes, 1, n) \in Seq(Nat)
    BY <2>1, <2>4
  <2>7. /\ t \in Sockets /\ KeepsUse(t, s) /\ KeepsTx(t, s)
        /\ t.alloc = s.alloc /\ t.fifosize = s.fifosize /\ t.recvthr = s.recvthr
        /\ s.alloc /\ n = Len(bytes) => t.buf = s.buf \o bytes
        /\ ~s.alloc => t.buf = s.buf
    BY <2>3, <2>5, <2>6, ZenonT(60) DEF Sockets, KeepsUse, KeepsTx
  <2>8. r = [t EXCEPT !.stopped = stops]
    BY <1>1 DEF Received
  <2>9. stops \in BOOLEAN /\ (~stops => Len(t.buf) < t.recvthr)
    BY <2>7 DEF Sockets
  <2> HIDE DEF t, room, stops
  <2>10. r \in Sockets
    BY <2>7, <2>8, <2>9 DEF Sockets
  <2>11. /\ r.buf = t.buf /\ r.stopped = stops
         /\ KeepsUse(r, t) /\ KeepsTx(r, t)
         /\ r.alloc = t.alloc /\ r.fifosize = t.fifosize /\ r.recvthr = t.recvthr
    BY <2>7, <2>8 DEF Sockets, KeepsUse, KeepsTx
  <2>12. Len(bytes) <= s.fifosize - 1 - Len(s.buf) => n = Len(bytes)
    BY <2>2 DEF room
  <2>13. KeepsUse(r, s) /\ KeepsTx(r, s)
    BY <2>7, <2>11 DEF KeepsUse, KeepsTx
  <2> QED BY <1>1, <2>7, <2>9, <2>10, <2>11, <2>12, <2>13
<1>2. CASE "newdata" \notin ev
  BY <1>2 DEF Received, KeepsUse, KeepsTx
<1> QED BY <1>1, <1>2

LEMMA RestIs ==
  ASSUME NEW t \in Sockets, NEW ev, NEW bytes \in Seq(Nat),
         NEW r, r = Closing(Ended(Resumed(Received(t, ev, bytes)), ev))
  PROVE  /\ r \in Sockets /\ KeepsTx(r, t)
         /\ r.alloc = t.alloc /\ r.fifosize = t.fifosize /\ r.recvthr = t.recvthr
         /\ "closed" \notin ev => KeepsUse(r, t)
         /\ "closed" \in ev => ~r.connected
         /\ "newdata" \notin ev \/ ~t.alloc => r.buf = t.buf
         /\ "newdata" \in ev /\ t.alloc /\ Len(bytes) <= t.fifosize - 1 - Len(t.buf) =>
              r.buf = t.buf \o bytes
         /\ r.stopped \/ Len(r.buf) < r.recvthr \/ ("newdata" \notin ev /\ ~t.stopped)
<1> DEFINE x == Received(t, ev, bytes)
           y == Resumed(x)
           z == Ended(y, ev)
           goes == x.stopped /\ ~(Len(x.buf) < x.recvthr)
           closes == z.closesock \/ ~z.alloc
<1>1. /\ x \in Sockets
      /\ KeepsUse(x, t) /\ KeepsTx(x, t)
      /\ x.alloc = t.alloc /\ x.fifosize = t.fifosize /\ x.recvthr = t.recvthr
      /\ "newdata" \notin ev => x = t
      /\ "newdata" \in ev /\ t.alloc /\ Len(bytes) <= t.fifosize - 1 - Len(t.buf) =>
           x.buf = t.buf \o bytes
      /\ ~t.alloc => x.buf = t.buf
      /\ "newdata" \in ev => x.stopped \/ Len(x.buf) < x.recvthr
  BY ReceivedIs
<1>2. goes \in BOOLEAN
  BY <1>1 DEF Sockets
<1>3. y = [x EXCEPT !.stopped = goes]
  BY DEF Resumed
<1>4. ~goes => ~x.stopped \/ Len(x.buf) < x.recvthr
  OBVIOUS
<1> HIDE DEF x, y, goes
<1>5. /\ y \in Sockets /\ KeepsUse(y, x) /\ KeepsTx(y, x) /\ KeepsFifo(y, x)
      /\ y.stopped = goes
  BY <1>1, <1>2, <1>3 DEF Sockets, KeepsUse, KeepsTx, KeepsFifo
<1>6. /\ z \in Sockets /\ KeepsTx(z, y) /\ KeepsFifo(z, y) /\ z.stopped = y.stopped
      /\ "closed" \notin ev => KeepsUse(z, y)
      /\ "closed" \in ev => ~z.connected
  <2>1. CASE "closed" \in ev
    <3>1. z = [y EXCEPT !.magic = FALSE, !.accepted = FALSE, !.connected = FALSE]
      BY <2>1 DEF Ended
    <3> HIDE DEF z
    <3> QED BY <1>5, <2>1, <3>1 DEF Sockets, KeepsTx, KeepsFifo
  <2>2. CASE "closed" \notin ev
    <3>1. z = y
      BY <2>2 DEF Ended
    <3> QED BY <1>5, <2>2, <3>1 DEF KeepsUse, KeepsTx, KeepsFifo
  <2> QED BY <2>1, <2>2
<1>7. closes \in BOOLEAN
  BY <1>6 DEF Sockets
<1>8. r = [z EXCEPT !.closesock = closes]
  BY DEF Closing, z, y, x
<1> HIDE DEF z, closes
<1>9. /\ r \in Sockets /\ KeepsUse(r, z) /\ KeepsTx(r, z) /\ KeepsFifo(r, z)
      /\ r.stopped = z.stopped /\ r.connected = z.connected
  BY <1>6, <1>7, <1>8 DEF Sockets, KeepsUse, KeepsTx, KeepsFifo
<1>10. KeepsTx(r, t)
  BY <1>1, <1>5, <1>6, <1>9 DEF KeepsTx
<1>11. /\ r.alloc = x.alloc /\ r.fifosize = x.fifosize /\ r.recvthr = x.recvthr
       /\ r.buf = x.buf /\ r.stopped = goes
  BY <1>5, <1>6, <1>9 DEF KeepsFifo
<1>12. "closed" \notin ev => KeepsUse(r, t)
  BY <1>1, <1>5, <1>6, <1>9 DEF KeepsUse
<1> QED BY <1>1, <1>4, <1>6, <1>9, <1>10, <1>11, <1>12

(* uip_send and what it has to send, through retransmission and            *)
(* acknowledgement of the n bytes that arrived.                            *)
LEMMA SentIs ==
  ASSUME NEW s \in Sockets, NEW ev, NEW g \in Seq(Nat), NEW w \in Nat,
         Pending(s, g, w, IF "acked" \in ev \/ s.arrived THEN s.sendamt ELSE 0),
         "acked" \in ev => s.sendamt > 0 /\ ~s.arrived /\ s.outstanding = <<>>,
         "acked" \notin ev => s.outstanding = SubSeq(s.senddata, 1, s.sendamt),
         "rexmit" \in ev => "acked" \notin ev,
         NEW t, t = Sent(s, ev)
  PROVE  /\ t \in Sockets /\ KeepsUse(t, s) /\ KeepsFifo(t, s) /\ t.stopped = s.stopped
         /\ t.tcp = s.tcp
         /\ "acked" \notin ev => t.sending = s.sending
         /\ Pending(t, g, w, IF t.arrived THEN t.sendamt ELSE 0)
         /\ t.outstanding = SubSeq(t.senddata, 1, t.sendamt)
         /\ Len(g) <= w /\ (~t.sending => Len(g) = w)
         /\ t.senddata # <<>> => s.senddata # <<>>
         /\ t.senddata # <<>> /\ (s.transtimecount = 0 \/ s.sendamt = 0) => t.transtimecount = 0
<1> DEFINE k == Len(s.senddata)
<1>0. /\ k \in Nat /\ s.sendamt \in Nat /\ s.senddata \in Seq(Nat) /\ Len(g) \in Nat
      /\ s.sendamt <= k /\ s.senddata = Run(w - k, k) /\ k <= w
      /\ ~s.sending => s.senddata = <<>>
  BY SizeAssumption DEF Sockets, Pending
<1>1. /\ s.senddata = <<>> <=> k = 0
      /\ s.sendamt > 0 => s.senddata # <<>> /\ s.sending
  BY <1>0, EmptySeq
<1>2. Len(g) = w - k + (IF "acked" \in ev \/ s.arrived THEN s.sendamt ELSE 0)
  BY DEF Pending
<1> HIDE DEF k
<1>3. CASE ~s.sending
  <2>1. t = s /\ "acked" \notin ev /\ k = 0 /\ s.sendamt = 0
    BY <1>0, <1>1, <1>3 DEF Sent
  <2>2. Len(g) = w
    BY <1>0, <1>2, <2>1
  <2> QED BY <1>0, <1>1, <1>2, <1>3, <2>1, <2>2 DEF KeepsUse, KeepsFifo
<1>4. CASE s.sending /\ "rexmit" \in ev
  <2>1. t = [s EXCEPT !.outstanding = SubSeq(s.senddata, 1, s.sendamt), !.transtimecount = 0]
    BY <1>4 DEF Sent
  <2>2. SubSeq(s.senddata, 1, s.sendamt) \in Seq(Nat) /\ 0 \in 0 .. TRANS_TIMEOUT
    BY <1>0, PartOfSeq, SizeAssumption DEF k
  <2>3. t \in Sockets
    BY <2>1, <2>2 DEF Sockets
  <2>4. /\ KeepsUse(t, s) /\ KeepsFifo(t, s) /\ t.stopped = s.stopped
        /\ t.tcp = s.tcp /\ t.sending = s.sending /\ t.senddata = s.senddata
        /\ t.sendamt = s.sendamt /\ t.arrived = s.arrived /\ t.transtimecount = 0
        /\ t.outstanding = SubSeq(s.senddata, 1, s.sendamt)
    BY <2>1 DEF Sockets, KeepsUse, KeepsFifo
  <2>5. Len(g) <= w
    BY <1>0, <1>2
  <2>6. Pending(t, g, w, IF t.arrived THEN t.sendamt ELSE 0)
    BY <1>4, <2>4 DEF Pending
  <2> QED BY <1>4, <2>3, <2>4, <2>5, <2>6
<1>5. CASE s.sending /\ "rexmit" \notin ev /\ "acked" \in ev
  <2> DEFINE q == Acknowledged(s)
             m == k - s.sendamt
             f == w - m
             e == w - k
             n == s.sendamt
  <2>1. t = NextPart(q)
    BY <1>5 DEF Sent
  <2>2. /\ q \in Sockets /\ KeepsUse(q, s) /\ KeepsFifo(q, s) /\ q.stopped = s.stopped
        /\ q.tcp = s.tcp /\ q.outstanding = s.outstanding /\ q.arrived = s.arrived
        /\ q.senddata = SubSeq(s.senddata, s.sendamt + 1, k)
        /\ q.sendamt = 0 /\ q.sending = (q.senddata # <<>>)
    BY <1>0, AcknowledgedIs DEF k
  <2>3. /\ m \in Nat /\ f \in Nat /\ m <= w /\ e + n = f /\ Len(g) = f
        /\ e \in Nat /\ n \in 0 .. k /\ k - n = m
    BY <1>0, <1>2, <1>5
  <2>4. s.senddata = Run(e, k) /\ q.senddata = SubSeq(s.senddata, n + 1, k)
    BY <1>0, <2>2
  <2> HIDE DEF e, n
  <2>5. q.senddata = Run(e + n, k - n)
    <3>1. k \in Nat
      BY <1>0
    <3>2. SubSeq(Run(e, k), n + 1, k) = Run(e + n, k - n)
      BY ONLY <2>3, <3>1, RunPart
    <3> QED BY <2>4, <3>2
  <2> HIDE DEF q, f
  <2>6. q.senddata = Run(f, m)
    BY <2>3, <2>5
  <2> HIDE DEF m
  <2>7. Len(q.senddata) = m /\ (q.senddata = <<>> <=> m = 0)
    BY <2>3, <2>6, RunIs, RunOfNone
  <2>8. /\ t \in Sockets /\ t.tcp = q.tcp /\ t.sending = q.sending /\ t.senddata = q.senddata
        /\ KeepsUse(t, q) /\ KeepsFifo(t, q) /\ t.stopped = q.stopped
        /\ q.senddata = <<>> => t = q
        /\ q.senddata # <<>> =>
             /\ ~t.arrived /\ t.transtimecount = 0
             /\ t.sendamt \in 1 .. Len(q.senddata)
             /\ t.outstanding = SubSeq(q.senddata, 1, t.sendamt)
    BY <2>1, <2>2, NextPartIs, ZenonT(60)
  <2>9. KeepsUse(t, s) /\ KeepsFifo(t, s) /\ t.stopped = s.stopped /\ t.tcp = s.tcp
    BY <2>2, <2>8 DEF KeepsUse, KeepsFifo
  <2>10. CASE q.senddata = <<>>
    <3>1. /\ t.senddata = <<>> /\ ~t.sending /\ t.sendamt = 0 /\ t.outstanding = s.outstanding
          /\ m = 0 /\ t = q
      BY <2>2, <2>7, <2>8, <2>10
    <3>2. SubSeq(t.senddata, 1, 0) = <<>>
      BY SubSeqEmpty
    <3>3. /\ t.senddata = Run(w - m, m) /\ Len(t.senddata) = m /\ Len(g) = w - m
          /\ s.outstanding = <<>> /\ t.outstanding = SubSeq(t.senddata, 1, t.sendamt)
      BY <1>5, <2>3, <2>6, <2>7, <3>1, <3>2 DEF f
    <3>4. Pending(t, g, w, IF t.arrived THEN t.sendamt ELSE 0)
      BY <2>3, <3>1, <3>3 DEF Pending
    <3>5. Len(g) = w /\ Len(g) <= w
      BY <2>3, <3>1, <3>3
    <3> QED BY <1>5, <2>8, <2>9, <3>1, <3>3, <3>4, <3>5
  <2>11. CASE q.senddata # <<>>
    <3>1. t.sending /\ s.senddata # <<>>
      BY <1>1, <1>5, <2>2, <2>8, <2>11
    <3>2. /\ ~t.arrived /\ t.transtimecount = 0 /\ t.sendamt \in 1 .. m
          /\ t.outstanding = SubSeq(t.senddata, 1, t.sendamt)
          /\ t.senddata = q.senddata /\ Len(t.senddata) = m
      BY <2>7, <2>8, <2>11
    <3>3. t.senddata = Run(w - m, m) /\ Len(g) = w - m /\ Len(g) <= w
      BY <2>3, <2>6, <3>2 DEF f
    <3>4. Pending(t, g, w, IF t.arrived THEN t.sendamt ELSE 0)
      BY <2>3, <3>1, <3>2, <3>3 DEF Pending
    <3> QED BY <1>5, <2>8, <2>9, <3>1, <3>2, <3>3, <3>4
  <2> QED BY <2>10, <2>11
<1>6. CASE s.sending /\ "rexmit" \notin ev /\ "acked" \notin ev
  <2>1. t = NextPart(s)
    BY <1>6 DEF Sent
  <2>2. /\ t \in Sockets /\ t.tcp = s.tcp /\ t.sending = s.sending /\ t.senddata = s.senddata
        /\ KeepsUse(t, s) /\ KeepsFifo(t, s) /\ t.stopped = s.stopped
        /\ ~(s.senddata # <<>> /\ s.sendamt = 0) => t = s
        /\ s.senddata # <<>> /\ s.sendamt = 0 =>
             /\ ~t.arrived /\ t.transtimecount = 0
             /\ t.sendamt \in 1 .. Len(s.senddata)
             /\ t.outstanding = SubSeq(s.senddata, 1, t.sendamt)
    BY <2>1, NextPartIs
  <2>3. Len(g) <= w
    BY <1>0, <1>2
  <2>4. CASE ~(s.senddata # <<>> /\ s.sendamt = 0)
    BY <1>6, <2>2, <2>3, <2>4
  <2>5. CASE s.senddata # <<>> /\ s.sendamt = 0
    <3>1. Pending(t, g, w, IF t.arrived THEN t.sendamt ELSE 0)
      BY <1>0, <1>2, <1>6, <2>2, <2>5 DEF Pending, k
    <3> QED BY <1>6, <2>2, <2>3, <2>5, <3>1
  <2> QED BY <2>4, <2>5
<1> QED BY <1>3, <1>4, <1>5, <1>6

(* uIP sends nothing more on a connection that ended or is to close.       *)
LEMMA UipIs ==
  ASSUME NEW r \in Sockets, NEW ev, NEW y, y = Uip(r, ev)
  PROVE  /\ y \in Sockets /\ KeepsUse(y, r) /\ KeepsFifo(y, r) /\ y.stopped = r.stopped
         /\ y.arrived = r.arrived /\ y.sending = r.sending /\ y.senddata = r.senddata
         /\ y.sendamt = r.sendamt /\ y.transtimecount = r.transtimecount
         /\ y.tcp = "established" => r.tcp = "established" /\ y.outstanding = r.outstanding
         /\ y.tcp # "established" => y.outstanding = <<>>
         /\ y.tcp = "syn" => r.tcp = "syn"
<1>0. <<>> \in Seq(Nat)
  OBVIOUS
<1>1. CASE r.tcp # "established"
  <2>1. y = [r EXCEPT !.outstanding = <<>>]
    BY <1>1 DEF Uip
  <2> QED BY <1>0, <1>1, <2>1 DEF Sockets, KeepsUse, KeepsFifo
<1>2. CASE r.tcp = "established" /\ r.closesock /\ "rexmit" \notin ev
  <2>1. y = [r EXCEPT !.tcp = "closing", !.outstanding = <<>>]
    BY <1>2 DEF Uip
  <2>2. y \in Sockets
    BY <1>0, <2>1 DEF Sockets
  <2>3. y.tcp = "closing" /\ y.outstanding = <<>>
    BY <2>1 DEF Sockets
  <2>4. /\ KeepsUse(y, r) /\ KeepsFifo(y, r) /\ y.stopped = r.stopped
        /\ y.arrived = r.arrived /\ y.sending = r.sending /\ y.senddata = r.senddata
        /\ y.sendamt = r.sendamt /\ y.transtimecount = r.transtimecount
    BY <2>1 DEF Sockets, KeepsUse, KeepsFifo
  <2> QED BY <2>2, <2>3, <2>4
<1>3. CASE r.tcp = "established" /\ ~(r.closesock /\ "rexmit" \notin ev)
  <2>1. y = r
    BY <1>3 DEF Uip
  <2> QED BY <1>3, <2>1 DEF KeepsUse, KeepsFifo
<1> QED BY <1>1, <1>2, <1>3

-----------------------------------------------------------------------------
(* One call of the application                                             *)

(* A segment that fits what the FIFO kept free.                            *)
RxReady(s, from, to) ==
  /\ from <= to /\ s.buf = Run(from, to - from)
  /\ s.recvthr = s.fifosize - UIP_BUFSIZE
  /\ s.stopped \/ s.buf = <<>> \/ Len(s.buf) < s.recvthr
FifoReady(s, ca, from, to) == Big(s) /\ ca = 0 => RxReady(s, from, to)
Takes(s, r, ev, bytes) ==
  /\ r.fifosize = s.fifosize /\ r.recvthr = s.recvthr
  /\ "newdata" \notin ev => r.buf = s.buf
  /\ "newdata" \in ev /\ s.alloc /\ Len(bytes) <= s.fifosize - 1 - Len(s.buf) =>
       r.buf = s.buf \o bytes
  /\ r.stopped \/ Len(r.buf) < r.recvthr \/ ("newdata" \notin ev /\ ~s.stopped)

LEMMA FifoTakes ==
  ASSUME NEW s \in Sockets, NEW r, NEW from \in Nat, NEW to \in Nat,
         NEW n \in 0 .. MSS, NEW bytes, bytes = Run(to, n), NEW ev,
         Big(s), RxReady(s, from, to), Takes(s, r, ev, bytes),
         n > 0 => "newdata" \in ev /\ ~s.stopped,
         "newdata" \in ev => n > 0 \/ s.buf = <<>>
  PROVE  RxReady(r, from, to + n)
<1>0. /\ from <= to /\ s.buf = Run(from, to - from)
      /\ s.recvthr = s.fifosize - UIP_BUFSIZE
      /\ s.stopped \/ s.buf = <<>> \/ Len(s.buf) < s.recvthr
      /\ r.fifosize = s.fifosize /\ r.recvthr = s.recvthr
      /\ "newdata" \notin ev => r.buf = s.buf
      /\ "newdata" \in ev /\ s.alloc /\ Len(bytes) <= s.fifosize - 1 - Len(s.buf) =>
           r.buf = s.buf \o bytes
      /\ r.stopped \/ Len(r.buf) < r.recvthr \/ ("newdata" \notin ev /\ ~s.stopped)
  BY DEF RxReady, Takes
<1> DEFINE k == to - from
<1>1. k \in Nat /\ from + k = to /\ n \in Nat /\ (to + n) - from = k + n /\ from <= to + n
  BY <1>0, SizeAssumption
<1>2. s.buf = Run(from, k)
  BY <1>0
<1> HIDE DEF k
<1>3. Len(s.buf) = k /\ Len(bytes) = n /\ bytes \in Seq(Nat) /\ s.buf \in Seq(Nat)
  BY <1>1, <1>2, RunIs
<1>4. Run(from, k) \o Run(to, n) = Run(from, k + n)
  <2>1. Run(from, k) \o Run(from + k, n) = Run(from, k + n)
    BY ONLY <1>1, RunJoin, from \in Nat
  <2> QED BY <1>1, <2>1
<1>5. s.fifosize \in Nat /\ s.fifosize >= UIP_BUFSIZE /\ s.alloc /\ s.recvthr \in Nat
  BY DEF Sockets, Big
<1>6. CASE "newdata" \notin ev
  <2>1. n = 0 /\ r.buf = s.buf /\ (to + n) - from = k /\ (~s.stopped => s.buf = <<>> \/ Len(s.buf) < s.recvthr)
    BY <1>0, <1>1, <1>6
  <2> QED BY <1>0, <1>1, <1>2, <1>6, <2>1 DEF RxReady
<1>7. CASE "newdata" \in ev
  <2>1. s.buf = <<>> => k = 0
    BY <1>3
  <2>2. k = 0 \/ k < s.recvthr
    BY <1>0, <1>3, <1>7, <2>1
  <2>3. n <= s.fifosize - 1 - k
    BY <1>0, <1>1, <1>5, <2>2, SizeAssumption
  <2>4. r.buf = Run(from, k + n)
    BY <1>0, <1>2, <1>3, <1>4, <1>5, <1>7, <2>3
  <2> QED BY <1>0, <1>1, <1>7, <2>4 DEF RxReady
<1> QED BY <1>6, <1>7

(* A segment or a tick on an established connection: s is the slot as uIP  *)
(* left it, with the acknowledged bytes taken off.                         *)
EventFits(s, ev, n) ==
  /\ "connected" \notin ev /\ ("rexmit" \in ev => "acked" \notin ev)
  /\ "newdata" \in ev <=> n > 0
  /\ n > 0 => ~s.stopped
  /\ s.magic /\ s.connected /\ (~s.alloc => s.buf = <<>>)
  /\ s.tcp = (IF "closed" \in ev THEN "closed" ELSE "established")
  /\ "poll" \in ev => s.sendamt = 0
TxReady(s, ev, g, w) ==
  /\ g = Run(0, Len(g))
  /\ Pending(s, g, w, IF "acked" \in ev \/ s.arrived THEN s.sendamt ELSE 0)
  /\ "acked" \in ev => s.sendamt > 0 /\ ~s.arrived /\ s.outstanding = <<>>
  /\ "acked" \notin ev => s.outstanding = SubSeq(s.senddata, 1, s.sendamt)
WaitReady(s, cl, c) ==
  s.senddata # <<>> => s.transtimecount = 0 /\ cl = [op |-> "write", conn |-> c]

LEMMA SlotTypes ==
  ASSUME TypeOK, NEW c \in Conns
  PROVE  /\ sock[c] \in Sockets /\ acceptlen \in Nat
         /\ carried[c] \in Nat /\ delivered[c] \in Nat /\ lastread[c] \in Nat
         /\ got[c] \in Seq(Nat) /\ Len(got[c]) \in Nat /\ wrote[c] \in Nat
BY SizeAssumption DEF TypeOK

LEMMA Called ==
  ASSUME TypeOK, NEW c \in Conns, NEW s \in Sockets, NEW ev, NEW memory \in BOOLEAN,
         NEW n \in 0 .. MSS,
         NEW y, y = Uip(socket_appcall(s, ev, Run(delivered[c], n), memory), ev),
         EventFits(s, ev, n), TxReady(s, ev, got[c], wrote[c]), WaitReady(s, call, c),
         FifoReady(s, carried[c], lastread[c], delivered[c])
  PROVE  /\ y \in Sockets /\ Link(y) /\ TxGood(y, got[c], wrote[c]) /\ Waits(y, call, c)
         /\ y.alloc = s.alloc
         /\ Big(y) /\ carried[c] = 0 => RxGood(y, lastread[c], delivered[c] + n)
<1> DEFINE g == got[c]
           w == wrote[c]
           cl == call
           ca == carried[c]
           from == lastread[c]
           to == delivered[c]
           bytes == Run(to, n)
<1>0. /\ g \in Seq(Nat) /\ w \in Nat /\ from \in Nat /\ to \in Nat /\ ca \in Nat
      /\ bytes = Run(to, n) /\ y = Uip(socket_appcall(s, ev, bytes, memory), ev)
      /\ TxReady(s, ev, g, w) /\ WaitReady(s, cl, c)
      /\ FifoReady(s, ca, from, to)
  BY SlotTypes
<1> HIDE DEF g, w, cl, ca, from, to, bytes
<1> DEFINE p == Polled(s, ev)
           t == Sent(p, ev)
           r == Closing(Ended(Resumed(Received(t, ev, bytes)), ev))
<1>1. Opened(s, ev, memory) = s
  BY DEF Opened, EventFits
<1>2. y = Uip(r, ev)
  BY <1>0, <1>1 DEF socket_appcall, EventFits
<1>3. /\ p \in Sockets
      /\ "poll" \notin ev => p = s
      /\ p.tcp = s.tcp /\ p.outstanding = s.outstanding /\ p.arrived = s.arrived
      /\ p.sending = s.sending /\ p.senddata = s.senddata /\ p.sendamt = s.sendamt
      /\ KeepsUse(p, s) /\ KeepsFifo(p, s) /\ p.stopped = s.stopped
  BY PolledIs
<1> HIDE DEF p
<1>4. Pending(p, g, w, IF "acked" \in ev \/ p.arrived THEN p.sendamt ELSE 0)
  BY <1>0, <1>3 DEF Pending, TxReady
<1>5. /\ t \in Sockets /\ KeepsUse(t, p) /\ KeepsFifo(t, p) /\ t.stopped = p.stopped
      /\ t.tcp = p.tcp
      /\ Pending(t, g, w, IF t.arrived THEN t.sendamt ELSE 0)
      /\ t.outstanding = SubSeq(t.senddata, 1, t.sendamt)
      /\ Len(g) <= w /\ (~t.sending => Len(g) = w)
      /\ t.senddata # <<>> => p.senddata # <<>>
      /\ t.senddata # <<>> /\ (p.transtimecount = 0 \/ p.sendamt = 0) => t.transtimecount = 0
  <2>1. /\ p \in Sockets /\ g \in Seq(Nat) /\ w \in Nat /\ t = Sent(p, ev)
        /\ Pending(p, g, w, IF "acked" \in ev \/ p.arrived THEN p.sendamt ELSE 0)
    BY <1>0, <1>3, <1>4
  <2>2. /\ "acked" \in ev => p.sendamt > 0 /\ ~p.arrived /\ p.outstanding = <<>>
        /\ "acked" \notin ev => p.outstanding = SubSeq(p.senddata, 1, p.sendamt)
        /\ "rexmit" \in ev => "acked" \notin ev
    BY <1>0, <1>3 DEF TxReady, EventFits
  <2> HIDE DEF t
  <2> QED BY ONLY <2>1, <2>2, SentIs
<1> HIDE DEF t
<1>6. bytes \in Seq(Nat)
  BY <1>0, RunIs, n \in Nat
<1>7. /\ r \in Sockets /\ KeepsTx(r, t)
      /\ r.alloc = t.alloc /\ r.fifosize = t.fifosize /\ r.recvthr = t.recvthr
      /\ "closed" \notin ev => KeepsUse(r, t)
      /\ "closed" \in ev => ~r.connected
      /\ "newdata" \notin ev \/ ~t.alloc => r.buf = t.buf
      /\ "newdata" \in ev /\ t.alloc /\ Len(bytes) <= t.fifosize - 1 - Len(t.buf) =>
           r.buf = t.buf \o bytes
      /\ r.stopped \/ Len(r.buf) < r.recvthr \/ ("newdata" \notin ev /\ ~t.stopped)
  <2>1. r = Closing(Ended(Resumed(Received(t, ev, bytes)), ev)) /\ t \in Sockets
    BY <1>5
  <2> HIDE DEF r
  <2> QED BY ONLY <1>6, <2>1, RestIs, SMTT(30)
<1> HIDE DEF r
<1>8. /\ y \in Sockets /\ KeepsUse(y, r) /\ KeepsFifo(y, r) /\ y.stopped = r.stopped
      /\ y.arrived = r.arrived /\ y.sending = r.sending /\ y.senddata = r.senddata
      /\ y.sendamt = r.sendamt /\ y.transtimecount = r.transtimecount
      /\ y.tcp = "established" => r.tcp = "established" /\ y.outstanding = r.outstanding
      /\ y.tcp # "established" => y.outstanding = <<>>
      /\ y.tcp = "syn" => r.tcp = "syn"
  BY <1>2, <1>7, UipIs
<1>9. r.tcp = s.tcp
  BY <1>3, <1>5, <1>7 DEF KeepsTx
<1>10. /\ t.alloc = s.alloc /\ t.fifosize = s.fifosize /\ t.recvthr = s.recvthr
       /\ t.buf = s.buf /\ t.stopped = s.stopped
  BY <1>3, <1>5 DEF KeepsFifo
<1>11. /\ y.alloc = s.alloc /\ y.fifosize = s.fifosize /\ y.recvthr = s.recvthr
       /\ y.buf = r.buf /\ y.stopped = r.stopped
  BY <1>7, <1>8, <1>10 DEF KeepsFifo
<1>12. Link(y)
  <2>1. ~y.alloc => y.buf = <<>>
    BY <1>7, <1>10, <1>11 DEF EventFits
  <2>2. y.tcp # "syn"
    BY <1>8, <1>9 DEF EventFits
  <2>3. y.tcp = "established" => y.magic /\ y.connected
    BY <1>3, <1>5, <1>7, <1>8, <1>9 DEF KeepsUse, EventFits
  <2> QED BY <2>1, <2>2, <2>3 DEF Link
<1>13. TxGood(y, g, w)
  <2>1. /\ y.arrived = t.arrived /\ y.sending = t.sending /\ y.senddata = t.senddata
        /\ y.sendamt = t.sendamt
    BY <1>7, <1>8 DEF KeepsTx
  <2>2. Pending(y, g, w, IF y.arrived THEN y.sendamt ELSE 0)
    BY <1>5, <2>1 DEF Pending
  <2>3. y.tcp = "established" => y.outstanding = SubSeq(y.senddata, 1, y.sendamt)
    BY <1>5, <1>7, <1>8, <2>1 DEF KeepsTx
  <2> QED BY <1>0, <1>5, <1>8, <2>1, <2>2, <2>3 DEF TxGood, TxReady
<1>14. Waits(y, cl, c)
  <2>1. y.senddata = t.senddata /\ y.transtimecount = t.transtimecount
    BY <1>7, <1>8 DEF KeepsTx
  <2>2. y.senddata # <<>> => s.senddata # <<>>
    BY <1>3, <1>5, <2>1
  <2>3. s.senddata # <<>> => p.transtimecount = 0 \/ p.sendamt = 0
    BY <1>0, <1>3 DEF WaitReady, EventFits
  <2> QED BY <1>0, <1>5, <2>1, <2>2, <2>3 DEF Waits, WaitReady
<1>15. ASSUME Big(y), ca = 0
       PROVE  RxGood(y, from, to + n)
  <2>1. Big(s)
    BY <1>11, <1>15 DEF Big
  <2>2. RxReady(s, from, to)
    BY <1>0, <1>15, <2>1 DEF FifoReady
  <2>3. Takes(s, r, ev, bytes)
    BY <1>7, <1>10 DEF Takes
  <2>4. /\ n > 0 => "newdata" \in ev /\ ~s.stopped
        /\ "newdata" \in ev => n > 0 \/ s.buf = <<>>
    BY DEF EventFits
  <2>5. /\ s \in Sockets /\ from \in Nat /\ to \in Nat /\ n \in 0 .. MSS /\ bytes = Run(to, n)
    BY <1>0
  <2>6. RxReady(r, from, to + n)
    BY ONLY <2>1, <2>2, <2>3, <2>4, <2>5, FifoTakes
  <2> QED BY <1>7, <1>10, <1>11, <2>6 DEF RxGood, RxReady
<1> QED BY <1>8, <1>11, <1>12, <1>13, <1>14, <1>15 DEF g, w, cl, ca, from, to

(* The end of a connection that is not established.                        *)
LEMMA Buried ==
  ASSUME NEW s \in Sockets, NEW ev, ev = {"closed"}, NEW memory \in BOOLEAN,
         NEW bytes \in Seq(Nat), s.tcp = "closed", ~s.alloc => s.buf = <<>>,
         NEW y, y = Uip(socket_appcall(s, ev, bytes, memory), ev)
  PROVE  /\ y \in Sockets /\ Link(y) /\ y.tcp = "closed" /\ y.outstanding = <<>>
         /\ y.sending = s.sending
         /\ y.alloc = s.alloc /\ y.fifosize = s.fifosize /\ y.buf = s.buf
<1> DEFINE p == Polled(s, ev)
           t == Sent(p, ev)
           r == Closing(Ended(Resumed(Received(t, ev, bytes)), ev))
           q == IF s.magic THEN r ELSE s
<1>1. Opened(s, ev, memory) = s
  BY DEF Opened
<1>2. y = Uip(q, ev)
  BY <1>1 DEF socket_appcall
<1>3. p = s
  BY DEF Polled
<1>4. t = IF s.sending THEN NextPart(s) ELSE s
  BY <1>3 DEF Sent
<1>5. /\ NextPart(s) \in Sockets
      /\ NextPart(s).tcp = s.tcp /\ NextPart(s).sending = s.sending
      /\ KeepsFifo(NextPart(s), s)
  BY NextPartIs
<1>6. t \in Sockets /\ t.tcp = s.tcp /\ t.sending = s.sending /\ KeepsFifo(t, s)
  BY <1>4, <1>5 DEF KeepsFifo
<1> HIDE DEF t
<1>7. /\ r \in Sockets /\ KeepsTx(r, t)
      /\ r.alloc = t.alloc /\ r.fifosize = t.fifosize /\ r.buf = t.buf
  <2>1. r = Closing(Ended(Resumed(Received(t, ev, bytes)), ev)) /\ "newdata" \notin ev
    OBVIOUS
  <2> HIDE DEF r
  <2> QED BY ONLY <1>6, <2>1, RestIs, bytes \in Seq(Nat)
<1> HIDE DEF r
<1>8. /\ q \in Sockets /\ q.tcp = "closed" /\ q.sending = s.sending
      /\ q.alloc = s.alloc /\ q.fifosize = s.fifosize /\ q.buf = s.buf
  BY <1>6, <1>7 DEF KeepsTx, KeepsFifo
<1> HIDE DEF q
<1>9. y = [q EXCEPT !.outstanding = <<>>]
  BY <1>2, <1>8 DEF Uip
<1>10. /\ y \in Sockets /\ y.tcp = "closed" /\ y.outstanding = <<>>
       /\ y.sending = s.sending
       /\ y.alloc = s.alloc /\ y.fifosize = s.fifosize /\ y.buf = s.buf
  <2>1. <<>> \in Seq(Nat)
    OBVIOUS
  <2>2. y \in Sockets
    BY <1>8, <1>9, <2>1 DEF Sockets
  <2>3. q \in Sockets
    BY <1>8
  <2> QED BY <1>8, <1>9, <2>2, <2>3 DEF Sockets
<1> QED BY <1>10 DEF Link

(* A connection opens, with n bytes of data.                               *)
OpeningFits(s, ev, n) ==
  /\ "connected" \in ev
  /\ \A f \in {"poll", "rexmit", "acked", "closed"} : f \notin ev
  /\ n > 0 => "newdata" \in ev
  /\ s.tcp = "established" /\ s.outstanding = <<>> /\ (~s.alloc => s.buf = <<>>)
Whole(g) == g \in Seq(Nat) /\ g = Run(0, Len(g))

LEMMA Begun ==
  ASSUME TypeOK, NEW c \in Conns, NEW s \in Sockets, NEW ev, NEW memory \in BOOLEAN,
         NEW n \in 0 .. MSS, NEW g, Whole(g),
         NEW y, y = Uip(socket_appcall(s, ev, Run(delivered[c], n), memory), ev),
         OpeningFits(s, ev, n)
  PROVE  /\ y \in Sockets /\ Link(y) /\ TxGood(y, g, Len(g)) /\ Waits(y, call, c)
         /\ s.alloc => y.alloc
         /\ Big(y) /\ s.buf = <<>> => RxGood(y, delivered[c], delivered[c] + n)
<1> DEFINE to == delivered[c]
           bytes == Run(to, n)
           w == Len(g)
<1>0. /\ to \in Nat /\ w \in Nat /\ Len(g) = w /\ acceptlen \in Nat
      /\ bytes = Run(to, n) /\ y = Uip(socket_appcall(s, ev, bytes, memory), ev)
      /\ g \in Seq(Nat) /\ g = Run(0, Len(g))
      /\ "connected" \in ev /\ "poll" \notin ev /\ "closed" \notin ev
      /\ "rexmit" \notin ev /\ "acked" \notin ev
      /\ n > 0 => "newdata" \in ev
      /\ s.tcp = "established" /\ s.outstanding = <<>> /\ (~s.alloc => s.buf = <<>>)
  BY SlotTypes DEF OpeningFits, Whole
<1> HIDE DEF to, bytes, w
<1> DEFINE o == Opened(s, ev, memory)
           r == Closing(Ended(Resumed(Received(o, ev, bytes)), ev))
<1>1. /\ o \in Sockets
      /\ o.magic /\ o.connected /\ ~o.sending /\ ~o.stopped
      /\ o.tcp = s.tcp /\ o.outstanding = s.outstanding
      /\ o.senddata = <<>> /\ o.sendamt = 0 /\ o.transtimecount = 0
      /\ o.buf = s.buf /\ (s.alloc => o.alloc)
      /\ Big(o) => o.recvthr = o.fifosize - UIP_BUFSIZE
  BY <1>0, OpenedNow
<1> HIDE DEF o
<1>2. Sent(Polled(o, ev), ev) = o
  BY <1>0, <1>1 DEF Polled, Sent
<1>3. socket_appcall(s, ev, bytes, memory) = r
  BY <1>1, <1>2 DEF socket_appcall, o
<1>4. bytes \in Seq(Nat)
  BY <1>0, RunIs, n \in Nat
<1>5. /\ r \in Sockets /\ KeepsTx(r, o) /\ KeepsUse(r, o)
      /\ r.alloc = o.alloc /\ r.fifosize = o.fifosize /\ r.recvthr = o.recvthr
      /\ "newdata" \notin ev \/ ~o.alloc => r.buf = o.buf
      /\ "newdata" \in ev /\ o.alloc /\ Len(bytes) <= o.fifosize - 1 - Len(o.buf) =>
           r.buf = o.buf \o bytes
      /\ r.stopped \/ Len(r.buf) < r.recvthr \/ ("newdata" \notin ev /\ ~o.stopped)
  <2>1. /\ r = Closing(Ended(Resumed(Received(o, ev, bytes)), ev))
        /\ o \in Sockets
    BY <1>1
  <2>2. "closed" \notin ev
    BY <1>0
  <2> HIDE DEF r
  <2> QED BY ONLY <1>4, <2>1, <2>2, RestIs
<1> HIDE DEF r
<1>6. y = Uip(r, ev)
  BY <1>0, <1>3
<1>7. /\ y \in Sockets /\ KeepsUse(y, r) /\ KeepsFifo(y, r) /\ y.stopped = r.stopped
      /\ y.arrived = r.arrived /\ y.sending = r.sending /\ y.senddata = r.senddata
      /\ y.sendamt = r.sendamt /\ y.transtimecount = r.transtimecount
      /\ y.tcp = "established" => r.tcp = "established" /\ y.outstanding = r.outstanding
      /\ y.tcp # "established" => y.outstanding = <<>>
      /\ y.tcp = "syn" => r.tcp = "syn"
  BY <1>5, <1>6, UipIs
<1>8. /\ y.alloc = o.alloc /\ y.fifosize = o.fifosize /\ y.recvthr = o.recvthr
      /\ y.buf = r.buf /\ y.stopped = r.stopped
  BY <1>5, <1>7 DEF KeepsFifo
<1>9. Link(y)
  <2>1. ~y.alloc => y.buf = <<>>
    BY <1>0, <1>1, <1>5, <1>8
  <2>2. y.tcp # "syn" /\ y.magic /\ y.connected
    BY <1>0, <1>1, <1>5, <1>7 DEF KeepsUse, KeepsTx
  <2> QED BY <2>1, <2>2 DEF Link
<1>10. TxGood(y, g, w)
  <2>1. y.senddata = <<>> /\ y.sendamt = 0 /\ ~y.sending /\ y.outstanding = <<>>
    BY <1>0, <1>1, <1>5, <1>7 DEF KeepsTx
  <2>2. SubSeq(y.senddata, 1, 0) = <<>> /\ Len(y.senddata) = 0
    BY <2>1, SubSeqEmpty
  <2>3. y.senddata = Run(w - 0, 0)
    BY <1>0, <2>1, RunOfNone
  <2>4. Pending(y, g, w, IF y.arrived THEN y.sendamt ELSE 0)
    BY <1>0, <2>1, <2>2, <2>3 DEF Pending
  <2> QED BY <1>0, <2>1, <2>2, <2>4 DEF TxGood
<1>11. Waits(y, call, c)
  BY <1>1, <1>5, <1>7 DEF KeepsTx, Waits
<1>12. ASSUME Big(y), s.buf = <<>>
       PROVE  RxGood(y, to, to + n)
  <2>1. Big(o)
    BY <1>8, <1>12 DEF Big
  <2>2. o.buf = Run(to, to - to) /\ o.buf = <<>>
    <3>1. to - to = 0
      BY <1>0
    <3> QED BY <1>0, <1>1, <1>12, <3>1, RunOfNone
  <2>3. RxReady(o, to, to)
    BY <1>0, <1>1, <2>1, <2>2 DEF RxReady
  <2>4. Takes(o, r, ev, bytes)
    BY <1>5 DEF Takes
  <2>5. /\ n > 0 => "newdata" \in ev /\ ~o.stopped
        /\ "newdata" \in ev => n > 0 \/ o.buf = <<>>
    BY <1>0, <1>1, <2>2
  <2>6. /\ o \in Sockets /\ to \in Nat /\ n \in 0 .. MSS /\ bytes = Run(to, n)
    BY <1>0, <1>1
  <2>7. RxReady(r, to, to + n)
    BY ONLY <2>1, <2>3, <2>4, <2>5, <2>6, FifoTakes
  <2> QED BY <1>5, <1>8, <2>7 DEF RxGood, RxReady
<1>13. s.alloc => y.alloc
  BY <1>1, <1>8
<1> QED BY <1>7, <1>9, <1>10, <1>11, <1>12, <1>13 DEF to, w

-----------------------------------------------------------------------------
(* Events of uIP                                                           *)

LEMMA SlotKept ==
  ASSUME NEW d, Slot(d), sock'[d] = sock[d], carried'[d] = carried[d],
         delivered'[d] = delivered[d], lastread'[d] = lastread[d],
         got'[d] = got[d], wrote'[d] = wrote[d], Waits(sock[d], call', d)
  PROVE  Slot(d)'
BY DEF Slot

(* A step that changes one slot.                                           *)
LEMMA SlotChanges ==
  ASSUME Inv, NEW c \in Conns, NEW y \in Sockets, NEW n \in 0 .. MSS,
         NEW m \in Nat, NEW l \in Nat,
         sock' = [sock EXCEPT ![c] = y],
         delivered' = [delivered EXCEPT ![c] = delivered[c] + n],
         carried' = [carried EXCEPT ![c] = m], lastread' = [lastread EXCEPT ![c] = l],
         \E g \in Seq(Nat), w \in Nat :
           /\ got' = [got EXCEPT ![c] = g] /\ wrote' = [wrote EXCEPT ![c] = w]
           /\ TxGood(y, g, w),
         call' \in Calls, owned' \subseteq Conns,
         acceptlen' \in BufLens \cup {1}, listening' \in BOOLEAN,
         Link(y), Waits(y, call', c),
         \A d \in Conns \ {c} : Waits(sock[d], call', d),
         Big(y) /\ m = 0 => RxGood(y, l, delivered[c] + n)
  PROVE  Inv'
<1>1. PICK g \in Seq(Nat), w \in Nat :
        /\ got' = [got EXCEPT ![c] = g] /\ wrote' = [wrote EXCEPT ![c] = w]
        /\ TxGood(y, g, w)
  OBVIOUS
<1>2. /\ sock \in [Conns -> Sockets] /\ carried \in [Conns -> Nat]
      /\ delivered \in [Conns -> Nat] /\ lastread \in [Conns -> Nat]
      /\ got \in [Conns -> Seq(Nat)] /\ wrote \in [Conns -> Nat]
  BY DEF Inv, TypeOK
<1>0. delivered[c] + n \in Nat
  <2>1. delivered[c] \in Nat /\ n \in Nat
    BY <1>2, SizeAssumption
  <2> QED BY <2>1
<1>3. TypeOK'
  <2>1. /\ sock' \in [Conns -> Sockets] /\ carried' \in [Conns -> Nat]
        /\ delivered' \in [Conns -> Nat] /\ lastread' \in [Conns -> Nat]
        /\ got' \in [Conns -> Seq(Nat)] /\ wrote' \in [Conns -> Nat]
    BY <1>0, <1>1, <1>2
  <2> QED BY <2>1 DEF TypeOK
<1>4. ASSUME NEW d \in Conns
      PROVE  Slot(d)'
  <2>1. CASE d = c
    <3>1. /\ sock'[c] = y /\ carried'[c] = m /\ lastread'[c] = l
          /\ delivered'[c] = delivered[c] + n /\ got'[c] = g /\ wrote'[c] = w
      BY <1>1, <1>2
    <3> QED BY <1>1, <2>1, <3>1 DEF Slot
  <2>2. CASE d # c
    <3>1. /\ sock'[d] = sock[d] /\ carried'[d] = carried[d] /\ lastread'[d] = lastread[d]
          /\ delivered'[d] = delivered[d] /\ got'[d] = got[d] /\ wrote'[d] = wrote[d]
      BY <1>1, <1>2, <2>2
    <3>2. Slot(d) /\ Waits(sock[d], call', d)
      BY <2>2 DEF Inv
    <3> QED BY <3>1, <3>2, SlotKept
  <2> QED BY <2>1, <2>2
<1> QED BY <1>3, <1>4 DEF Inv

LEMMA EventKeeps ==
  ASSUME Inv, NEW c \in Conns, NEW y \in Sockets, NEW n \in 0 .. MSS,
         NEW m \in Nat, NEW l \in Nat,
         sock' = [sock EXCEPT ![c] = y],
         delivered' = [delivered EXCEPT ![c] = delivered[c] + n],
         carried' = [carried EXCEPT ![c] = m], lastread' = [lastread EXCEPT ![c] = l],
         \E g \in Seq(Nat), w \in Nat :
           /\ got' = [got EXCEPT ![c] = g] /\ wrote' = [wrote EXCEPT ![c] = w]
           /\ TxGood(y, g, w),
         UNCHANGED Program,
         Link(y), Waits(y, call, c),
         Big(y) /\ m = 0 => RxGood(y, l, delivered[c] + n)
  PROVE  Inv'
<1>1. /\ call' = call /\ call' \in Calls /\ owned' \subseteq Conns
      /\ acceptlen' \in BufLens \cup {1} /\ listening' \in BOOLEAN
  BY DEF Inv, TypeOK, Program
<1>2. \A d \in Conns \ {c} : Waits(sock[d], call', d)
  BY <1>1 DEF Inv, Slot
<1>3. Waits(y, call', c)
  BY <1>1
<1> QED BY <1>1, <1>2, <1>3, SlotChanges

(* What uIP may do to an established slot before it calls.                 *)
LEMMA EstablishedEvent ==
  ASSUME Inv, NEW c \in Conns, sock[c].tcp = "established",
         NEW s \in Sockets, NEW ev, NEW n \in 0 .. MSS,
         Event(c, s, ev, n), UNCHANGED <<Program, got, wrote, opens>>,
         KeepsUse(s, sock[c]), KeepsFifo(s, sock[c]), s.stopped = sock[c].stopped,
         s.sending = sock[c].sending, s.senddata = sock[c].senddata,
         s.sendamt = sock[c].sendamt, s.transtimecount = sock[c].transtimecount,
         s.tcp = (IF "closed" \in ev THEN "closed" ELSE "established"),
         "connected" \notin ev, "rexmit" \in ev => "acked" \notin ev,
         "newdata" \in ev <=> n > 0, n > 0 => ~sock[c].stopped,
         "poll" \in ev => sock[c].outstanding = <<>>,
         "acked" \in ev =>
           /\ sock[c].outstanding # <<>> /\ sock[c].arrived
           /\ s.outstanding = <<>> /\ ~s.arrived,
         "acked" \notin ev => s.outstanding = sock[c].outstanding /\ s.arrived = sock[c].arrived
  PROVE  Inv'
<1> DEFINE x == sock[c]
           g == got[c]
           w == wrote[c]
           from == lastread[c]
           to == delivered[c]
           bytes == Run(to, n)
<1>1. PICK memory \in BOOLEAN :
        sock' = [sock EXCEPT ![c] = Uip(socket_appcall(s, ev, bytes, memory), ev)]
  BY DEF Event, Run
<1>2. /\ delivered' = [delivered EXCEPT ![c] = delivered[c] + n] /\ carried' = carried
      /\ lastread' = [lastread EXCEPT ![c] = IF ~sock[c].alloc THEN delivered[c] ELSE @]
  BY DEF Event
<1>3. /\ x \in Sockets /\ acceptlen \in Nat
      /\ carried[c] \in Nat /\ to \in Nat /\ from \in Nat
      /\ g \in Seq(Nat) /\ Len(g) \in Nat /\ w \in Nat
  BY SlotTypes DEF Inv
<1>4. /\ Link(x) /\ TxGood(x, g, w) /\ Waits(x, call, c)
      /\ Big(x) /\ carried[c] = 0 => RxGood(x, from, to)
  BY DEF Inv, Slot
<1> DEFINE y == Uip(socket_appcall(s, ev, bytes, memory), ev)
<1>5. /\ s.magic /\ s.connected /\ (~s.alloc => s.buf = <<>>)
  BY <1>4 DEF Link, KeepsUse, KeepsFifo
<1>6. /\ x.outstanding = SubSeq(x.senddata, 1, x.sendamt) /\ g = Run(0, Len(g))
      /\ Pending(x, g, w, IF x.arrived THEN x.sendamt ELSE 0)
  BY <1>4 DEF TxGood
<1>7. x.sendamt \in Nat /\ (x.outstanding = <<>> <=> x.sendamt = 0)
  <2>1. x.sendamt \in Nat /\ x.senddata \in Seq(Nat) /\ x.sendamt <= Len(x.senddata)
    BY <1>3, <1>6, SizeAssumption DEF Sockets, Pending
  <2>2. Len(SubSeq(x.senddata, 1, x.sendamt)) = x.sendamt
    BY <2>1
  <2>3. SubSeq(x.senddata, 1, x.sendamt) \in Seq(Nat)
    BY <2>1
  <2>4. x.outstanding = <<>> <=> x.sendamt = 0
    BY <1>6, <2>1, <2>2, <2>3, EmptySeq
  <2> QED BY <2>1, <2>4
<1>8. TxReady(s, ev, g, w)
  <2>1. Pending(s, g, w, IF "acked" \in ev \/ s.arrived THEN s.sendamt ELSE 0)
    BY <1>6 DEF Pending
  <2>2. x.sendamt # 0 => x.sendamt > 0
    BY <1>7
  <2>3. /\ "acked" \in ev => s.sendamt > 0 /\ ~s.arrived /\ s.outstanding = <<>>
        /\ "acked" \notin ev => s.outstanding = SubSeq(s.senddata, 1, s.sendamt)
    BY <1>6, <1>7, <2>2
  <2> QED BY <1>6, <2>1, <2>3 DEF TxReady
<1>9. EventFits(s, ev, n)
  <2>1. /\ "poll" \in ev => s.sendamt = 0
        /\ n > 0 => ~s.stopped
    BY <1>7
  <2> QED BY <1>5, <2>1 DEF EventFits
<1>10. WaitReady(s, call, c)
  BY <1>4 DEF Waits, WaitReady
<1>11. Big(s) /\ carried[c] = 0 => RxReady(s, from, to)
  BY <1>4 DEF RxGood, RxReady, Big, KeepsFifo
<1>12. FifoReady(s, carried[c], from, to)
  BY <1>11 DEF FifoReady
<1>13. s \in Sockets /\ n \in 0 .. MSS /\ memory \in BOOLEAN /\ TypeOK
  BY DEF Inv
<1>14. y = Uip(socket_appcall(s, ev, Run(delivered[c], n), memory), ev)
  OBVIOUS
<1> HIDE DEF y
<1>15. /\ y \in Sockets /\ Link(y) /\ TxGood(y, got[c], wrote[c]) /\ Waits(y, call, c)
       /\ y.alloc = s.alloc
       /\ Big(y) /\ carried[c] = 0 => RxGood(y, lastread[c], delivered[c] + n)
  BY ONLY c \in Conns, <1>8, <1>9, <1>10, <1>12, <1>13, <1>14, Called
<1> HIDE DEF x, g, w, from, to, bytes
<1>16. /\ y \in Sockets /\ Link(y) /\ TxGood(y, g, w) /\ Waits(y, call, c)
       /\ y.alloc = s.alloc
       /\ Big(y) /\ carried[c] = 0 => RxGood(y, from, to + n)
  BY <1>15 DEF g, w, from, to
<1>17. y.alloc = sock[c].alloc
  BY <1>16 DEF KeepsFifo
<1> DEFINE l == IF ~sock[c].alloc THEN delivered[c] ELSE lastread[c]
           m == carried[c]
<1>18. /\ l \in Nat /\ m \in Nat /\ (Big(y) => l = from)
  BY <1>3, <1>17 DEF Big, to, from
<1>19. sock' = [sock EXCEPT ![c] = y] /\ to = delivered[c]
  BY <1>1 DEF y, to
<1>20. /\ lastread' = [lastread EXCEPT ![c] = l] /\ carried' = [carried EXCEPT ![c] = m]
  BY <1>2 DEF Inv, TypeOK
<1>21. \E h \in Seq(Nat), u \in Nat :
         /\ got' = [got EXCEPT ![c] = h] /\ wrote' = [wrote EXCEPT ![c] = u]
         /\ TxGood(y, h, u)
  BY <1>3, <1>16 DEF Inv, TypeOK, g, w
<1> HIDE DEF l
<1>22. Big(y) /\ m = 0 => RxGood(y, l, delivered[c] + n)
  BY <1>16, <1>18, <1>19
<1> HIDE DEF m
<1>23. UNCHANGED Program
  OBVIOUS
<1> QED BY ONLY Inv, c \in Conns, n \in 0 .. MSS, <1>2, <1>16, <1>18, <1>19, <1>20, <1>21, <1>22, <1>23, EventKeeps

LEMMA SegmentKeeps ==
  ASSUME Inv, NEW c \in Conns, Segment(c)
  PROVE  Inv'
<1> DEFINE x == sock[c]
<1>1. PICK ack, fin \in BOOLEAN, n \in 0 .. MSS :
        /\ x.tcp = "established"
        /\ ack => x.outstanding # <<>> /\ x.arrived
        /\ fin \/ n > 0 => ~x.stopped
        /\ Event(c, [x EXCEPT !.tcp = IF fin THEN "closed" ELSE @, !.nrtx = 0,
                               !.outstanding = IF ack THEN <<>> ELSE @,
                               !.arrived = @ /\ ~ack],
                  (IF ack THEN {"acked"} ELSE {}) \cup (IF fin THEN {"closed"} ELSE {})
                    \cup (IF n > 0 THEN {"newdata"} ELSE {}), n)
        /\ UNCHANGED <<Program, got, wrote, opens>>
  BY ZenonT(60) DEF Segment
<1> DEFINE tcp == IF fin THEN "closed" ELSE x.tcp
           out == IF ack THEN <<>> ELSE x.outstanding
           arr == x.arrived /\ ~ack
           s == [x EXCEPT !.tcp = tcp, !.nrtx = 0, !.outstanding = out, !.arrived = arr]
           ev == (IF ack THEN {"acked"} ELSE {}) \cup (IF fin THEN {"closed"} ELSE {})
                   \cup (IF n > 0 THEN {"newdata"} ELSE {})
<1>2. Event(c, s, ev, n)
  BY <1>1
<1>3. x \in Sockets
  BY SlotTypes DEF Inv
<1>4. /\ tcp \in {"closed", "established"} /\ out \in Seq(Nat) /\ arr \in BOOLEAN
      /\ 0 \in 0 .. UIP_MAXRTX
  BY <1>1, <1>3, SizeAssumption DEF Sockets
<1>5. /\ "connected" \notin ev /\ "rexmit" \notin ev /\ "poll" \notin ev
      /\ "newdata" \in ev <=> n > 0
  OBVIOUS
<1>6. ("acked" \in ev <=> ack) /\ ("closed" \in ev <=> fin)
  OBVIOUS
<1>7. /\ tcp = (IF "closed" \in ev THEN "closed" ELSE "established")
      /\ "acked" \in ev => /\ x.outstanding # <<>> /\ x.arrived
                           /\ out = <<>> /\ ~arr
      /\ "acked" \notin ev => out = x.outstanding /\ arr = x.arrived
      /\ n > 0 => ~x.stopped
  <2>1. tcp = (IF "closed" \in ev THEN "closed" ELSE "established")
    BY <1>1, <1>6
  <2>2. "acked" \in ev => /\ x.outstanding # <<>> /\ x.arrived
                         /\ out = <<>> /\ ~arr
    BY <1>1, <1>6
  <2>3. "acked" \notin ev => out = x.outstanding /\ arr = x.arrived
    BY <1>6, <1>3 DEF Sockets
  <2> QED BY <1>1, <2>1, <2>2, <2>3
<1> HIDE DEF tcp, out, arr, ev
<1>8. /\ s \in Sockets /\ s.tcp = tcp /\ s.outstanding = out /\ s.arrived = arr
      /\ KeepsUse(s, x) /\ KeepsFifo(s, x) /\ s.stopped = x.stopped
      /\ s.sending = x.sending /\ s.senddata = x.senddata
      /\ s.sendamt = x.sendamt /\ s.transtimecount = x.transtimecount
  BY <1>3, <1>4 DEF Sockets, KeepsUse, KeepsFifo
<1> HIDE DEF s
<1> QED BY <1>1, <1>2, <1>5, <1>7, <1>8, EstablishedEvent

LEMMA TimerKeeps ==
  ASSUME Inv, NEW c \in Conns, Timer(c)
  PROVE  Inv'
<1> DEFINE x == sock[c]
<1>1. /\ x \in Sockets /\ x.tcp = "established" /\ 0 \in 0 .. MSS
      /\ UNCHANGED <<Program, got, wrote, opens>>
  BY SlotTypes, SizeAssumption DEF Inv, Timer
<1>2. CASE x.outstanding = <<>>
  <2> DEFINE s == [x EXCEPT !.nrtx = 0]
  <2>1. Event(c, s, {"poll"}, 0)
    BY <1>2 DEF Timer
  <2>2. 0 \in 0 .. UIP_MAXRTX
    BY SizeAssumption
  <2>3. /\ s \in Sockets /\ s.tcp = x.tcp /\ s.outstanding = x.outstanding
        /\ s.arrived = x.arrived
        /\ KeepsUse(s, x) /\ KeepsFifo(s, x) /\ s.stopped = x.stopped
        /\ s.sending = x.sending /\ s.senddata = x.senddata
        /\ s.sendamt = x.sendamt /\ s.transtimecount = x.transtimecount
    BY <1>1, <2>2 DEF Sockets, KeepsUse, KeepsFifo
  <2> HIDE DEF s
  <2> QED BY <1>1, <1>2, <2>1, <2>3, EstablishedEvent
<1>3. CASE x.outstanding # <<>> /\ x.nrtx = UIP_MAXRTX
  <2> DEFINE s == [x EXCEPT !.tcp = "closed"]
  <2>1. Event(c, s, {"closed"}, 0)
    BY <1>3 DEF Timer
  <2>2. /\ s \in Sockets /\ s.tcp = "closed" /\ s.outstanding = x.outstanding
        /\ s.arrived = x.arrived
        /\ KeepsUse(s, x) /\ KeepsFifo(s, x) /\ s.stopped = x.stopped
        /\ s.sending = x.sending /\ s.senddata = x.senddata
        /\ s.sendamt = x.sendamt /\ s.transtimecount = x.transtimecount
    BY <1>1 DEF Sockets, KeepsUse, KeepsFifo
  <2> HIDE DEF s
  <2> QED BY <1>1, <2>1, <2>2, EstablishedEvent
<1>4. CASE x.outstanding # <<>> /\ x.nrtx # UIP_MAXRTX
  <2> DEFINE s == [x EXCEPT !.nrtx = x.nrtx + 1]
  <2>1. Event(c, s, {"rexmit"}, 0)
    BY <1>4 DEF Timer
  <2>2. x.nrtx + 1 \in 0 .. UIP_MAXRTX
    BY <1>1, <1>4, SizeAssumption, SMTT(30) DEF Sockets
  <2>3. /\ s \in Sockets /\ s.tcp = x.tcp /\ s.outstanding = x.outstanding
        /\ s.arrived = x.arrived
        /\ KeepsUse(s, x) /\ KeepsFifo(s, x) /\ s.stopped = x.stopped
        /\ s.sending = x.sending /\ s.senddata = x.senddata
        /\ s.sendamt = x.sendamt /\ s.transtimecount = x.transtimecount
    BY <1>1, <2>2 DEF Sockets, KeepsUse, KeepsFifo
  <2> HIDE DEF s
  <2> QED BY <1>1, <2>1, <2>3, EstablishedEvent
<1> QED BY <1>2, <1>3, <1>4

LEMMA PeerEndsKeeps ==
  ASSUME Inv, NEW c \in Conns, PeerEnds(c)
  PROVE  Inv'
<1> DEFINE x == sock[c]
           s == [x EXCEPT !.tcp = "closed"]
           ev == {"closed"}
<1>1. /\ x \in Sockets /\ 0 \in 0 .. MSS
      /\ UNCHANGED <<Program, got, wrote, opens>> /\ Event(c, s, ev, 0)
  BY SlotTypes, SizeAssumption DEF Inv, PeerEnds
<1>2. /\ s \in Sockets /\ s.tcp = "closed" /\ s.outstanding = x.outstanding
      /\ s.arrived = x.arrived
      /\ KeepsUse(s, x) /\ KeepsFifo(s, x) /\ s.stopped = x.stopped
      /\ s.sending = x.sending /\ s.senddata = x.senddata
      /\ s.sendamt = x.sendamt /\ s.transtimecount = x.transtimecount
  BY <1>1 DEF Sockets, KeepsUse, KeepsFifo
<1>3. CASE x.tcp = "established"
  <2> HIDE DEF s
  <2> QED BY <1>1, <1>2, <1>3, EstablishedEvent
<1>4. CASE x.tcp # "established"
  <2>1. PICK memory \in BOOLEAN :
          sock' = [sock EXCEPT ![c] = Uip(socket_appcall(s, ev, Run(delivered[c], 0), memory), ev)]
    BY <1>1 DEF Event, Run
  <2>2. /\ delivered' = [delivered EXCEPT ![c] = delivered[c] + 0] /\ carried' = carried
        /\ lastread' = [lastread EXCEPT ![c] = IF ~sock[c].alloc THEN delivered[c] ELSE @]
    BY <1>1 DEF Event
  <2> DEFINE y == Uip(socket_appcall(s, ev, Run(delivered[c], 0), memory), ev)
             l == IF ~sock[c].alloc THEN delivered[c] ELSE lastread[c]
             m == carried[c]
  <2>3. /\ Link(x) /\ TxGood(x, got[c], wrote[c])
        /\ Big(x) /\ carried[c] = 0 => RxGood(x, lastread[c], delivered[c])
    BY DEF Inv, Slot
  <2>4. /\ l \in Nat /\ m \in Nat /\ got[c] \in Seq(Nat) /\ wrote[c] \in Nat
        /\ delivered[c] \in Nat
    BY SlotTypes DEF Inv
  <2>5. Run(delivered[c], 0) \in Seq(Nat) /\ (~s.alloc => s.buf = <<>>)
    BY <1>2, <2>3, <2>4, RunIs DEF Link, KeepsFifo
  <2> HIDE DEF s
  <2>6. /\ y \in Sockets /\ Link(y) /\ y.tcp = "closed" /\ y.outstanding = <<>>
        /\ y.sending = s.sending
        /\ y.alloc = s.alloc /\ y.fifosize = s.fifosize /\ y.buf = s.buf
    BY <1>2, <2>5, Buried
  <2>7. sock' = [sock EXCEPT ![c] = y] /\ lastread' = [lastread EXCEPT ![c] = l]
    BY <2>1, <2>2
  <2> HIDE DEF y
  <2>8. carried' = [carried EXCEPT ![c] = m]
    BY <2>2 DEF Inv, TypeOK
  <2>9. TxGood(y, got[c], wrote[c])
    BY <1>2, <2>3, <2>6 DEF TxGood
  <2>10. \E g \in Seq(Nat), w \in Nat :
           /\ got' = [got EXCEPT ![c] = g] /\ wrote' = [wrote EXCEPT ![c] = w]
           /\ TxGood(y, g, w)
    BY <1>1, <2>4, <2>9 DEF Inv, TypeOK
  <2>11. Waits(y, call, c)
    BY <2>6 DEF Waits
  <2>12. Big(y) /\ m = 0 => RxGood(y, l, delivered[c] + 0)
    <3>1. delivered[c] + 0 = delivered[c]
      BY <2>4
    <3>2. Big(y) => Big(x) /\ l = lastread[c]
      BY <1>2, <2>6 DEF Big, KeepsFifo
    <3>3. y.buf = x.buf
      BY <1>2, <2>6 DEF KeepsFifo
    <3> QED BY <2>3, <2>6, <3>1, <3>2, <3>3 DEF RxGood
  <2> HIDE DEF l, m
  <2> QED BY ONLY Inv, c \in Conns, <1>1, <2>2, <2>4, <2>6, <2>7, <2>8, <2>10, <2>11, <2>12, EventKeeps
<1> QED BY <1>3, <1>4

(* A connection opens: what both ways have in common.                      *)
LEMMA OpeningKeeps ==
  ASSUME Inv, NEW c \in Conns, NEW s \in Sockets, NEW ev, NEW n \in 0 .. MSS,
         Event(c, s, ev, n), UNCHANGED Program,
         {"connected"} \subseteq ev, ev \subseteq {"connected", "newdata"},
         n > 0 => "newdata" \in ev,
         s.tcp = "established", s.outstanding = <<>>,
         s.alloc = sock[c].alloc, s.buf = sock[c].buf,
         \E g \in Seq(Nat), w \in Nat :
           /\ got' = [got EXCEPT ![c] = g] /\ wrote' = [wrote EXCEPT ![c] = w]
           /\ g = Run(0, Len(g)) /\ Len(g) = w
  PROVE  Inv'
<1> DEFINE x == sock[c]
           to == delivered[c]
           bytes == Run(to, n)
           m == Len(x.buf)
           l == IF ~x.alloc \/ x.buf = <<>> THEN delivered[c] ELSE lastread[c]
<1>1. PICK memory \in BOOLEAN :
        sock' = [sock EXCEPT ![c] = Uip(socket_appcall(s, ev, bytes, memory), ev)]
  BY DEF Event, Run
<1>2. "connected" \in ev
  OBVIOUS
<1>3. /\ delivered' = [delivered EXCEPT ![c] = delivered[c] + n]
      /\ carried' = [carried EXCEPT ![c] = m]
      /\ lastread' = [lastread EXCEPT ![c] = l]
  BY <1>2 DEF Event
<1>4. PICK g \in Seq(Nat), w \in Nat :
        /\ got' = [got EXCEPT ![c] = g] /\ wrote' = [wrote EXCEPT ![c] = w]
        /\ g = Run(0, Len(g)) /\ Len(g) = w
  OBVIOUS
<1>5. /\ x \in Sockets /\ acceptlen \in Nat /\ to \in Nat /\ l \in Nat /\ Link(x)
  BY SlotTypes DEF Inv, Slot
<1>6. m \in Nat /\ (m = 0 => x.buf = <<>>) /\ (~s.alloc => s.buf = <<>>)
  <2>1. x.buf \in Seq(Nat)
    BY <1>5 DEF Sockets
  <2> QED BY <1>5, <2>1, EmptySeq DEF Link
<1> DEFINE y == Uip(socket_appcall(s, ev, bytes, memory), ev)
<1>7. /\ y = Uip(socket_appcall(s, ev, Run(delivered[c], n), memory), ev)
      /\ TypeOK /\ c \in Conns
  BY DEF Inv
<1>8. /\ s \in Sockets /\ memory \in BOOLEAN /\ n \in 0 .. MSS
      /\ {"connected"} \subseteq ev /\ ev \subseteq {"connected", "newdata"}
      /\ n > 0 => "newdata" \in ev
      /\ s.tcp = "established" /\ s.outstanding = <<>>
  OBVIOUS
<1> HIDE DEF x, to, bytes, y, m, l
<1>9. /\ y \in Sockets /\ Link(y) /\ TxGood(y, g, w) /\ Waits(y, call, c)
      /\ s.alloc => y.alloc
      /\ Big(y) /\ s.buf = <<>> => RxGood(y, delivered[c], delivered[c] + n)
  <2>1. Whole(g) /\ w = Len(g)
    BY <1>4 DEF Whole
  <2>2. OpeningFits(s, ev, n)
    BY <1>2, <1>6, <1>8 DEF OpeningFits
  <2>3. /\ y \in Sockets /\ Link(y) /\ TxGood(y, g, Len(g)) /\ Waits(y, call, c)
        /\ s.alloc => y.alloc
        /\ Big(y) /\ s.buf = <<>> => RxGood(y, delivered[c], delivered[c] + n)
    BY ONLY s \in Sockets, memory \in BOOLEAN, n \in 0 .. MSS, <1>7, <2>1, <2>2, Begun
  <2> QED BY <2>1, <2>3
<1>10. Big(y) /\ m = 0 => RxGood(y, l, delivered[c] + n)
  <2>1. m = 0 => s.buf = <<>> /\ l = to
    BY <1>6 DEF x, l, to
  <2>2. to = delivered[c]
    BY DEF to
  <2> QED BY <1>9, <2>1, <2>2
<1>11. \E h \in Seq(Nat), u \in Nat :
         /\ got' = [got EXCEPT ![c] = h] /\ wrote' = [wrote EXCEPT ![c] = u]
         /\ TxGood(y, h, u)
  BY <1>4, <1>9
<1>12. sock' = [sock EXCEPT ![c] = y] /\ UNCHANGED Program
  BY <1>1 DEF y
<1> QED BY ONLY Inv, c \in Conns, <1>3, <1>5, <1>6, <1>8, <1>9, <1>10, <1>11, <1>12, EventKeeps

LEMMA FreshIs ==
  ASSUME TypeOK, NEW c \in Conns, NEW state \in {"syn", "established"}, NEW passive \in BOOLEAN,
         NEW s, s = Fresh(c, state, passive)
  PROVE  /\ s \in Sockets /\ s.tcp = state /\ s.outstanding = <<>>
         /\ s.alloc = sock[c].alloc /\ s.buf = sock[c].buf
<1>1. sock[c] \in Sockets /\ <<>> \in Seq(Nat) /\ 0 \in 0 .. UIP_MAXRTX
  BY SlotTypes, SizeAssumption
<1>2. s = [sock[c] EXCEPT !.tcp = state, !.passive = passive, !.nrtx = 0,
                          !.outstanding = <<>>, !.arrived = FALSE]
  BY DEF Fresh
<1>3. s \in Sockets
  BY <1>1, <1>2 DEF Sockets
<1> QED BY <1>1, <1>2, <1>3 DEF Sockets

LEMMA PeerConnectsKeeps ==
  ASSUME Inv, NEW c \in Conns, PeerConnects(c)
  PROVE  Inv'
<1> DEFINE s == Fresh(c, "established", TRUE)
<1>1. PICK n \in 0 .. MSS :
        Event(c, s, {"connected"} \cup (IF n > 0 THEN {"newdata"} ELSE {}), n)
  BY DEF PeerConnects
<1> DEFINE ev == {"connected"} \cup (IF n > 0 THEN {"newdata"} ELSE {})
<1>2. /\ s \in Sockets /\ s.tcp = "established" /\ s.outstanding = <<>>
      /\ s.alloc = sock[c].alloc /\ s.buf = sock[c].buf
  <2>1. TypeOK /\ "established" \in {"syn", "established"} /\ TRUE \in BOOLEAN
    BY DEF Inv
  <2> QED BY <2>1, FreshIs
<1>3. /\ {"connected"} \subseteq ev /\ ev \subseteq {"connected", "newdata"}
      /\ n > 0 => "newdata" \in ev
  OBVIOUS
<1>4. Event(c, s, ev, n) /\ UNCHANGED Program /\ n \in 0 .. MSS
  BY <1>1 DEF PeerConnects
<1>5. \E g \in Seq(Nat), w \in Nat :
        /\ got' = [got EXCEPT ![c] = g] /\ wrote' = [wrote EXCEPT ![c] = w]
        /\ g = Run(0, Len(g)) /\ Len(g) = w
  <2>1. /\ got' = [got EXCEPT ![c] = <<>>] /\ wrote' = [wrote EXCEPT ![c] = 0]
    BY DEF PeerConnects, NewConnection
  <2>2. <<>> \in Seq(Nat) /\ Len(<<>>) = 0 /\ <<>> = Run(0, 0)
    BY RunOfNone
  <2> QED BY <2>1, <2>2
<1> HIDE DEF s, ev
<1> QED BY ONLY Inv, c \in Conns, <1>2, <1>3, <1>4, <1>5, OpeningKeeps

LEMMA PeerAnswersKeeps ==
  ASSUME Inv, NEW c \in Conns, PeerAnswers(c)
  PROVE  Inv'
<1> DEFINE s == Fresh(c, "established", FALSE)
           ev == {"connected", "newdata"}
<1>1. /\ s \in Sockets /\ s.tcp = "established" /\ s.outstanding = <<>>
      /\ s.alloc = sock[c].alloc /\ s.buf = sock[c].buf
  <2>1. TypeOK /\ "established" \in {"syn", "established"} /\ FALSE \in BOOLEAN
    BY DEF Inv
  <2> QED BY <2>1, FreshIs
<1>2. /\ {"connected"} \subseteq ev /\ ev \subseteq {"connected", "newdata"}
      /\ 0 > 0 => "newdata" \in ev
  OBVIOUS
<1>3. Event(c, s, ev, 0) /\ UNCHANGED Program /\ 0 \in 0 .. MSS
  <2>1. 0 \in 0 .. MSS
    BY SizeAssumption
  <2>2. Event(c, s, ev, 0) /\ UNCHANGED <<Program, got, wrote, opens>>
    BY DEF PeerAnswers
  <2> HIDE DEF s, ev
  <2> QED BY <2>1, <2>2
<1>4. /\ got[c] \in Seq(Nat) /\ wrote[c] \in Nat
      /\ got[c] = Run(0, Len(got[c])) /\ Len(got[c]) = wrote[c]
  <2>1. sock[c].tcp = "syn"
    BY DEF PeerAnswers
  <2> QED BY <2>1, SlotTypes DEF Inv, Slot, Link, TxGood
<1>5. \E g \in Seq(Nat), w \in Nat :
        /\ got' = [got EXCEPT ![c] = g] /\ wrote' = [wrote EXCEPT ![c] = w]
        /\ g = Run(0, Len(g)) /\ Len(g) = w
  <2>1. got' = [got EXCEPT ![c] = got[c]] /\ wrote' = [wrote EXCEPT ![c] = wrote[c]]
    BY DEF PeerAnswers, Inv, TypeOK
  <2> QED BY <1>4, <2>1
<1> HIDE DEF s, ev
<1> QED BY ONLY Inv, c \in Conns, <1>1, <1>2, <1>3, <1>5, OpeningKeeps

LEMMA PeerGetsKeeps ==
  ASSUME Inv, NEW c \in Conns, PeerGets(c)
  PROVE  Inv'
<1> DEFINE x == sock[c]
           y == [x EXCEPT !.arrived = TRUE]
           g == got[c]
           w == wrote[c]
           h == g \o x.outstanding
<1>1. /\ x.outstanding # <<>> /\ ~x.arrived
      /\ sock' = [sock EXCEPT ![c].arrived = TRUE]
      /\ got' = [got EXCEPT ![c] = h]
      /\ UNCHANGED <<Program, opens, carried, delivered, lastread, wrote>>
  BY DEF PeerGets
<1>2. /\ x \in Sockets /\ g \in Seq(Nat) /\ Len(g) \in Nat /\ w \in Nat
      /\ delivered[c] \in Nat /\ lastread[c] \in Nat /\ carried[c] \in Nat
  BY SlotTypes DEF Inv
<1>3. /\ Link(x) /\ TxGood(x, g, w) /\ Waits(x, call, c)
      /\ Big(x) /\ carried[c] = 0 => RxGood(x, lastread[c], delivered[c])
  BY DEF Inv, Slot
<1>4. /\ y \in Sockets /\ y.arrived /\ y.tcp = x.tcp /\ y.outstanding = x.outstanding
      /\ y.sending = x.sending /\ y.senddata = x.senddata /\ y.sendamt = x.sendamt
      /\ y.transtimecount = x.transtimecount /\ y.stopped = x.stopped
      /\ KeepsUse(y, x) /\ KeepsFifo(y, x)
  BY <1>2 DEF Sockets, KeepsUse, KeepsFifo
<1>5. sock' = [sock EXCEPT ![c] = y]
  BY <1>1
<1> HIDE DEF y
<1> DEFINE k == Len(x.senddata)
           a == x.sendamt
           e == w - k
<1>6. /\ x.tcp = "established" /\ g = Run(0, Len(g)) /\ Len(g) <= w
      /\ x.outstanding = SubSeq(x.senddata, 1, a)
      /\ ~x.sending => x.senddata = <<>>
      /\ k <= w /\ x.senddata = Run(e, k) /\ a <= k /\ Len(g) = e
  BY <1>1, <1>2, <1>3 DEF TxGood, Pending
<1>7. k \in Nat /\ a \in 0 .. k /\ e \in Nat /\ e + a <= w
  <2>1. a \in Nat /\ x.senddata \in Seq(Nat)
    BY <1>2, SizeAssumption, SMTT(30) DEF Sockets
  <2>2. k \in Nat
    BY <2>1
  <2> HIDE DEF k, a, w
  <2> QED BY <1>2, <1>6, <2>1, <2>2
<1> HIDE DEF e, k
<1>8. x.outstanding = Run(e, a) /\ a # 0
  <2>1. SubSeq(Run(e, k), 1, a) = Run(e, a)
    BY <1>7, RunPart
  <2> QED BY <1>1, <1>6, <1>7, <2>1, RunOfNone
<1>9. h = Run(0, e + a) /\ h \in Seq(Nat) /\ Len(h) = e + a
  <2>1. 0 \in Nat /\ a \in Nat /\ 0 + e = e
    BY <1>7
  <2>2. Run(0, e) \o Run(0 + e, a) = Run(0, e + a)
    BY ONLY <1>7, <2>1, RunJoin
  <2>3. h = Run(0, e + a)
    BY <1>6, <1>8, <2>1, <2>2
  <2>4. e + a \in Nat
    BY <1>7
  <2> HIDE DEF h, a
  <2> QED BY <2>1, <2>3, <2>4, RunIs
<1>10. TxGood(y, h, w)
  <2>1. x.sending
    <3>1. x.senddata # <<>>
      BY <1>6, <1>7, <1>8 DEF k
    <3> QED BY <1>6, <3>1
  <2>2. Pending(y, h, w, y.sendamt)
    BY <1>4, <1>6, <1>9 DEF Pending, e, k
  <2> HIDE DEF h
  <2> QED BY <1>4, <1>6, <1>7, <1>9, <2>1, <2>2 DEF TxGood
<1>11. Link(y) /\ Waits(y, call, c)
  BY <1>3, <1>4 DEF Link, Waits, KeepsUse, KeepsFifo
<1>12. Big(y) /\ carried[c] = 0 => RxGood(y, lastread[c], delivered[c] + 0)
  BY <1>2, <1>3, <1>4 DEF Big, RxGood, KeepsFifo
<1>13. /\ delivered' = [delivered EXCEPT ![c] = delivered[c] + 0]
       /\ carried' = [carried EXCEPT ![c] = carried[c]]
       /\ lastread' = [lastread EXCEPT ![c] = lastread[c]]
       /\ UNCHANGED Program /\ 0 \in 0 .. MSS
  BY <1>1, <1>2, SizeAssumption DEF Inv, TypeOK
<1>14. \E j \in Seq(Nat), u \in Nat :
         /\ got' = [got EXCEPT ![c] = j] /\ wrote' = [wrote EXCEPT ![c] = u]
         /\ TxGood(y, j, u)
  <2>1. wrote' = [wrote EXCEPT ![c] = w]
    BY <1>1 DEF Inv, TypeOK
  <2> HIDE DEF h, w
  <2> QED BY <1>1, <1>2, <1>9, <1>10, <2>1
<1> QED BY ONLY Inv, c \in Conns, <1>2, <1>4, <1>5, <1>11, <1>12, <1>13, <1>14, EventKeeps

(* A command leaves uIP's part and the bytes received and sent alone.      *)
LEMMA SlotsKeep ==
  ASSUME Inv, sock' \in [Conns -> Sockets], call' \in Calls, owned' \subseteq Conns,
         acceptlen' \in BufLens \cup {1}, listening' \in BOOLEAN,
         UNCHANGED <<carried, delivered, lastread, got, wrote>>,
         \A d \in Conns :
           /\ Link(sock'[d]) /\ KeepsTx(sock'[d], sock[d]) /\ sock'[d].stopped = sock[d].stopped
           /\ sock'[d].recvthr = sock[d].recvthr
           /\ Big(sock'[d]) => Big(sock[d]) /\ sock'[d].buf = sock[d].buf
                               /\ sock'[d].fifosize = sock[d].fifosize
           /\ Waits(sock[d], call', d)
  PROVE  Inv'
<1>1. TypeOK'
  BY DEF Inv, TypeOK
<1>2. ASSUME NEW d \in Conns
      PROVE  Slot(d)'
  <2> DEFINE x == sock[d]
             y == sock'[d]
  <2>1. /\ Link(y) /\ KeepsTx(y, x) /\ y.stopped = x.stopped /\ y.recvthr = x.recvthr
        /\ Big(y) => Big(x) /\ y.buf = x.buf /\ y.fifosize = x.fifosize
        /\ Waits(x, call', d)
    OBVIOUS
  <2>2. /\ TxGood(x, got[d], wrote[d])
        /\ Big(x) /\ carried[d] = 0 => RxGood(x, lastread[d], delivered[d])
    BY DEF Inv, Slot
  <2>3. /\ got'[d] = got[d] /\ wrote'[d] = wrote[d] /\ carried'[d] = carried[d]
        /\ lastread'[d] = lastread[d] /\ delivered'[d] = delivered[d]
    OBVIOUS
  <2> HIDE DEF x, y
  <2>4. Waits(y, call', d)
    BY <2>1 DEF KeepsTx, Waits
  <2>5. TxGood(y, got[d], wrote[d])
    BY <2>1, <2>2 DEF KeepsTx, TxGood, Pending
  <2>6. Big(y) /\ carried[d] = 0 => RxGood(y, lastread[d], delivered[d])
    BY <2>1, <2>2 DEF KeepsTx, RxGood
  <2> QED BY <2>1, <2>3, <2>4, <2>5, <2>6 DEF Slot, y
<1> QED BY <1>1, <1>2 DEF Inv

(* Between two writes nothing waits.                                       *)
LEMMA AnyCall ==
  ASSUME Inv, NEW d \in Conns, call.op # "write"
  PROVE  \A cl : Waits(sock[d], cl, d)
<1>1. Waits(sock[d], call, d)
  BY DEF Inv, Slot
<1> QED BY <1>1 DEF Waits

LEMMA IdleIsNoWrite == call = Idle => call.op # "write"
BY DEF Idle

LEMMA FinWait2Keeps ==
  ASSUME Inv, NEW c \in Conns, FinWait2Expires(c)
  PROVE  Inv'
<1> DEFINE x == sock[c]
           y == [x EXCEPT !.tcp = "closed"]
<1>1. /\ x.tcp = "closing" /\ sock' = [sock EXCEPT ![c] = y]
      /\ UNCHANGED <<Program, carried, delivered, lastread, got, wrote>>
  BY DEF FinWait2Expires, history
<1>2. /\ x \in Sockets /\ got[c] \in Seq(Nat) /\ wrote[c] \in Nat
      /\ delivered[c] \in Nat /\ lastread[c] \in Nat /\ carried[c] \in Nat
  BY SlotTypes DEF Inv
<1>3. /\ Link(x) /\ TxGood(x, got[c], wrote[c])
      /\ Big(x) /\ carried[c] = 0 => RxGood(x, lastread[c], delivered[c])
  BY DEF Inv, Slot
<1>4. /\ y \in Sockets /\ y.tcp = "closed" /\ y.outstanding = x.outstanding
      /\ y.sending = x.sending /\ KeepsUse(y, x) /\ KeepsFifo(y, x)
  BY <1>2 DEF Sockets, KeepsUse, KeepsFifo
<1> HIDE DEF y
<1>5. TxGood(y, got[c], wrote[c])
  BY <1>1, <1>3, <1>4 DEF TxGood
<1>6. Link(y) /\ Waits(y, call, c)
  BY <1>3, <1>4 DEF Link, Waits, KeepsFifo
<1>7. Big(y) /\ carried[c] = 0 => RxGood(y, lastread[c], delivered[c] + 0)
  BY <1>2, <1>3, <1>4 DEF Big, RxGood, KeepsFifo
<1>8. /\ delivered' = [delivered EXCEPT ![c] = delivered[c] + 0]
      /\ carried' = [carried EXCEPT ![c] = carried[c]]
      /\ lastread' = [lastread EXCEPT ![c] = lastread[c]]
      /\ UNCHANGED Program /\ 0 \in 0 .. MSS
  BY <1>1, <1>2, SizeAssumption DEF Inv, TypeOK
<1>9. \E j \in Seq(Nat), u \in Nat :
         /\ got' = [got EXCEPT ![c] = j] /\ wrote' = [wrote EXCEPT ![c] = u]
         /\ TxGood(y, j, u)
  BY <1>1, <1>2, <1>5 DEF Inv, TypeOK
<1> QED BY ONLY Inv, c \in Conns, <1>1, <1>2, <1>4, <1>6, <1>7, <1>8, <1>9, EventKeeps, ZenonT(60)

-----------------------------------------------------------------------------
(* The BASIC commands                                                      *)

LEMMA SlotsAsTheyAre ==
  ASSUME Inv, UNCHANGED <<sock, carried, delivered, lastread, got, wrote>>,
         call' \in Calls, owned' \subseteq Conns,
         acceptlen' \in BufLens \cup {1}, listening' \in BOOLEAN,
         \A d \in Conns : Waits(sock[d], call', d)
  PROVE  Inv'
<1>1. sock' \in [Conns -> Sockets]
  BY DEF Inv, TypeOK
<1>2. \A d \in Conns :
        /\ Link(sock'[d]) /\ KeepsTx(sock'[d], sock[d]) /\ sock'[d].stopped = sock[d].stopped
        /\ sock'[d].recvthr = sock[d].recvthr
        /\ Big(sock'[d]) => Big(sock[d]) /\ sock'[d].buf = sock[d].buf
                            /\ sock'[d].fifosize = sock[d].fifosize
        /\ Waits(sock[d], call', d)
  BY DEF Inv, Slot, KeepsTx
<1> QED BY <1>1, <1>2, SlotsKeep

LEMMA CallsAre ==
  /\ Idle \in Calls /\ [op |-> "accept"] \in Calls
  /\ \A c \in Conns : [op |-> "write", conn |-> c] \in Calls
  /\ \A c \in Conns, n \in Nat \ {0}, e \in {"none", "byte", "now"} :
       [op |-> "read", conn |-> c, left |-> n, endchar |-> e] \in Calls
BY DEF Calls

LEMMA CallIsWrite ==
  ASSUME call \in Calls
  PROVE  /\ call.op = "write" => call.conn \in Conns /\ call = [op |-> "write", conn |-> call.conn]
         /\ call.op = "read" =>
              /\ call.conn \in Conns /\ call.left \in Nat \ {0}
              /\ call \in [op : {"read"}, conn : Conns, left : Nat \ {0},
                           endchar : {"none", "byte", "now"}]
BY DEF Calls, Idle

LEMMA AcceptStartsKeeps == ASSUME Inv, AcceptStarts PROVE Inv'
<1>1. \A d \in Conns : Waits(sock[d], call', d)
  BY AnyCall, IdleIsNoWrite DEF AcceptStarts
<1>2. call' \in Calls /\ owned' \subseteq Conns /\ acceptlen' \in BufLens \cup {1}
      /\ listening' \in BOOLEAN
  BY CallsAre DEF AcceptStarts, Inv, TypeOK
<1> QED BY <1>1, <1>2, SlotsAsTheyAre DEF AcceptStarts, history

LEMMA ReadStartsKeeps == ASSUME Inv, NEW c \in Conns, ReadStarts(c) PROVE Inv'
<1>1. \A d \in Conns : Waits(sock[d], call', d)
  BY AnyCall, IdleIsNoWrite DEF ReadStarts
<1>2. call' \in Calls
  BY CallsAre, SizeAssumption DEF ReadStarts
<1>3. owned' \subseteq Conns /\ acceptlen' \in BufLens \cup {1} /\ listening' \in BOOLEAN
  BY DEF ReadStarts, Inv, TypeOK
<1> QED BY <1>1, <1>2, <1>3, SlotsAsTheyAre DEF ReadStarts, history

(* A write returns when all is sent, or the connection is gone, or polls   *)
(* found nothing to send.                                                  *)
LEMMA WriteKeeps == ASSUME Inv, socket_write PROVE Inv'
<1>1. /\ call.op = "write" /\ call.conn \in Conns /\ call = [op |-> "write", conn |-> call.conn]
  BY CallIsWrite DEF socket_write, Inv, TypeOK
<1>2. ASSUME NEW d \in Conns
      PROVE  Waits(sock[d], call', d)
  <2> DEFINE s == sock[d]
  <2>1. /\ Link(s) /\ TxGood(s, got[d], wrote[d]) /\ Waits(s, call, d)
    BY DEF Inv, Slot
  <2>2. SUFFICES ASSUME s.tcp = "established", s.senddata # <<>>
                 PROVE  FALSE
    BY DEF Waits
  <2>3. s.transtimecount = 0 /\ call.conn = d
    BY <1>1, <2>1, <2>2 DEF Waits
  <2>4. s.sending /\ get_sock(d)
    BY <2>1, <2>2 DEF TxGood, Pending, Link, get_sock
  <2>5. ~(s.transtimecount >= TRANS_TIMEOUT)
    BY <2>3, SizeAssumption
  <2> QED BY <2>3, <2>4, <2>5 DEF socket_write
<1>3. /\ call' \in Calls /\ owned' \subseteq Conns /\ acceptlen' \in BufLens \cup {1}
      /\ listening' \in BOOLEAN
  BY CallsAre DEF socket_write, Inv, TypeOK
<1> QED BY <1>2, <1>3, SlotsAsTheyAre DEF socket_write, history

LEMMA SmallestSlot ==
  ASSUME NEW S, S \subseteq Nat, S # {}
  PROVE  LET m == CHOOSE x \in S : \A y \in S : x <= y
         IN  m \in S /\ \A y \in S : m <= y
<1> DEFINE R == OpToRel(<, Nat)
<1>1. IsWellFoundedOn(R, Nat)
  BY NatLessThanWellFounded
<1>2. \A x, y \in Nat : y < x => <<y, x>> \in R
  BY DEF OpToRel
<1> HIDE DEF R
<1>3. \E x \in S : \A y \in S : ~(<<y, x>> \in R)
  BY ONLY S \subseteq Nat, S # {}, <1>1, WFMin
<1>4. PICK x \in S : \A y \in S : ~(<<y, x>> \in R)
  BY <1>3
<1>5. ASSUME NEW y \in S
      PROVE  x <= y
  <2>1. x \in Nat /\ y \in Nat /\ ~(<<y, x>> \in R)
    BY <1>4
  <2>2. ~(y < x)
    BY <1>2, <2>1
  <2> QED BY <2>1, <2>2
<1> QED BY <1>5

LEMMA AcceptKeeps == ASSUME Inv, socket_accept PROVE Inv'
<1>1. /\ call' = Idle /\ call.op # "write"
      /\ UNCHANGED <<acceptlen, listening, carried, delivered, lastread, got, wrote>>
  BY DEF socket_accept, history
<1>2. /\ call' \in Calls /\ acceptlen' \in BufLens \cup {1} /\ listening' \in BOOLEAN
  BY <1>1, CallsAre DEF Inv, TypeOK
<1>3. \A d \in Conns : Waits(sock[d], call', d)
  BY <1>1, AnyCall
<1>4. CASE Acceptable = {}
  <2>1. UNCHANGED <<sock, owned>>
    BY <1>4 DEF socket_accept
  <2>2. owned' \subseteq Conns
    BY <2>1 DEF Inv, TypeOK
  <2> QED BY <1>1, <1>2, <1>3, <2>1, <2>2, SlotsAsTheyAre
<1>5. CASE Acceptable # {}
  <2> DEFINE c == CHOOSE x \in Acceptable : \A y \in Acceptable : x <= y
             s == [sock[c] EXCEPT !.accepted = TRUE]
  <2>1. sock' = [sock EXCEPT ![c] = s] /\ owned' = owned \cup {c}
    BY <1>5 DEF socket_accept
  <2>2. c \in Conns
    BY <1>5, SizeAssumption, SmallestSlot DEF Acceptable
  <2> HIDE DEF c
  <2>3. sock[c] \in Sockets /\ Link(sock[c])
    BY <2>2, SlotTypes DEF Inv, Slot
  <2>4. /\ s \in Sockets /\ KeepsTx(s, sock[c]) /\ KeepsFifo(s, sock[c]) /\ KeepsUse(s, sock[c])
        /\ s.stopped = sock[c].stopped
    BY <2>3 DEF Sockets, KeepsTx, KeepsFifo, KeepsUse
  <2> HIDE DEF s
  <2>5. Link(s)
    BY <2>3, <2>4 DEF Link, KeepsTx, KeepsFifo, KeepsUse
  <2>6. sock' \in [Conns -> Sockets] /\ owned' \subseteq Conns
    BY <2>1, <2>2, <2>4 DEF Inv, TypeOK
  <2>7. ASSUME NEW d \in Conns
        PROVE  /\ Link(sock'[d]) /\ KeepsTx(sock'[d], sock[d]) /\ sock'[d].stopped = sock[d].stopped
               /\ sock'[d].recvthr = sock[d].recvthr
               /\ Big(sock'[d]) => Big(sock[d]) /\ sock'[d].buf = sock[d].buf
                                   /\ sock'[d].fifosize = sock[d].fifosize
    <3>1. CASE d = c
      <4>1. sock'[d] = s
        BY <2>1, <2>2, <3>1 DEF Inv, TypeOK
      <4> QED BY <2>4, <2>5, <3>1, <4>1 DEF KeepsFifo, Big
    <3>2. CASE d # c
      <4>1. sock'[d] = sock[d]
        BY <2>1, <2>2, <3>2 DEF Inv, TypeOK
      <4> QED BY <4>1 DEF Inv, Slot, KeepsTx
    <3> QED BY <3>1, <3>2
  <2> QED BY <1>1, <1>2, <1>3, <2>6, <2>7, SlotsKeep
<1> QED BY <1>4, <1>5

(* A FIFO that is freed is no longer claimed anything of.                  *)
LEMMA FreedIs ==
  ASSUME NEW s \in Sockets, Link(s), NEW b \in BOOLEAN, NEW r,
         r = freesocketfifo(s) \/ r = [freesocketfifo(s) EXCEPT !.closesock = b]
  PROVE  /\ r \in Sockets /\ KeepsTx(r, s) /\ Link(r) /\ r.stopped = s.stopped
         /\ r.recvthr = s.recvthr /\ ~Big(r)
<1> DEFINE f == freesocketfifo(s)
<1>1. /\ f \in Sockets /\ KeepsTx(f, s) /\ KeepsUse(f, s) /\ f.stopped = s.stopped
      /\ f.recvthr = s.recvthr /\ ~f.alloc /\ f.buf = <<>>
  <2>1. f = [s EXCEPT !.alloc = FALSE, !.buf = <<>>] /\ <<>> \in Seq(Nat)
    BY DEF freesocketfifo
  <2> HIDE DEF f
  <2> QED BY <2>1 DEF Sockets, KeepsTx, KeepsUse
<1> HIDE DEF f
<1>2. r = f \/ r = [f EXCEPT !.closesock = b]
  BY DEF f
<1>3. /\ r \in Sockets /\ KeepsTx(r, f) /\ KeepsUse(r, f) /\ r.stopped = f.stopped
      /\ r.recvthr = f.recvthr /\ ~r.alloc /\ r.buf = <<>>
  BY <1>1, <1>2 DEF Sockets, KeepsTx, KeepsUse
<1> QED BY <1>1, <1>3 DEF Big, Link, KeepsTx, KeepsUse

LEMMA CloseKeeps == ASSUME Inv, NEW c \in Conns, socket_close(c) PROVE Inv'
<1> DEFINE s == sock[c]
           b == s.closesock \/ get_sock(c)
           y == [freesocketfifo(s) EXCEPT !.closesock = b]
<1>1. /\ call = Idle /\ sock' = [sock EXCEPT ![c] = y] /\ owned' = owned \ {c}
      /\ UNCHANGED <<acceptlen, listening, call, carried, delivered, lastread, got, wrote>>
  <2>1. /\ call = Idle /\ owned' = owned \ {c}
        /\ UNCHANGED <<acceptlen, listening, call, carried, delivered, lastread, got, wrote>>
    BY DEF socket_close, history
  <2>2. sock' = [sock EXCEPT ![c] = y]
    BY DEF socket_close
  <2> HIDE DEF y
  <2> QED BY <2>1, <2>2
<1>2. s \in Sockets /\ Link(s)
  BY SlotTypes DEF Inv, Slot
<1>3. b \in BOOLEAN
  BY <1>2 DEF Sockets, freesocketfifo, get_sock
<1> HIDE DEF b
<1>4. /\ y \in Sockets /\ KeepsTx(y, s) /\ Link(y) /\ y.stopped = s.stopped
      /\ y.recvthr = s.recvthr /\ ~Big(y)
  <2>1. y = freesocketfifo(s) \/ y = [freesocketfifo(s) EXCEPT !.closesock = b]
    OBVIOUS
  <2> HIDE DEF y, s
  <2> QED BY ONLY <1>2, <1>3, <2>1, FreedIs
<1> HIDE DEF y
<1>5. /\ sock' \in [Conns -> Sockets] /\ call' \in Calls /\ owned' \subseteq Conns
      /\ acceptlen' \in BufLens \cup {1} /\ listening' \in BOOLEAN
  BY <1>1, <1>4 DEF Inv, TypeOK
<1>6. ASSUME NEW d \in Conns
      PROVE  /\ Link(sock'[d]) /\ KeepsTx(sock'[d], sock[d]) /\ sock'[d].stopped = sock[d].stopped
             /\ sock'[d].recvthr = sock[d].recvthr
             /\ Big(sock'[d]) => Big(sock[d]) /\ sock'[d].buf = sock[d].buf
                                 /\ sock'[d].fifosize = sock[d].fifosize
             /\ Waits(sock[d], call', d)
  <2>1. Waits(sock[d], call', d)
    BY <1>1, AnyCall, IdleIsNoWrite
  <2>2. CASE d = c
    <3>1. sock'[d] = y
      BY <1>1, <2>2 DEF Inv, TypeOK
    <3> QED BY <1>4, <2>1, <2>2, <3>1
  <2>3. CASE d # c
    <3>1. sock'[d] = sock[d]
      BY <1>1, <2>3 DEF Inv, TypeOK
    <3> QED BY <2>1, <3>1 DEF Inv, Slot, KeepsTx
  <2> QED BY <2>2, <2>3
<1> QED BY <1>1, <1>5, <1>6, SlotsKeep

LEMMA FreeKeeps == ASSUME Inv, socket_free PROVE Inv'
<1>1. /\ call = Idle /\ sock' = [c \in Conns |-> freesocketfifo(sock[c])] /\ owned' = {}
      /\ UNCHANGED <<acceptlen, listening, call, carried, delivered, lastread, got, wrote>>
  BY DEF socket_free, history
<1>2. ASSUME NEW d \in Conns
      PROVE  /\ sock'[d] \in Sockets /\ Link(sock'[d]) /\ KeepsTx(sock'[d], sock[d])
             /\ sock'[d].stopped = sock[d].stopped /\ sock'[d].recvthr = sock[d].recvthr
             /\ ~Big(sock'[d]) /\ Waits(sock[d], call', d)
  <2>1. sock[d] \in Sockets /\ Link(sock[d])
    BY SlotTypes DEF Inv, Slot
  <2>2. sock'[d] = freesocketfifo(sock[d])
    BY <1>1
  <2>3. Waits(sock[d], call', d)
    BY <1>1, AnyCall, IdleIsNoWrite
  <2>4. /\ sock'[d] \in Sockets /\ KeepsTx(sock'[d], sock[d]) /\ Link(sock'[d])
        /\ sock'[d].stopped = sock[d].stopped
        /\ sock'[d].recvthr = sock[d].recvthr /\ ~Big(sock'[d])
    BY <2>1, <2>2, FreedIs
  <2> QED BY <2>3, <2>4
<1>3. sock' \in [Conns -> Sockets]
  <2>1. sock' = [c \in Conns |-> sock'[c]]
    BY <1>1
  <2> QED BY <1>2, <2>1
<1>4. /\ call' \in Calls /\ owned' \subseteq Conns
      /\ acceptlen' \in BufLens \cup {1} /\ listening' \in BOOLEAN
  BY <1>1 DEF Inv, TypeOK
<1> QED BY <1>1, <1>2, <1>3, <1>4, SlotsKeep

(* Nothing was received or sent on a connection that is only asked for.    *)
LEMMA ConnectKeeps == ASSUME Inv, NEW c \in Conns, socket_connect(c) PROVE Inv'
<1> DEFINE s == Fresh(c, "syn", FALSE)
           z == init_socket_conn(s)
<1>1. PICK len \in BufLens, memory \in BOOLEAN :
        sock' = [sock EXCEPT ![c] = initsocketfifo(z, len, memory)]
  BY DEF socket_connect
<1> DEFINE y == initsocketfifo(z, len, memory)
<1>2. /\ s \in Sockets /\ s.tcp = "syn" /\ s.outstanding = <<>>
  <2>1. TypeOK /\ "syn" \in {"syn", "established"} /\ FALSE \in BOOLEAN
    BY DEF Inv
  <2> QED BY <2>1, FreshIs
<1> HIDE DEF s
<1>3. /\ z \in Sockets /\ z.tcp = "syn" /\ z.outstanding = <<>>
      /\ ~z.connected /\ ~z.sending
  <2>1. 0 \in 0 .. MSS /\ <<>> \in Seq(Nat) /\ 0 \in Nat
    BY SizeAssumption
  <2> QED BY <1>2, <2>1 DEF Sockets, init_socket_conn
<1> HIDE DEF z
<1>4. len \in Nat /\ <<>> \in Seq(Nat)
  BY SizeAssumption
<1>5. /\ y \in Sockets /\ y.tcp = "syn" /\ y.outstanding = <<>>
      /\ ~y.connected /\ ~y.sending /\ y.buf = <<>>
  BY <1>3, <1>4 DEF Sockets, initsocketfifo, freesocketfifo
<1> HIDE DEF y
<1>6. Link(y) /\ \A cl : Waits(y, cl, c)
  BY <1>5 DEF Link, Waits
<1>7. TxGood(y, <<>>, 0)
  <2>1. <<>> = Run(0, 0) /\ Len(<<>>) = 0
    BY RunOfNone
  <2> QED BY <1>5, <2>1 DEF TxGood
<1>8. delivered[c] \in Nat /\ carried[c] \in Nat
  BY DEF Inv, TypeOK
<1>9. Big(y) /\ carried[c] = 0 => RxGood(y, delivered[c], delivered[c] + 0)
  <2>1. delivered[c] <= delivered[c] + 0 /\ (delivered[c] + 0) - delivered[c] = 0
    BY <1>8
  <2>2. y.buf = Run(delivered[c], 0)
    BY <1>5, <1>8, RunOfNone
  <2> QED BY <1>5, <2>1, <2>2 DEF RxGood
<1>10. \E g \in Seq(Nat), w \in Nat :
         /\ got' = [got EXCEPT ![c] = g] /\ wrote' = [wrote EXCEPT ![c] = w]
         /\ TxGood(y, g, w)
  <2>1. got' = [got EXCEPT ![c] = <<>>] /\ wrote' = [wrote EXCEPT ![c] = 0]
    BY DEF socket_connect, NewConnection
  <2>2. <<>> \in Seq(Nat) /\ 0 \in Nat
    BY <1>4
  <2> QED BY <1>7, <2>1, <2>2
<1>11. /\ delivered' = [delivered EXCEPT ![c] = delivered[c] + 0] /\ 0 \in 0 .. MSS
       /\ carried' = [carried EXCEPT ![c] = carried[c]]
       /\ lastread' = [lastread EXCEPT ![c] = delivered[c]]
  BY <1>8, SizeAssumption DEF socket_connect, Inv, TypeOK
<1>12. /\ call' \in Calls /\ owned' \subseteq Conns
       /\ acceptlen' \in BufLens \cup {1} /\ listening' \in BOOLEAN
  BY DEF socket_connect, Inv, TypeOK
<1>13. \A d \in Conns \ {c} : Waits(sock[d], call', d)
  BY AnyCall, IdleIsNoWrite DEF socket_connect
<1>14. sock' = [sock EXCEPT ![c] = y] /\ Waits(y, call', c)
  BY <1>1, <1>6 DEF y
<1> QED BY ONLY Inv, c \in Conns, <1>5, <1>6, <1>8, <1>9, <1>10, <1>11, <1>12, <1>13, <1>14, SlotChanges

(* What a read takes from a FIFO, at most all of it, leaves the rest.      *)
LEMMA TakenIs ==
  ASSUME NEW x \in Sockets, NEW f \in Nat, NEW to \in Nat, RxGood(x, f, to),
         NEW n \in 0 .. Len(x.buf),
         NEW y, y.buf = SubSeq(x.buf, n + 1, Len(x.buf)), y.tcp = x.tcp,
         y.recvthr = x.recvthr, y.fifosize = x.fifosize, y.stopped = x.stopped
  PROVE  RxGood(y, IF n > 0 THEN x.buf[n] ELSE f, to)
<1> DEFINE k == to - f
           l == IF n > 0 THEN x.buf[n] ELSE f
<1>1. k \in Nat /\ x.buf = Run(f, k)
  BY DEF RxGood
<1> HIDE DEF k
<1>2. Len(x.buf) = k /\ n \in 0 .. k /\ (n > 0 => x.buf[n] = f + n)
  BY <1>1, RunIs
<1>3. l = f + n
  BY <1>2
<1> HIDE DEF l
<1>4. y.buf = Run(f + n, k - n)
  <2>1. SubSeq(Run(f, k), n + 1, k) = Run(f + n, k - n)
    BY ONLY f \in Nat, <1>1, <1>2, RunPart
  <2>2. y.buf = SubSeq(Run(f, k), n + 1, k)
    BY <1>1, <1>2
  <2> QED BY <2>1, <2>2
<1>5. f + n \in Nat /\ k - n \in Nat /\ f + n <= to /\ to - (f + n) = k - n
  <2>1. k = to - f
    BY DEF k
  <2>2. n \in Nat /\ n <= k
    BY <1>1, <1>2
  <2> QED BY ONLY f \in Nat, to \in Nat, <1>1, <2>1, <2>2
<1>6. Len(y.buf) = k - n
  <2> DEFINE a == f + n
             z == k - n
  <2>1. a \in Nat /\ z \in Nat /\ y.buf = Run(a, z)
    BY <1>4, <1>5
  <2> HIDE DEF a, z
  <2>2. Len(y.buf) = z
    BY ONLY <2>1, RunIs
  <2> QED BY <2>2 DEF z
<1>7. x.tcp = "established" =>
        /\ y.recvthr = y.fifosize - UIP_BUFSIZE
        /\ y.stopped \/ y.buf = <<>> \/ Len(y.buf) < y.recvthr
  <2> SUFFICES ASSUME x.tcp = "established"
               PROVE  /\ y.recvthr = y.fifosize - UIP_BUFSIZE
                      /\ y.stopped \/ y.buf = <<>> \/ Len(y.buf) < y.recvthr
    OBVIOUS
  <2>1. /\ x.recvthr = x.fifosize - UIP_BUFSIZE
        /\ x.stopped \/ x.buf = <<>> \/ Len(x.buf) < x.recvthr
    BY DEF RxGood
  <2>2. CASE x.buf = <<>>
    <3>1. k = 0 /\ k - n = 0
      BY <1>1, <1>2, <2>2, RunOfNone
    <3>2. y.buf = <<>>
      BY <1>4, <1>5, <3>1, RunOfNone
    <3> QED BY <2>1, <3>2
  <2>3. CASE Len(x.buf) < x.recvthr
    <3>1. x.recvthr \in Nat
      BY DEF Sockets
    <3>2. Len(y.buf) < x.recvthr
      BY <1>1, <1>2, <1>6, <2>3, <3>1
    <3> QED BY <2>1, <3>2
  <2> QED BY <2>1, <2>2, <2>3
<1> QED BY <1>3, <1>4, <1>5, <1>7 DEF RxGood, l

LEMMA ReadKeeps == ASSUME Inv, socket_read PROVE Inv'
<1> DEFINE c == call.conn
           x == sock[c]
           b == x.buf
           hits == {i \in 1..Len(b) : i = call.left \/ (call.endchar = "byte" /\ b[i] \in EndBytes)}
           n == IF hits = {} THEN Len(b) ELSE CHOOSE i \in hits : \A j \in hits : i <= j
           waits == hits = {} /\ call.endchar # "now" /\ get_sock(c)
           y == [x EXCEPT !.buf = SubSeq(b, n + 1, Len(b))]
           l == IF n > 0 THEN b[n] ELSE lastread[c]
<1>1. /\ call.op = "read" /\ sock' = [sock EXCEPT ![c].buf = SubSeq(b, n + 1, Len(b))]
      /\ lastread' = [lastread EXCEPT ![c] = IF n > 0 THEN b[n] ELSE @]
      /\ call' = IF waits THEN [call EXCEPT !.left = @ - n] ELSE Idle
      /\ UNCHANGED <<acceptlen, listening, owned, carried, delivered, got, wrote>>
  BY DEF socket_read
<1>2. /\ c \in Conns /\ call.left \in Nat \ {0}
      /\ call \in [op : {"read"}, conn : Conns, left : Nat \ {0},
                   endchar : {"none", "byte", "now"}]
  BY <1>1, CallIsWrite DEF Inv, TypeOK
<1>3. /\ x \in Sockets /\ got[c] \in Seq(Nat) /\ wrote[c] \in Nat
      /\ delivered[c] \in Nat /\ lastread[c] \in Nat /\ carried[c] \in Nat
  BY <1>2, SlotTypes DEF Inv
<1>4. b \in Seq(Nat) /\ Len(b) \in Nat
  BY <1>3 DEF Sockets
<1>5. n \in 0 .. Len(b)
  <2>1. hits \subseteq 1 .. Len(b)
    BY Zenon
  <2>2. hits \subseteq Nat /\ hits \subseteq 0 .. Len(b) /\ Len(b) \in 0 .. Len(b)
    BY ONLY <1>4, <2>1
  <2> DEFINE m == CHOOSE i \in hits : \A j \in hits : i <= j
  <2>3. n = IF hits = {} THEN Len(b) ELSE m
    OBVIOUS
  <2> HIDE DEF hits, n, b
  <2>4. hits # {} => m \in hits
    BY <2>2, SmallestSlot
  <2> HIDE DEF m
  <2>5. CASE hits = {}
    BY <2>2, <2>3, <2>5
  <2>6. CASE hits # {}
    BY <2>2, <2>3, <2>4, <2>6
  <2> QED BY <2>5, <2>6
<1>6. l \in Nat
  <2> HIDE DEF n, b
  <2> QED BY <1>3, <1>4, <1>5
<1>7. call' \in Calls
  <2>1. CASE waits
    <3>1. n = Len(b)
      BY <2>1
    <3>2. ~(call.left \in 1 .. Len(b))
      <4>1. hits = {}
        BY <2>1
      <4> HIDE DEF n, waits
      <4>2. ASSUME call.left \in 1 .. Len(b) PROVE call.left \in hits
        BY <4>2
      <4> QED BY <4>1, <4>2
    <3> HIDE DEF n, b
    <3>3. call.left - n \in Nat \ {0}
      BY <1>2, <1>4, <3>1, <3>2
    <3>4. call' = [call EXCEPT !.left = call.left - n]
      BY <1>1, <2>1
    <3> QED BY <1>2, <3>3, <3>4 DEF Calls
  <2>2. CASE ~waits
    BY <1>1, <2>2, CallsAre
  <2> QED BY <2>1, <2>2
<1>8. sock' = [sock EXCEPT ![c] = y] /\ lastread' = [lastread EXCEPT ![c] = l]
  BY <1>1
<1> HIDE DEF n, hits, waits
<1>9. SubSeq(b, n + 1, Len(b)) \in Seq(Nat)
  BY <1>4, <1>5, PartOfSeq
<1>10. /\ y \in Sockets /\ y.buf = SubSeq(b, n + 1, Len(b)) /\ KeepsTx(y, x) /\ KeepsUse(y, x)
       /\ y.alloc = x.alloc /\ y.fifosize = x.fifosize /\ y.recvthr = x.recvthr
       /\ y.stopped = x.stopped
  BY <1>3, <1>9 DEF Sockets, KeepsTx, KeepsUse
<1>11. /\ Link(x) /\ TxGood(x, got[c], wrote[c])
       /\ Big(x) /\ carried[c] = 0 => RxGood(x, lastread[c], delivered[c])
  BY <1>2 DEF Inv, Slot
<1> HIDE DEF y
<1>12. Link(y)
  <2>1. ASSUME b = <<>> PROVE y.buf = <<>>
    <3>1. Len(b) = 0
      BY <2>1
    <3>2. n = 0
      BY <1>5, <3>1
    <3> QED BY <1>10, <2>1, <3>1, <3>2
  <2> QED BY <1>10, <1>11, <2>1 DEF Link, KeepsTx, KeepsUse
<1>13. TxGood(y, got[c], wrote[c])
  BY <1>10, <1>11 DEF KeepsTx, TxGood, Pending
<1>14. \A d \in Conns : \A cl : Waits(sock[d], cl, d)
  BY <1>1, AnyCall
<1>15. Waits(y, call', c)
  BY <1>2, <1>10, <1>14 DEF Waits, KeepsTx
<1>16. Big(y) /\ carried[c] = 0 => RxGood(y, l, delivered[c] + 0)
  <2> SUFFICES ASSUME Big(y), carried[c] = 0
               PROVE  RxGood(y, l, delivered[c] + 0)
    OBVIOUS
  <2>1. RxGood(x, lastread[c], delivered[c])
    BY <1>10, <1>11 DEF Big
  <2>2. y.tcp = x.tcp /\ delivered[c] + 0 = delivered[c]
    BY <1>3, <1>10 DEF KeepsTx
  <2>3. RxGood(y, l, delivered[c])
    BY <1>3, <1>5, <1>10, <2>1, <2>2, TakenIs
  <2> HIDE DEF l
  <2> QED BY <2>2, <2>3
<1>17. \E g \in Seq(Nat), w \in Nat :
         /\ got' = [got EXCEPT ![c] = g] /\ wrote' = [wrote EXCEPT ![c] = w]
         /\ TxGood(y, g, w)
  <2>1. got' = [got EXCEPT ![c] = got[c]] /\ wrote' = [wrote EXCEPT ![c] = wrote[c]]
    BY <1>1 DEF Inv, TypeOK
  <2> QED BY <1>3, <1>13, <2>1
<1>18. /\ delivered' = [delivered EXCEPT ![c] = delivered[c] + 0] /\ 0 \in 0 .. MSS
       /\ carried' = [carried EXCEPT ![c] = carried[c]]
  BY <1>1, <1>3, SizeAssumption DEF Inv, TypeOK
<1>19. owned' \subseteq Conns /\ acceptlen' \in BufLens \cup {1} /\ listening' \in BOOLEAN
  BY <1>1 DEF Inv, TypeOK
<1>20. \A d \in Conns \ {c} : Waits(sock[d], call', d)
  BY <1>14
<1> QED BY ONLY Inv, <1>2, <1>3, <1>6, <1>7, <1>8, <1>10, <1>12, <1>15, <1>16, <1>17,
                <1>18, <1>19, <1>20, SlotChanges

(* The last write is over when the next one starts.                        *)
LEMMA WriteStartsKeeps == ASSUME Inv, NEW c \in Conns, WriteStarts(c) PROVE Inv'
<1> DEFINE x == sock[c]
           w == wrote[c]
           g == got[c]
<1>1. PICK n \in WriteLens :
        /\ sock' = [sock EXCEPT ![c].senddata = [i \in 1..n |-> w + i],
                                ![c].sending = TRUE, ![c].transtimecount = 0]
        /\ wrote' = [wrote EXCEPT ![c] = w + n]
  BY DEF WriteStarts
<1>2. /\ x \in Sockets /\ g \in Seq(Nat) /\ w \in Nat /\ Len(g) \in Nat
      /\ delivered[c] \in Nat /\ lastread[c] \in Nat /\ carried[c] \in Nat
  BY SlotTypes DEF Inv
<1>3. /\ Link(x) /\ TxGood(x, g, w) /\ \A cl : Waits(x, cl, c)
      /\ Big(x) /\ carried[c] = 0 => RxGood(x, lastread[c], delivered[c])
  BY AnyCall, IdleIsNoWrite DEF WriteStarts, Inv, Slot
<1>4. /\ call = Idle /\ x.connected /\ call' = [op |-> "write", conn |-> c]
      /\ UNCHANGED <<acceptlen, listening, owned, carried, delivered, lastread, got>>
  BY DEF WriteStarts, get_sock
<1>5. n \in Nat
  BY SizeAssumption
<1> DEFINE data == Run(w, n)
           y == [x EXCEPT !.senddata = data, !.sending = TRUE, !.transtimecount = 0]
<1>6. sock' = [sock EXCEPT ![c] = y]
  BY <1>1 DEF Run, Inv, TypeOK
<1>7. data \in Seq(Nat) /\ Len(data) = n
  BY <1>2, <1>5, RunIs
<1> HIDE DEF data
<1>8. /\ y \in Sockets /\ y.tcp = x.tcp /\ y.outstanding = x.outstanding /\ y.arrived = x.arrived
      /\ y.sending /\ y.senddata = data /\ y.sendamt = x.sendamt /\ y.transtimecount = 0
      /\ KeepsUse(y, x) /\ KeepsFifo(y, x) /\ y.stopped = x.stopped
  <2>1. 0 \in 0 .. TRANS_TIMEOUT
    BY SizeAssumption
  <2> QED BY <1>2, <1>7, <2>1 DEF Sockets, KeepsUse, KeepsFifo
<1> HIDE DEF y
<1>9. x.tcp = "established" =>
        /\ x.senddata = <<>> /\ x.sendamt = 0 /\ x.outstanding = <<>> /\ Len(g) = w
  <2> SUFFICES ASSUME x.tcp = "established"
               PROVE  /\ x.senddata = <<>> /\ x.sendamt = 0
                      /\ x.outstanding = <<>> /\ Len(g) = w
    OBVIOUS
  <2>1. x.senddata = <<>>
    BY <1>3 DEF Waits
  <2>2. Len(x.senddata) = 0 /\ x.sendamt \in Nat
    BY <1>2, <2>1, SizeAssumption DEF Sockets
  <2>3. /\ x.outstanding = SubSeq(x.senddata, 1, x.sendamt) /\ x.sendamt <= Len(x.senddata)
        /\ Len(g) = w - Len(x.senddata) + (IF x.arrived THEN x.sendamt ELSE 0)
    BY <1>3 DEF TxGood, Pending
  <2>4. x.sendamt = 0
    BY <2>2, <2>3
  <2> HIDE DEF x, g, w
  <2>5. x.outstanding = <<>>
    BY <2>1, <2>3, <2>4
  <2>6. Len(g) = w
    BY <1>2, <2>2, <2>3, <2>4
  <2> QED BY <2>1, <2>4, <2>5, <2>6
<1>10. w + n \in Nat /\ w <= w + n /\ (w + n) - n = w
  BY <1>2, <1>5
<1>11. TxGood(y, g, w + n)
  <2> DEFINE v == w + n
  <2>1. g = Run(0, Len(g)) /\ Len(g) <= w
    BY <1>3 DEF TxGood
  <2>2. Len(g) <= v
    BY <1>2, <1>10, <2>1
  <2>3. y.tcp # "established" => y.outstanding = <<>>
    BY <1>3, <1>8 DEF TxGood
  <2>4. ASSUME y.tcp = "established"
        PROVE  /\ y.outstanding = SubSeq(y.senddata, 1, y.sendamt)
               /\ Pending(y, g, v, IF y.arrived THEN y.sendamt ELSE 0)
    <3>1. y.sendamt = 0 /\ y.outstanding = <<>> /\ Len(g) = w
      BY <1>8, <1>9, <2>4
    <3>2. SubSeq(y.senddata, 1, 0) = <<>>
      BY <1>7, <1>8
    <3>3. /\ n <= v /\ v - n = w /\ 0 <= n /\ w = v - n + 0
      BY <1>2, <1>5
    <3>4. (IF y.arrived THEN y.sendamt ELSE 0) = 0
      BY <3>1
    <3> HIDE DEF v, w, g
    <3>5. Pending(y, g, v, 0)
      BY <1>7, <1>8, <3>1, <3>3 DEF Pending, data
    <3> QED BY <3>1, <3>2, <3>4, <3>5
  <2> HIDE DEF v, g
  <2>5. TxGood(y, g, v)
    BY <1>8, <2>1, <2>2, <2>3, <2>4 DEF TxGood
  <2> QED BY <2>5 DEF v
<1>12. Link(y) /\ Waits(y, call', c)
  BY <1>3, <1>4, <1>8 DEF Link, Waits, KeepsUse, KeepsFifo
<1>13. Big(y) /\ carried[c] = 0 => RxGood(y, lastread[c], delivered[c] + 0)
  BY <1>2, <1>3, <1>8 DEF Big, RxGood, KeepsFifo
<1>14. \E h \in Seq(Nat), u \in Nat :
         /\ got' = [got EXCEPT ![c] = h] /\ wrote' = [wrote EXCEPT ![c] = u]
         /\ TxGood(y, h, u)
  <2>1. got' = [got EXCEPT ![c] = g]
    BY <1>4 DEF Inv, TypeOK
  <2> HIDE DEF g
  <2> QED BY <1>1, <1>2, <1>10, <1>11, <2>1
<1>15. /\ delivered' = [delivered EXCEPT ![c] = delivered[c] + 0] /\ 0 \in 0 .. MSS
       /\ carried' = [carried EXCEPT ![c] = carried[c]]
       /\ lastread' = [lastread EXCEPT ![c] = lastread[c]]
  BY <1>2, <1>4, SizeAssumption DEF Inv, TypeOK
<1>16. /\ call' \in Calls /\ owned' \subseteq Conns
       /\ acceptlen' \in BufLens \cup {1} /\ listening' \in BOOLEAN
  BY <1>4, CallsAre DEF Inv, TypeOK
<1>17. \A d \in Conns \ {c} : Waits(sock[d], call', d)
  BY <1>4, AnyCall, IdleIsNoWrite
<1> QED BY ONLY Inv, c \in Conns, <1>2, <1>6, <1>8, <1>12, <1>13, <1>14, <1>15, <1>16,
                <1>17, SlotChanges

-----------------------------------------------------------------------------
(* The invariant holds in every state                                      *)

LEMMA InitInv == Init => Inv
<1> SUFFICES ASSUME Init PROVE Inv
  OBVIOUS
<1>1. 0 \in 0 .. MSS /\ 0 \in 0 .. TRANS_TIMEOUT /\ 0 \in 0 .. UIP_MAXRTX /\ <<>> \in Seq(Nat)
  BY SizeAssumption
<1>2. ASSUME NEW c \in Conns
      PROVE  /\ sock[c] \in Sockets /\ sock[c].tcp = "closed" /\ sock[c].outstanding = <<>>
             /\ ~sock[c].alloc /\ ~sock[c].connected /\ ~sock[c].sending /\ sock[c].buf = <<>>
  BY <1>1 DEF Init, Sockets
<1>3. TypeOK
  <2>1. sock \in [Conns -> Sockets]
    <3>1. sock = [c \in Conns |-> sock[c]]
      BY DEF Init
    <3> QED BY <1>2, <3>1
  <2>2. call \in Calls
    BY CallsAre DEF Init
  <2> QED BY <1>1, <2>1, <2>2 DEF Init, TypeOK
<1>4. ASSUME NEW c \in Conns
      PROVE  Slot(c)
  <2>1. got[c] = <<>> /\ wrote[c] = 0 /\ <<>> = Run(0, 0) /\ Len(<<>>) = 0
    BY RunOfNone DEF Init
  <2>2. TxGood(sock[c], got[c], wrote[c])
    BY <1>2, <2>1 DEF TxGood
  <2> QED BY <1>2, <2>2 DEF Slot, Link, Waits, Big
<1> QED BY <1>3, <1>4 DEF Inv

LEMMA NextInv == Inv /\ [Next]_vars => Inv'
<1> SUFFICES ASSUME Inv, [Next]_vars PROVE Inv'
  OBVIOUS
<1>1. CASE AcceptStarts
  BY <1>1, AcceptStartsKeeps
<1>2. CASE socket_accept
  BY <1>2, AcceptKeeps
<1>3. CASE socket_read
  BY <1>3, ReadKeeps
<1>4. CASE socket_write
  BY <1>4, WriteKeeps
<1>5. CASE socket_free
  BY <1>5, FreeKeeps
<1>6. CASE \E c \in Conns : socket_connect(c) \/ ReadStarts(c) \/ WriteStarts(c) \/ socket_close(c)
  BY <1>6, ConnectKeeps, ReadStartsKeeps, WriteStartsKeeps, CloseKeeps
<1>7. CASE \E c \in Conns : PeerConnects(c) \/ PeerAnswers(c) \/ Segment(c) \/ PeerGets(c)
  BY <1>7, PeerConnectsKeeps, PeerAnswersKeeps, SegmentKeeps, PeerGetsKeeps
<1>8. CASE \E c \in Conns : PeerEnds(c) \/ Timer(c) \/ FinWait2Expires(c)
  BY <1>8, PeerEndsKeeps, TimerKeeps, FinWait2Keeps
<1>9. CASE UNCHANGED vars
  BY <1>9 DEF vars, Inv, TypeOK, Slot
<1> QED BY <1>1, <1>2, <1>3, <1>4, <1>5, <1>6, <1>7, <1>8, <1>9 DEF Next, Network, Commands

LEMMA InvAlways == Spec => []Inv
<1> QED BY InitInv, NextInv, PTL DEF Spec

-----------------------------------------------------------------------------
(* Every slot, buffer and command keeps its type: an SCREAD$ that goes on  *)
(* waiting still wants at least one byte, and uIP is never handed more     *)
(* than a segment holds.                                                   *)
THEOREM SpecTypeOK == Spec => []TypeOK
<1>1. Inv => TypeOK
  BY DEF Inv
<1> QED BY <1>1, InvAlways, PTL

(* putsocketfifo never has to drop a byte uIP has acknowledged: uip_stop   *)
(* comes early enough, for every buffer at least as big as uip_buf that    *)
(* was empty when its connection opened.                                   *)
THEOREM SpecNothingLost == Spec => []NothingLost
<1>1. Inv => NothingLost
  BY DEF Inv, Slot, Big, RxGood, NothingLost, Holds, Run
<1> QED BY <1>1, InvAlways, PTL

(* Retransmissions, partial acknowledgements and writes given up never     *)
(* make the peer get a byte twice, out of order or not at all before a     *)
(* later one; and when SCWRITE has returned 0 it has all of them.          *)
THEOREM SpecWritten == Spec => []Written
<1>1. Inv => Written
  <2> SUFFICES ASSUME Inv, NEW c \in Conns
               PROVE  /\ got[c] = [i \in 1..Len(got[c]) |-> i]
                      /\ Len(got[c]) <= wrote[c]
                      /\ ~sock[c].sending => Len(got[c]) = wrote[c]
    BY DEF Written
  <2>1. TxGood(sock[c], got[c], wrote[c]) /\ got[c] \in Seq(Nat)
    BY DEF Inv, Slot, TypeOK
  <2>2. \A i \in 1 .. Len(got[c]) : 0 + i = i
    OBVIOUS
  <2>3. got[c] = [i \in 1..Len(got[c]) |-> i]
    BY <2>1, <2>2 DEF TxGood, Run
  <2> QED BY <2>1, <2>3 DEF TxGood
<1> QED BY <1>1, InvAlways, PTL

=============================================================================
