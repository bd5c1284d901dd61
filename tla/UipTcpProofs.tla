---------------------------- MODULE UipTcpProofs ----------------------------
(***************************************************************************)
(* Proofs about UipTcp, for every length of the streams, every segment     *)
(* size, every number of retransmissions and every pair of initial         *)
(* sequence numbers: the application hears the peer's bytes in order and   *)
(* each once, uip_process implements UipEvents, and the peer gets the      *)
(* application's bytes in order.                                           *)
(***************************************************************************)
EXTENDS UipTcp, SequenceTheorems, TLAPS

Flags == {"CONNECTED", "NEWDATA", "ACKDATA", "POLL", "REXMIT", "CLOSE", "ABORT", "TIMEDOUT"}
ConnType == [state : States, stopped : BOOLEAN, snd_nxt : Nat, rcv_nxt : Nat,
             len : Nat, nrtx : Nat]
AppType == [acked : Nat, flight : 0 .. MSS, heard : Seq(Nat)]
Flag == {"SYN", "ACK", "FIN"}
Wire == [ctl : SUBSET Flag, seqno : Nat, data : Seq(Nat)]
Calls == [k : ConnType, a : AppType, flags : SUBSET Flags, slen : Nat, out : SUBSET Wire]

(* What holds of a connection and its application between two calls.       *)
HeardInOrder(a) == a.heard = Bytes(0, Len(a.heard)) /\ Len(a.heard) <= MaxIn
Good(k, a) ==
  /\ k \in ConnType /\ a \in AppType
  /\ HeardInOrder(a)
  /\ k.state \in {"SYN_RCVD", "SYN_SENT"} =>
       a.flight = 0 /\ a.acked = 0 /\ a.heard = <<>>
  /\ k.state = "SYN_RCVD" => k.rcv_nxt = Seqno(1)
  /\ k.state = "ESTABLISHED" => k.rcv_nxt = Seqno(1 + Len(a.heard)) /\ k.len = a.flight
  /\ k.state = "LAST_ACK" => k.rcv_nxt = Seqno(2 + MaxIn) /\ Len(a.heard) = MaxIn
  /\ k.stopped => k.state = "ESTABLISHED"

-----------------------------------------------------------------------------
(* Sequence numbers and bytes                                              *)

\* Positions of one stream have sequence numbers of their own, and moving
\* along the stream moves the sequence number.
LEMMA Positions ==
  /\ \A p \in 0 .. MaxIn + 2 : Seqno(p) \in Nat
  /\ \A p, q \in 0 .. MaxIn + 2 : Seqno(p) = Seqno(q) => p = q
  /\ \A p, n \in Nat : p + n <= MaxIn + 2 => Add(Seqno(p), n) = Seqno(p + n)
BY SequenceAssumption DEF Seqno, Add

LEMMA AddIsNat == \A n, k \in Nat : Add(n, k) \in Nat
BY SequenceAssumption DEF Add

LEMMA BytesJoin ==
  ASSUME NEW n \in Nat, NEW m \in Nat
  PROVE  /\ Bytes(0, n) \in Seq(Nat) /\ Len(Bytes(0, n)) = n
         /\ Bytes(n, m) \in Seq(Nat) /\ Len(Bytes(n, m)) = m
         /\ Bytes(0, n) \o Bytes(n, m) = Bytes(0, n + m)
<1>1. Bytes(0, n) \in Seq(Nat) /\ Len(Bytes(0, n)) = n
  BY DEF Bytes
<1>2. Bytes(n, m) \in Seq(Nat) /\ Len(Bytes(n, m)) = m
  BY DEF Bytes
<1>3. Bytes(0, n + m) \in Seq(Nat) /\ Len(Bytes(0, n + m)) = n + m
  BY DEF Bytes
<1>4. \A i \in 1 .. n + m : (Bytes(0, n) \o Bytes(n, m))[i] = Bytes(0, n + m)[i]
  BY <1>1, <1>2, <1>3 DEF Bytes
<1>5. Bytes(0, n) \o Bytes(n, m) \in Seq(Nat) /\ Len(Bytes(0, n) \o Bytes(n, m)) = n + m
  BY <1>1, <1>2
<1> QED BY <1>1, <1>2, <1>3, <1>4, <1>5, SeqEqual

LEMMA Empty == <<>> = Bytes(0, 0) /\ \A n \in Nat : Bytes(n, 0) = <<>>
BY DEF Bytes

-----------------------------------------------------------------------------
(* The parts of a call                                                     *)

LEMMA Told ==
  ASSUME NEW x \in Calls, NEW data \in Seq(Nat)
  PROVE  /\ Learns(x, data) \in AppType
         /\ Learns(x, data).heard = x.a.heard \o data
         /\ "ACKDATA" \in x.flags =>
              Learns(x, data).acked = x.a.acked + x.a.flight /\ Learns(x, data).flight = 0
         /\ "ACKDATA" \notin x.flags =>
              Learns(x, data).acked = x.a.acked /\ Learns(x, data).flight = x.a.flight
         /\ Tell(x, data) \in Calls
         /\ Tell(x, data).a = Learns(x, data) /\ Tell(x, data).k = x.k
         /\ Tell(x, data).flags = x.flags
<1>1. /\ x.a.acked \in Nat /\ x.a.flight \in 0 .. MSS /\ x.a.heard \in Seq(Nat)
      /\ x.k \in ConnType /\ x.flags \in SUBSET Flags /\ x.slen \in Nat
      /\ x.out \in SUBSET Wire /\ MSS \in Nat
  BY SequenceAssumption DEF Calls, AppType
<1>2. x.a.heard \o data \in Seq(Nat)
  BY <1>1
<1>3. /\ Learns(x, data) \in AppType
      /\ Learns(x, data).heard = x.a.heard \o data
  BY <1>1, <1>2, SMTT(30) DEF AppType, Learns
<1>4. /\ "ACKDATA" \in x.flags =>
           Learns(x, data).acked = x.a.acked + x.a.flight /\ Learns(x, data).flight = 0
      /\ "ACKDATA" \notin x.flags =>
           Learns(x, data).acked = x.a.acked /\ Learns(x, data).flight = x.a.flight
  BY DEF Learns
<1>5. /\ Tell(x, data) \in Calls
      /\ Tell(x, data).a = Learns(x, data) /\ Tell(x, data).k = x.k
      /\ Tell(x, data).flags = x.flags
  BY <1>1, <1>3 DEF Calls, Tell
<1> QED BY <1>3, <1>4, <1>5

LEMMA Nothing ==
  ASSUME NEW heard \in Seq(Nat)
  PROVE  <<>> \o heard = heard /\ heard \o <<>> = heard /\ <<>> \in Seq(Nat)
OBVIOUS

LEMMA ToldFirst ==
  ASSUME NEW x \in Calls, NEW data \in Seq(Nat), "ACKDATA" \notin x.flags,
         x.a.heard = <<>>, x.a.flight = 0, x.a.acked = 0
  PROVE  /\ Learns(x, data).heard = data /\ Learns(x, data).flight = 0
         /\ Learns(x, data).acked = 0
<1>1. x.a.heard \o data = data
  BY Nothing
<1>2. Learns(x, data) = [acked |-> 0, flight |-> 0, heard |-> data]
  BY <1>1 DEF Learns
<1> QED BY <1>2

LEMMA ToldNothing ==
  ASSUME NEW x \in Calls, "ACKDATA" \notin x.flags
  PROVE  /\ Learns(x, <<>>) = x.a
         /\ Tell(x, <<>>) = x
<1>1. /\ x.a.heard \in Seq(Nat)
      /\ x.a = [acked |-> x.a.acked, flight |-> x.a.flight, heard |-> x.a.heard]
  BY DEF Calls, AppType
<1>2. x.a.heard \o <<>> = x.a.heard
  BY <1>1
<1>3. Learns(x, <<>>) = [acked |-> x.a.acked, flight |-> x.a.flight, heard |-> x.a.heard]
  BY <1>2 DEF Learns
<1>4. Learns(x, <<>>) = x.a
  BY <1>1, <1>3
<1> QED BY <1>4 DEF Tell, Calls

LEMMA Sent ==
  ASSUME NEW x \in Calls, NEW ctl \in SUBSET Flag, NEW data \in Seq(Nat)
  PROVE  /\ tcp_send(x, ctl, data) \in Calls
         /\ tcp_send(x, ctl, data).k = x.k /\ tcp_send(x, ctl, data).a = x.a
         /\ tcp_send(x, ctl, data).flags = x.flags
BY DEF Calls, ConnType, Wire, tcp_send

(* An answer changes what is stopped, what is to be sent and what is under *)
(* way, and the latter only when nothing was.                              *)
LEMMA Answered ==
  ASSUME NEW x \in Calls, NEW y \in Answers(x),
         "CLOSE" \notin x.flags, "ABORT" \notin x.flags
  PROVE  /\ y \in Calls
         /\ y.k.state = x.k.state /\ y.k.len = x.k.len /\ y.k.rcv_nxt = x.k.rcv_nxt
         /\ y.k.snd_nxt = x.k.snd_nxt /\ y.k.nrtx = x.k.nrtx /\ y.out = x.out
         /\ y.a.acked = x.a.acked /\ y.a.heard = x.a.heard
         /\ x.a.flight > 0 => y.a.flight = x.a.flight
         /\ \/ y.flags \in {{"CLOSE"}, {"ABORT"}} /\ y.a.flight = x.a.flight
            \/ /\ "CLOSE" \notin y.flags /\ "ABORT" \notin y.flags
               /\ x.a.flight = 0 => y.a.flight = Least(y.slen, MSS)
         /\ "REXMIT" \in x.flags => y.a.flight = x.a.flight
<1>1. /\ x.a.acked \in Nat /\ x.a.flight \in 0 .. MSS /\ x.a.heard \in Seq(Nat)
      /\ x.a = [acked |-> x.a.acked, flight |-> x.a.flight, heard |-> x.a.heard]
      /\ x.k \in ConnType /\ x.flags \in SUBSET Flags /\ x.slen \in Nat
      /\ x.out \in SUBSET Wire /\ MSS \in Nat \ {0} /\ MaxOut \in Nat
  BY SequenceAssumption DEF Calls, AppType
<1>2. CASE \E wish \in {"CLOSE", "ABORT"} : y = [x EXCEPT !.flags = {wish}]
  <2>1. PICK wish \in {"CLOSE", "ABORT"} : y = [x EXCEPT !.flags = {wish}]
    BY <1>2
  <2>2. y \in Calls /\ y.k = x.k /\ y.a = x.a /\ y.out = x.out /\ y.flags = {wish}
    BY <1>1, <2>1 DEF Calls, Flags
  <2> QED BY <2>1, <2>2
<1>3. ASSUME NEW n \in MaySend(x), NEW stop \in MayStop(x), y = Gives(x, n, stop)
      PROVE  /\ y \in Calls
             /\ y.k.state = x.k.state /\ y.k.len = x.k.len /\ y.k.rcv_nxt = x.k.rcv_nxt
             /\ y.k.snd_nxt = x.k.snd_nxt /\ y.k.nrtx = x.k.nrtx /\ y.out = x.out
             /\ y.a.acked = x.a.acked /\ y.a.heard = x.a.heard
             /\ x.a.flight > 0 => y.a.flight = x.a.flight
             /\ "CLOSE" \notin y.flags /\ "ABORT" \notin y.flags
             /\ x.a.flight = 0 => y.a.flight = Least(y.slen, MSS)
             /\ "REXMIT" \in x.flags => y.a.flight = x.a.flight
  <2>1. n \in Nat /\ (x.a.flight > 0 => n = 0 \/ n = x.a.flight)
        /\ ("REXMIT" \in x.flags => n = x.a.flight)
    BY <1>1 DEF MaySend
  <2> DEFINE f == IF n > 0 THEN Least(n, MSS) ELSE x.a.flight
  <2>2. f \in 0 .. MSS /\ (x.a.flight > 0 => f = x.a.flight)
        /\ (x.a.flight = 0 => f = Least(n, MSS)) /\ ("REXMIT" \in x.flags => f = x.a.flight)
    BY <1>1, <2>1 DEF Least
  <2> DEFINE k == [x.k EXCEPT !.stopped = stop]
             a == [x.a EXCEPT !.flight = f]
             flags == IF x.k.stopped /\ ~stop THEN x.flags \union {"NEWDATA"} ELSE x.flags
  <2>3. y = [x EXCEPT !.slen = n, !.a = a, !.k = k, !.flags = flags]
    BY <1>1, <1>3 DEF Calls, Gives
  <2>4. k \in ConnType /\ k.state = x.k.state /\ k.len = x.k.len /\ k.rcv_nxt = x.k.rcv_nxt
        /\ k.snd_nxt = x.k.snd_nxt /\ k.nrtx = x.k.nrtx
    BY <1>1 DEF ConnType, MayStop
  <2>5. a \in AppType /\ a.acked = x.a.acked /\ a.heard = x.a.heard /\ a.flight = f
    BY <1>1, <2>2 DEF AppType
  <2>6. flags \in SUBSET Flags /\ "CLOSE" \notin flags /\ "ABORT" \notin flags
    BY <1>1 DEF Flags
  <2> HIDE DEF f, k, a, flags
  <2>7. y \in Calls /\ y.k = k /\ y.a = a /\ y.slen = n /\ y.flags = flags /\ y.out = x.out
    BY <1>1, <2>1, <2>3, <2>4, <2>5, <2>6 DEF Calls
  <2> QED BY <2>2, <2>4, <2>5, <2>6, <2>7
<1>4. \/ \E wish \in {"CLOSE", "ABORT"} : y = [x EXCEPT !.flags = {wish}]
      \/ \E n \in MaySend(x), stop \in MayStop(x) : y = Gives(x, n, stop)
  BY DEF Answers
<1> QED BY <1>2, <1>3, <1>4

LEMMA Repeated ==
  ASSUME NEW x \in Calls
  PROVE  apprexmit(x) \in Calls /\ apprexmit(x).k = x.k /\ apprexmit(x).a = x.a
<1>1. Bytes(x.a.acked, x.k.len) \in Seq(Nat) /\ {"ACK"} \in SUBSET Flag
  BY BytesJoin DEF Calls, ConnType, AppType, Flag
<1> QED BY <1>1, Sent DEF apprexmit

LEMMA Finished ==
  ASSUME NEW x \in Calls
  PROVE  /\ tcp_send_finack(x) \in Calls
         /\ tcp_send_finack(x).k = x.k /\ tcp_send_finack(x).a = x.a
<1>1. <<>> \in Seq(Nat) /\ {"FIN", "ACK"} \in SUBSET Flag
  BY DEF Flag
<1> QED BY <1>1, Sent DEF tcp_send_finack

(* After the answer the connection is open with its data under way, or on  *)
(* its way out and not stopped.                                            *)
LEMMA Appsent ==
  ASSUME NEW x \in Calls
  PROVE  /\ appsend(x) \in Calls /\ appsend(x).a = x.a
         /\ appsend(x).k.rcv_nxt = x.k.rcv_nxt
         /\ \/ appsend(x).k.state \in {"CLOSED", "FIN_WAIT_1"} /\ ~appsend(x).k.stopped
            \/ /\ "CLOSE" \notin x.flags /\ "ABORT" \notin x.flags
               /\ appsend(x).k.state = x.k.state /\ appsend(x).k.stopped = x.k.stopped
               /\ appsend(x).k.len = IF x.slen > 0 /\ x.k.len = 0 THEN Least(x.slen, MSS)
                                     ELSE x.k.len
<1>1. /\ x.k \in ConnType /\ x.a \in AppType /\ x.flags \in SUBSET Flags
      /\ x.slen \in Nat /\ x.out \in SUBSET Wire /\ MSS \in Nat
  BY SequenceAssumption DEF Calls
<1>2. CASE "ABORT" \in x.flags
  <2> DEFINE k == [x.k EXCEPT !.state = "CLOSED", !.stopped = FALSE]
  <2>1. appsend(x) = [x EXCEPT !.k = k]
    BY <1>1, <1>2 DEF appsend, Calls
  <2>2. k \in ConnType /\ k.state = "CLOSED" /\ k.stopped = FALSE /\ k.rcv_nxt = x.k.rcv_nxt
    BY <1>1 DEF ConnType, States
  <2> HIDE DEF k
  <2>3. appsend(x) \in Calls /\ appsend(x).k = k /\ appsend(x).a = x.a
    BY <1>1, <2>1, <2>2 DEF Calls
  <2> QED BY <2>2, <2>3
<1>3. CASE "ABORT" \notin x.flags /\ "CLOSE" \in x.flags
  <2> DEFINE k == [x.k EXCEPT !.state = "FIN_WAIT_1", !.stopped = FALSE, !.len = 1, !.nrtx = 0]
             y == [x EXCEPT !.k = k]
  <2>1. appsend(x) = tcp_send_finack(y)
    BY <1>1, <1>3 DEF appsend, Calls
  <2>2. k \in ConnType /\ k.state = "FIN_WAIT_1" /\ k.stopped = FALSE /\ k.rcv_nxt = x.k.rcv_nxt
    BY <1>1 DEF ConnType, States
  <2> HIDE DEF k
  <2>3. y \in Calls /\ y.k = k /\ y.a = x.a
    BY <1>1, <2>2 DEF Calls
  <2> HIDE DEF y
  <2> QED BY <2>1, <2>2, <2>3, Finished
<1>4. CASE "ABORT" \notin x.flags /\ "CLOSE" \notin x.flags
  <2> DEFINE n == IF x.slen > 0 /\ x.k.len = 0 THEN Least(x.slen, MSS) ELSE x.k.len
             k == [x.k EXCEPT !.nrtx = 0, !.len = n]
             y == [x EXCEPT !.k = k]
  <2>1. appsend(x) = apprexmit(y)
    BY <1>1, <1>4 DEF appsend, ConnType
  <2>2. n \in Nat
    BY <1>1 DEF ConnType, Least
  <2>3. /\ k \in ConnType /\ k.state = x.k.state /\ k.stopped = x.k.stopped
        /\ k.rcv_nxt = x.k.rcv_nxt /\ k.len = n
    BY <1>1, <2>2 DEF ConnType
  <2> HIDE DEF k, n
  <2>4. y \in Calls /\ y.k = k /\ y.a = x.a
    BY <1>1, <2>3 DEF Calls
  <2> HIDE DEF y
  <2>5. appsend(x) \in Calls /\ appsend(x).k = k /\ appsend(x).a = x.a
    BY <2>1, <2>4, Repeated
  <2> QED BY <1>4, <2>3, <2>5 DEF n
<1> QED BY <1>2, <1>3, <1>4

-----------------------------------------------------------------------------
(* A call with data on an open connection, from before the application is  *)
(* told until its answer is carried out.                                   *)
LEMMA Appcalled ==
  ASSUME NEW x \in Calls, NEW data \in Seq(Nat), NEW y \in UIP_APPCALL(x, data),
         NEW z, z = appsend(y),
         x.flags \intersect {"CLOSE", "ABORT"} = {},
         x.k.state = "ESTABLISHED", x.k.len = Learns(x, data).flight,
         HeardInOrder(Learns(x, data)),
         x.k.rcv_nxt = Seqno(1 + Len(Learns(x, data).heard))
  PROVE  /\ z \in Calls /\ Good(z.k, z.a)
         /\ z.k.state \in {"ESTABLISHED", "FIN_WAIT_1", "CLOSED"}
         /\ z.a.acked = Learns(x, data).acked /\ z.a.heard = Learns(x, data).heard
         /\ Learns(x, data).flight > 0 => z.a.flight = Learns(x, data).flight
<1> DEFINE w == Tell(x, data)
<1>1. /\ w \in Calls /\ w.a = Learns(x, data) /\ w.k = x.k /\ w.flags = x.flags
      /\ w.a \in AppType /\ y \in Answers(w)
  BY Told DEF UIP_APPCALL
<1> HIDE DEF w
<1>2. /\ y \in Calls
      /\ y.k.state = w.k.state /\ y.k.len = w.k.len /\ y.k.rcv_nxt = w.k.rcv_nxt
      /\ y.a.acked = w.a.acked /\ y.a.heard = w.a.heard
      /\ w.a.flight > 0 => y.a.flight = w.a.flight
      /\ \/ y.flags \in {{"CLOSE"}, {"ABORT"}} /\ y.a.flight = w.a.flight
         \/ /\ "CLOSE" \notin y.flags /\ "ABORT" \notin y.flags
            /\ w.a.flight = 0 => y.a.flight = Least(y.slen, MSS)
  BY <1>1, Answered
<1>3. /\ z \in Calls /\ z.a = y.a /\ z.k.rcv_nxt = y.k.rcv_nxt
      /\ \/ z.k.state \in {"CLOSED", "FIN_WAIT_1"} /\ ~z.k.stopped
         \/ /\ "CLOSE" \notin y.flags /\ "ABORT" \notin y.flags
            /\ z.k.state = y.k.state /\ z.k.stopped = y.k.stopped
            /\ z.k.len = IF y.slen > 0 /\ y.k.len = 0 THEN Least(y.slen, MSS) ELSE y.k.len
  BY <1>2, Appsent
<1>4. /\ z.k \in ConnType /\ z.a \in AppType /\ y.slen \in Nat /\ MSS \in Nat
      /\ w.a.flight \in Nat
  BY <1>1, <1>2, <1>3, SequenceAssumption DEF Calls, AppType
<1>5. z.k.state = "ESTABLISHED" => z.k.len = z.a.flight
  BY <1>1, <1>2, <1>3, <1>4 DEF Least
<1> QED BY <1>1, <1>2, <1>3, <1>4, <1>5 DEF Good, HeardInOrder

LEMMA AppcalledNoData ==
  ASSUME NEW x \in Calls, NEW y \in UIP_APPCALL(x, <<>>), NEW z, z = appsend(y),
         x.flags \intersect {"CLOSE", "ABORT", "ACKDATA"} = {},
         x.k.state = "ESTABLISHED", x.k.len = x.a.flight,
         HeardInOrder(x.a), x.k.rcv_nxt = Seqno(1 + Len(x.a.heard))
  PROVE  /\ z \in Calls /\ Good(z.k, z.a)
         /\ z.k.state \in {"ESTABLISHED", "FIN_WAIT_1", "CLOSED"}
         /\ z.a.acked = x.a.acked /\ z.a.heard = x.a.heard
         /\ x.a.flight > 0 => z.a.flight = x.a.flight
<1> DEFINE data == <<>>
<1>1. data \in Seq(Nat) /\ Learns(x, data) = x.a /\ y \in UIP_APPCALL(x, data)
  BY ToldNothing
<1> HIDE DEF data
<1>2. x.flags \intersect {"CLOSE", "ABORT"} = {}
  OBVIOUS
<1> QED BY <1>1, <1>2, Appcalled, SMTT(30)

-----------------------------------------------------------------------------
(* Segments                                                                *)

SegmentOK(s) ==
  /\ s.ctl \in SUBSET Flag /\ s.seqno \in Nat /\ s.ackno \in Nat /\ s.data \in Seq(Nat)
  /\ \/ "SYN" \in s.ctl /\ "FIN" \notin s.ctl /\ s.seqno = Seqno(0) /\ s.data = <<>>
     \/ /\ "SYN" \notin s.ctl
        /\ \E from, n \in 0 .. MaxIn :
             /\ from + n <= MaxIn /\ ("FIN" \in s.ctl => from + n = MaxIn)
             /\ s.seqno = Seqno(from + 1) /\ s.data = Bytes(from, n)

LEMMA PeerSends ==
  ASSUME NEW s \in SegmentsOfPeer, peer.rcv \in Nat
  PROVE  SegmentOK(s)
<1>1. \A a \in Acks : a \in Nat
  BY AddIsNat, SequenceAssumption DEF Acks
<1>2. CASE s \in Opens \union Accepts
  <2>1. /\ s.ctl = {"SYN"} \/ s.ctl = {"SYN", "ACK"}
        /\ s.seqno = Seqno(0) /\ s.ackno \in Nat /\ s.data = <<>>
    BY <1>1, <1>2 DEF Opens, Accepts
  <2>2. Seqno(0) \in Nat /\ <<>> \in Seq(Nat)
    BY Positions, SequenceAssumption
  <2> QED BY <2>1, <2>2 DEF SegmentOK, Flag
<1>3. CASE s \in Talks
  <2>1. PICK r \in Stretches, a \in Acks :
          s = [ctl |-> IF r.fin THEN {"ACK", "FIN"} ELSE {"ACK"}, seqno |-> Seqno(r.from + 1),
               ackno |-> a, data |-> Bytes(r.from, r.n)]
    BY <1>3 DEF Talks
  <2>2. /\ r.from \in 0 .. MaxIn /\ r.n \in 0 .. MaxIn /\ r.from + r.n <= MaxIn
        /\ r.fin \in BOOLEAN /\ (r.fin => r.from + r.n = MaxIn)
    BY SequenceAssumption DEF Stretches
  <2>3. /\ r.from \in Nat /\ r.n \in Nat /\ r.from + 1 \in 0 .. MaxIn + 2
    BY <2>2, SequenceAssumption
  <2>4. Bytes(r.from, r.n) \in Seq(Nat) /\ Seqno(r.from + 1) \in Nat
    BY <2>3, BytesJoin, Positions
  <2>5. /\ s.ctl = (IF r.fin THEN {"ACK", "FIN"} ELSE {"ACK"}) /\ s.seqno = Seqno(r.from + 1)
        /\ s.ackno \in Nat /\ s.data = Bytes(r.from, r.n)
    BY <1>1, <2>1
  <2> QED BY <2>2, <2>4, <2>5 DEF SegmentOK, Flag
<1>4. s \in Opens \union Accepts \union Talks
  BY DEF SegmentsOfPeer
<1> QED BY <1>2, <1>3, <1>4

(* What is not unexpected is the next stretch of the peer's stream.        *)
LEMMA NextStretch ==
  ASSUME NEW s, SegmentOK(s), NEW k, NEW m \in 0 .. MaxIn, k.rcv_nxt = Seqno(1 + m),
         k.state # "SYN_SENT", ~Unexpected(k, s)
  PROVE  /\ Len(s.data) \in Nat /\ s.data = Bytes(m, Len(s.data))
         /\ m + Len(s.data) <= MaxIn
         /\ "FIN" \in s.ctl => m + Len(s.data) = MaxIn
<1>1. s.data # <<>> \/ "SYN" \in s.ctl \/ "FIN" \in s.ctl => s.seqno = Seqno(1 + m)
  BY DEF Unexpected
<1>2. "SYN" \notin s.ctl
  BY <1>1, Positions, SequenceAssumption DEF SegmentOK
<1>3. PICK from \in 0 .. MaxIn, n \in 0 .. MaxIn :
        /\ from + n <= MaxIn /\ ("FIN" \in s.ctl => from + n = MaxIn)
        /\ s.seqno = Seqno(from + 1) /\ s.data = Bytes(from, n)
  BY <1>2 DEF SegmentOK
<1>4. Len(s.data) = n /\ n \in Nat /\ m \in Nat /\ MaxIn \in Nat
  BY <1>3, BytesJoin, SequenceAssumption
<1>5. CASE n = 0 /\ "FIN" \notin s.ctl
  BY <1>3, <1>4, <1>5, Empty
<1>6. CASE n # 0 \/ "FIN" \in s.ctl
  <2>1. s.data # <<>> \/ "FIN" \in s.ctl
    BY <1>4, <1>6
  <2>2. from + 1 \in 0 .. MaxIn + 2 /\ 1 + m \in 0 .. MaxIn + 2
    BY SequenceAssumption
  <2>3. from + 1 = 1 + m
    BY <1>1, <1>3, <2>1, <2>2, Positions
  <2> QED BY <1>3, <1>4, <2>3
<1> QED BY <1>5, <1>6

(* Taking the next stretch keeps the bytes in order.                       *)
LEMMA StretchHeard ==
  ASSUME NEW m \in 0 .. MaxIn, NEW n \in Nat, m + n <= MaxIn
  PROVE  /\ Bytes(0, m) \o Bytes(m, n) = Bytes(0, m + n)
         /\ Len(Bytes(0, m + n)) = m + n /\ Bytes(m, n) \in Seq(Nat)
         /\ Add(Seqno(1 + m), n) = Seqno(1 + (m + n)) /\ Seqno(1 + (m + n)) \in Nat
<1> DEFINE p == 1 + m
           q == 1 + (m + n)
<1>1. /\ m \in Nat /\ m + n \in Nat /\ MaxIn \in Nat /\ p \in Nat
      /\ q \in 0 .. MaxIn + 2 /\ p + n = q /\ p + n <= MaxIn + 2
  BY SequenceAssumption
<1> HIDE DEF p, q
<1>2. Add(Seqno(p), n) = Seqno(q) /\ Seqno(q) \in Nat
  BY <1>1, Positions
<1> QED BY <1>1, <1>2, BytesJoin DEF p, q

LEMMA AckTaken ==
  ASSUME NEW x \in Calls, x.flags = {}, NEW s, SegmentOK(s), NEW y, y = Acknowledged(x, s)
  PROVE  /\ y \in Calls /\ y.a = x.a /\ y.slen = x.slen /\ y.out = x.out
         /\ y.k.state = x.k.state /\ y.k.stopped = x.k.stopped /\ y.k.rcv_nxt = x.k.rcv_nxt
         /\ \/ y = x
            \/ x.k.len > 0 /\ y.k.len = 0 /\ y.flags = {"ACKDATA"}
<1>1. CASE y = x
  BY <1>1
<1>2. CASE y # x
  <2> DEFINE k == [x.k EXCEPT !.snd_nxt = s.ackno, !.len = 0]
  <2>1. x.k.len > 0 /\ y = [x EXCEPT !.k = k, !.flags = {"ACKDATA"}]
    BY <1>2 DEF Acknowledged, Calls
  <2>2. /\ k \in ConnType /\ k.state = x.k.state /\ k.stopped = x.k.stopped
        /\ k.rcv_nxt = x.k.rcv_nxt /\ k.len = 0
    BY DEF SegmentOK, Calls, ConnType
  <2> HIDE DEF k
  <2> QED BY <2>1, <2>2 DEF Calls, Flags
<1> QED BY <1>1, <1>2

-----------------------------------------------------------------------------
(* Steps of UipEvents                                                      *)

EventStep == [Events!Next]_<<phase, conn.stopped, app.flight, app.acked, app.heard>>
Becomes(k, a) == Good(conn, app) /\ Good(k, a) /\ conn' = k /\ app' = a

LEMMA QuietStep ==
  ASSUME NEW k, NEW a, Becomes(k, a), a = app,
         PhaseOf(k.state) = PhaseOf(conn.state), k.stopped = conn.stopped
  PROVE  EventStep
BY DEF EventStep, Becomes, phase

LEMMA EndStep ==
  ASSUME NEW k, NEW a, Becomes(k, a), a = app, conn.state # "CLOSED", k.state = "CLOSED"
  PROVE  EventStep
<1>1. phase # "closed" /\ phase' = "closed" /\ k.stopped \in BOOLEAN
  BY DEF Becomes, Good, phase, PhaseOf, ConnType, States
<1> QED BY <1>1 DEF EventStep, Becomes, Events!Next, Events!Ends

LEMMA ConnectedStep ==
  ASSUME NEW k, NEW a, Becomes(k, a), conn.state \in {"SYN_RCVD", "SYN_SENT"},
         k.state \in {"ESTABLISHED", "FIN_WAIT_1", "CLOSED"}, a.acked = app.acked
  PROVE  EventStep
<1>1. phase = "opening" /\ phase' \in {"open", "closing", "closed"}
  BY DEF Becomes, phase, PhaseOf
<1>2. /\ app.heard = <<>> /\ app.flight = 0 /\ app.acked = 0 /\ ~conn.stopped
      /\ a.heard = Bytes(0, Len(a.heard)) /\ Len(a.heard) \in Nat
      /\ a.flight \in Nat /\ k.stopped \in BOOLEAN
  BY SequenceAssumption DEF Becomes, Good, HeardInOrder, ConnType, AppType
<1>3. a.heard = [i \in 1 .. Len(a.heard) |-> i]
  BY <1>2 DEF Bytes
<1> QED BY <1>1, <1>2, <1>3 DEF EventStep, Becomes, Events!Next, Events!Connected,
        Events!Hears, Events!Sends

LEMMA CalledStep ==
  ASSUME NEW k, NEW a, Becomes(k, a), conn.state = "ESTABLISHED",
         k.state \in {"ESTABLISHED", "FIN_WAIT_1", "CLOSED"},
         a.heard = app.heard \/ (~conn.stopped /\ Len(a.heard) >= Len(app.heard)),
         \/ app.flight > 0 /\ a.acked = app.acked + app.flight
         \/ a.acked = app.acked /\ (app.flight > 0 => a.flight = app.flight)
  PROVE  EventStep
<1>1. phase = "open" /\ phase' \in {"open", "closing", "closed"}
  BY DEF Becomes, phase, PhaseOf
<1>2. /\ a.heard = Bytes(0, Len(a.heard)) /\ Len(a.heard) \in Nat
      /\ a.flight \in Nat /\ k.stopped \in BOOLEAN
      /\ app.flight \in Nat /\ app.acked \in Nat
  BY SequenceAssumption DEF Becomes, Good, HeardInOrder, ConnType, AppType
<1>3. a.heard = [i \in 1 .. Len(a.heard) |-> i]
  BY <1>2 DEF Bytes
<1>4. Events!Hears \/ app'.heard = app.heard
  BY <1>3 DEF Becomes, Events!Hears
<1> QED BY <1>1, <1>2, <1>4 DEF EventStep, Becomes, Events!Next, Events!Called,
        Events!Acknowledges, Events!Sends

LEMMA PeerClosesStep ==
  ASSUME NEW k, NEW a, Becomes(k, a), conn.state = "ESTABLISHED", k.state = "LAST_ACK",
         ~conn.stopped, Len(a.heard) >= Len(app.heard), a.flight = 0,
         \/ app.flight > 0 /\ a.acked = app.acked + app.flight
         \/ app.flight = 0 /\ a.acked = app.acked
  PROVE  EventStep
<1>1. phase = "open" /\ phase' = "left" /\ k.stopped = FALSE
  BY DEF Becomes, Good, ConnType, phase, PhaseOf
<1>2. a.heard = [i \in 1 .. Len(a.heard) |-> i]
  BY DEF Becomes, Good, AppType, HeardInOrder, Bytes
<1>3. Events!PeerCloses
  BY <1>1, <1>2 DEF Becomes, Events!PeerCloses, Events!Acknowledges, Events!Hears
<1> QED BY <1>3 DEF EventStep, Events!Next

-----------------------------------------------------------------------------
(* What the handlers do with a segment                                     *)

Implements(x) ==
  /\ x \in Calls /\ Good(x.k, x.a)
  /\ conn' = x.k /\ app' = x.a => EventStep

(* x after Acknowledged.                                                   *)
Incoming(x, s) ==
  /\ Good(conn, app) /\ SegmentOK(s) /\ ~Unexpected(conn, s)
  /\ x \in Calls /\ x.a = app
  /\ x.k.state = conn.state /\ x.k.stopped = conn.stopped /\ x.k.rcv_nxt = conn.rcv_nxt
  /\ \/ x.flags = {} /\ x.k.len = conn.len
     \/ conn.len > 0 /\ x.k.len = 0 /\ x.flags = {"ACKDATA"}

\* An opening connection has heard nothing.
LEMMA FirstBytes ==
  ASSUME NEW n \in 0 .. MaxIn
  PROVE  /\ Add(Seqno(1), n) = Seqno(1 + n) /\ Seqno(1 + n) \in Nat
         /\ Add(Seqno(0), 1) = Seqno(1) /\ Seqno(1) \in Nat
<1>1. /\ n \in Nat /\ MaxIn \in Nat /\ 1 + n <= MaxIn + 2 /\ 1 + n \in 0 .. MaxIn + 2
      /\ 0 + 1 = 1 /\ 0 + 1 <= MaxIn + 2 /\ 1 \in 0 .. MaxIn + 2
  BY SequenceAssumption
<1> QED BY <1>1, Positions

(* A connection that goes on as it was.                                    *)
LEMMA QuietImplements ==
  ASSUME NEW x, NEW s, Incoming(x, s), conn.state # "ESTABLISHED" \/ x.flags = {}
  PROVE  Implements(x)
<1>1. Good(x.k, x.a)
  BY DEF Incoming, Good, Calls
<1>2. ASSUME conn' = x.k, app' = x.a PROVE EventStep
  BY <1>1, <1>2, QuietStep DEF Incoming, Becomes
<1> QED BY <1>1, <1>2 DEF Implements, Incoming

LEMMA SynRcvdImplements ==
  ASSUME NEW x, NEW s, Incoming(x, s), conn.state = "SYN_RCVD", NEW z \in SynRcvd(x, s)
  PROVE  Implements(z)
<1>1. CASE "ACKDATA" \notin x.flags
  BY <1>1, QuietImplements DEF SynRcvd, Incoming
<1>2. CASE "ACKDATA" \in x.flags
  <2> DEFINE n == Len(s.data)
             new == IF s.data # <<>> THEN {"NEWDATA"} ELSE {}
             k == [x.k EXCEPT !.rcv_nxt = Add(@, n), !.state = "ESTABLISHED"]
             y == [x EXCEPT !.k = k, !.flags = {"CONNECTED"} \union new]
  <2>1. PICK w \in UIP_APPCALL(y, s.data) : z = appsend(w)
    <3>1. [Receive(x, Len(s.data)) EXCEPT !.k.state = "ESTABLISHED",
                                          !.flags = {"CONNECTED"} \union new] = y
      BY DEF Receive, Incoming, Calls
    <3> QED BY <1>2, <3>1 DEF SynRcvd
  <2>2. /\ x.k \in ConnType /\ x.a \in AppType /\ x.a = app /\ app.heard = <<>>
        /\ app.flight = 0 /\ app.acked = 0
        /\ x.k.rcv_nxt = Seqno(1) /\ x.k.len = 0 /\ conn.rcv_nxt = Seqno(1)
        /\ 0 \in 0 .. MaxIn /\ MSS \in Nat
    BY <1>2, SequenceAssumption DEF Incoming, Good, Calls
  <2> HIDE DEF n
  <2>3. SegmentOK(s) /\ conn.rcv_nxt = Seqno(1 + 0) /\ conn.state # "SYN_SENT"
         /\ ~Unexpected(conn, s)
    BY <2>2 DEF Incoming
  <2>4. /\ Len(s.data) \in Nat /\ s.data = Bytes(0, Len(s.data)) /\ 0 + Len(s.data) <= MaxIn
    BY <2>2, <2>3, NextStretch
  <2>5. n \in 0 .. MaxIn /\ n \in Nat /\ s.data = Bytes(0, n) /\ s.data \in Seq(Nat)
        /\ n = Len(s.data) /\ MaxIn \in Nat
    BY <2>3, <2>4, SequenceAssumption DEF SegmentOK, n
  <2>6. Add(Seqno(1), n) = Seqno(1 + n) /\ Seqno(1 + n) \in Nat
    BY <2>5, FirstBytes
  <2>7. /\ k \in ConnType /\ k.state = "ESTABLISHED" /\ k.len = 0 /\ k.rcv_nxt = Seqno(1 + n)
    BY <2>2, <2>6 DEF ConnType, States
  <2> HIDE DEF k
  <2>8. /\ y \in Calls /\ y.k = k /\ y.a = app
        /\ "ACKDATA" \notin y.flags /\ y.flags \intersect {"CLOSE", "ABORT"} = {}
    BY <2>2, <2>7 DEF Incoming, Calls, Flags
  <2> HIDE DEF y
  <2>9. /\ Learns(y, s.data).heard = s.data /\ Learns(y, s.data).flight = 0
        /\ Learns(y, s.data).acked = 0
    BY <2>2, <2>5, <2>8, ToldFirst
  <2>10. HeardInOrder(Learns(y, s.data))
    BY <2>5, <2>9 DEF HeardInOrder
  <2>11. /\ z \in Calls /\ Good(z.k, z.a)
        /\ z.k.state \in {"ESTABLISHED", "FIN_WAIT_1", "CLOSED"} /\ z.a.acked = 0
    BY <2>1, <2>5, <2>7, <2>8, <2>9, <2>10, Appcalled
  <2>12. ASSUME conn' = z.k, app' = z.a PROVE EventStep
    BY <2>2, <2>11, <2>12, ConnectedStep DEF Incoming, Becomes
  <2> QED BY <2>11, <2>12 DEF Implements
<1> QED BY <1>1, <1>2

LEMMA SynSentImplements ==
  ASSUME NEW x, NEW s, Incoming(x, s), conn.state = "SYN_SENT", NEW z \in SynSent(x, s)
  PROVE  Implements(z)
<1>1. /\ x \in Calls /\ x.k \in ConnType /\ x.a \in AppType /\ x.a = app /\ app.heard = <<>>
      /\ app.flight = 0 /\ app.acked = 0 /\ <<>> \in Seq(Nat) /\ MSS \in Nat
      /\ ~x.k.stopped
  BY SequenceAssumption DEF Incoming, Good, Calls
<1>2. CASE "ACKDATA" \in x.flags /\ s.ctl = {"SYN", "ACK"}
  <2> DEFINE k == [x.k EXCEPT !.state = "ESTABLISHED", !.rcv_nxt = Add(s.seqno, 1)]
             y == [x EXCEPT !.k = k, !.flags = {"CONNECTED", "NEWDATA"}]
  <2>1. PICK w \in UIP_APPCALL(y, <<>>) : z = appsend(w)
    <3>1. [x EXCEPT !.k.state = "ESTABLISHED", !.k.rcv_nxt = Add(s.seqno, 1),
                    !.flags = {"CONNECTED", "NEWDATA"}] = y
      BY DEF Incoming, Calls
    <3> QED BY <1>2, <3>1 DEF SynSent
  <2>2. s.seqno = Seqno(0) /\ x.k.len = 0
    BY <1>2 DEF Incoming, SegmentOK
  <2>3. Add(s.seqno, 1) = Seqno(1) /\ Seqno(1) \in Nat
    BY <2>2, FirstBytes, SequenceAssumption
  <2>4. k \in ConnType /\ k.state = "ESTABLISHED" /\ k.len = 0 /\ k.rcv_nxt = Seqno(1)
    BY <1>1, <2>2, <2>3 DEF ConnType, States
  <2> HIDE DEF k
  <2>5. /\ y \in Calls /\ y.k = k /\ y.a = app
        /\ y.flags \intersect {"CLOSE", "ABORT", "ACKDATA"} = {}
    BY <1>1, <2>4 DEF Calls, Flags
  <2> HIDE DEF y
  <2>6. HeardInOrder(app) /\ 1 + Len(app.heard) = 1
    BY <1>1 DEF Incoming, Good
  <2>7. /\ z \in Calls /\ Good(z.k, z.a)
        /\ z.k.state \in {"ESTABLISHED", "FIN_WAIT_1", "CLOSED"} /\ z.a.acked = 0
    BY <1>1, <2>1, <2>4, <2>5, <2>6, AppcalledNoData
  <2>8. ASSUME conn' = z.k, app' = z.a PROVE EventStep
    BY <1>1, <2>7, <2>8, ConnectedStep DEF Incoming, Becomes
  <2> QED BY <2>7, <2>8 DEF Implements
<1>3. CASE ~("ACKDATA" \in x.flags /\ s.ctl = {"SYN", "ACK"})
  <2> DEFINE w == [x EXCEPT !.flags = {"ABORT"}]
             y == Tell(w, <<>>)
             k == [y.k EXCEPT !.state = "CLOSED"]
  <2>1. w \in Calls /\ w.flags = {"ABORT"} /\ w.a = app /\ w.k = x.k
    BY <1>1 DEF Calls, Flags
  <2>2. z = [y EXCEPT !.k.state = "CLOSED"]
    BY <1>3 DEF SynSent
  <2> HIDE DEF w
  <2>3. y \in Calls /\ y.k = x.k
    BY <2>1, ToldNothing
  <2>4. y.a = app
    BY <2>1, ToldNothing
  <2>5. k \in ConnType /\ k.state = "CLOSED" /\ ~k.stopped
    BY <1>1, <2>3 DEF ConnType, States
  <2>6. z = [y EXCEPT !.k = k]
    BY <2>2, <2>3 DEF Calls
  <2> HIDE DEF k, y
  <2>7. z \in Calls /\ z.k = k /\ z.a = app
    BY <2>6, <2>3, <2>4, <2>5 DEF Calls
  <2>8. Good(z.k, z.a)
    BY <1>1, <2>5, <2>7 DEF Incoming, Good
  <2>9. ASSUME conn' = z.k, app' = z.a PROVE EventStep
    BY <2>5, <2>7, <2>8, <2>9, EndStep DEF Incoming, Becomes
  <2> QED BY <2>7, <2>8, <2>9 DEF Implements
<1> QED BY <1>2, <1>3

LEMMA EstablishedCalls ==
  ASSUME NEW x, NEW s, Incoming(x, s), conn.state = "ESTABLISHED",
         NEW m, m = Len(app.heard), NEW n \in 0 .. MaxIn, m + n <= MaxIn,
         n > 0 => ~conn.stopped, NEW data, data = Bytes(m, n),
         NEW y, y = [Receive(x, n) EXCEPT !.flags = @ \union IF data # <<>> THEN {"NEWDATA"} ELSE {}],
         NEW w \in UIP_APPCALL(y, data), NEW z, z = appsend(w)
  PROVE  Implements(z)
<1> DEFINE k == [x.k EXCEPT !.rcv_nxt = Add(@, n)]
           new == IF data # <<>> THEN {"NEWDATA"} ELSE {}
<1>1. /\ x \in Calls /\ x.k \in ConnType /\ x.a \in AppType /\ x.a = app
      /\ app \in AppType /\ app.flight \in Nat /\ app.acked \in Nat
      /\ app.heard = Bytes(0, m) /\ m \in 0 .. MaxIn /\ m \in Nat /\ n \in Nat
      /\ x.k.rcv_nxt = Seqno(1 + m) /\ conn.len = app.flight /\ x.k.state = "ESTABLISHED"
      /\ \/ x.flags = {} /\ x.k.len = conn.len
         \/ conn.len > 0 /\ x.k.len = 0 /\ x.flags = {"ACKDATA"}
  BY SequenceAssumption, SMTT(30) DEF Incoming, Good, HeardInOrder, Calls, AppType
<1>2. /\ app.heard \o data = Bytes(0, m + n) /\ Len(app.heard \o data) = m + n
      /\ data \in Seq(Nat) /\ Add(Seqno(1 + m), n) = Seqno(1 + (m + n))
      /\ Seqno(1 + (m + n)) \in Nat
  <2>1. m \in 0 .. MaxIn /\ n \in Nat /\ m + n <= MaxIn
    BY <1>1
  <2>2. /\ Bytes(0, m) \o Bytes(m, n) = Bytes(0, m + n)
        /\ Len(Bytes(0, m + n)) = m + n /\ Bytes(m, n) \in Seq(Nat)
    BY ONLY <2>1, StretchHeard
  <2>3. Add(Seqno(1 + m), n) = Seqno(1 + (m + n)) /\ Seqno(1 + (m + n)) \in Nat
    BY ONLY <2>1, StretchHeard
  <2> QED BY <1>1, <2>2, <2>3
<1>3. /\ k \in ConnType /\ k.state = "ESTABLISHED" /\ k.len = x.k.len
      /\ k.rcv_nxt = Seqno(1 + (m + n))
  BY <1>1, <1>2 DEF ConnType
<1>4. y = [x EXCEPT !.k = k, !.flags = x.flags \union new]
  BY <1>1 DEF Receive, Calls
<1> HIDE DEF k
<1>5. /\ new \subseteq {"NEWDATA"} /\ x.flags \union new \in SUBSET Flags
      /\ "ACKDATA" \in x.flags \union new <=> x.flags = {"ACKDATA"}
      /\ (x.flags \union new) \intersect {"CLOSE", "ABORT"} = {}
  BY <1>1 DEF Flags
<1> HIDE DEF new
<1>6. y \in Calls /\ y.k = k /\ y.a = app /\ y.flags = x.flags \union new
  BY <1>1, <1>3, <1>4, <1>5 DEF Calls
<1> DEFINE a == Learns(y, data)
<1>7. /\ a \in AppType /\ a.heard = Bytes(0, m + n) /\ Len(a.heard) = m + n
      /\ HeardInOrder(a) /\ k.len = a.flight
      /\ \/ app.flight > 0 /\ a.acked = app.acked + app.flight
         \/ a.acked = app.acked /\ a.flight = app.flight
  <2>1. /\ a \in AppType /\ a.heard = y.a.heard \o data
        /\ "ACKDATA" \in y.flags => a.acked = y.a.acked + y.a.flight /\ a.flight = 0
        /\ "ACKDATA" \notin y.flags => a.acked = y.a.acked /\ a.flight = y.a.flight
    BY <1>2, <1>6, Told
  <2> HIDE DEF a
  <2>2. "ACKDATA" \in y.flags <=> x.flags = {"ACKDATA"}
    BY <1>5, <1>6
  <2>3. HeardInOrder(a) /\ a.heard = Bytes(0, m + n) /\ Len(a.heard) = m + n
    BY <1>2, <1>6, <2>1 DEF HeardInOrder
  <2> QED BY <1>1, <1>3, <1>6, <2>1, <2>2, <2>3
<1>8. /\ y \in Calls /\ data \in Seq(Nat) /\ y.flags \intersect {"CLOSE", "ABORT"} = {}
      /\ HeardInOrder(a) /\ y.k.rcv_nxt = Seqno(1 + Len(a.heard)) /\ y.k.state = "ESTABLISHED"
      /\ y.k.len = a.flight /\ w \in UIP_APPCALL(y, data) /\ z = appsend(w)
  <2> HIDE DEF a
  <2>1. 1 + Len(a.heard) = 1 + (m + n)
    BY <1>7
  <2> QED BY <1>2, <1>3, <1>5, <1>6, <1>7, <2>1
<1>9. /\ z \in Calls /\ Good(z.k, z.a)
      /\ z.k.state \in {"ESTABLISHED", "FIN_WAIT_1", "CLOSED"}
      /\ z.a.acked = a.acked /\ z.a.heard = a.heard
      /\ a.flight > 0 => z.a.flight = a.flight
  BY ONLY <1>8, Appcalled
<1> HIDE DEF a
<1>10. z.a.heard = app.heard \/ (~conn.stopped /\ Len(z.a.heard) >= Len(app.heard))
  BY <1>1, <1>7, <1>9
<1>11. \/ app.flight > 0 /\ z.a.acked = app.acked + app.flight
       \/ z.a.acked = app.acked /\ (app.flight > 0 => z.a.flight = app.flight)
  BY <1>1, <1>7, <1>9
<1>12. ASSUME conn' = z.k, app' = z.a PROVE EventStep
  BY <1>9, <1>10, <1>11, <1>12, CalledStep DEF Incoming, Becomes
<1> QED BY <1>9, <1>12 DEF Implements

LEMMA PeerFinImplements ==
  ASSUME NEW x, NEW s, Incoming(x, s), conn.state = "ESTABLISHED", ~conn.stopped,
         "FIN" \in s.ctl
  PROVE  Implements(PeerFin(x, s))
<1> DEFINE m == Len(app.heard)
           n == Len(s.data)
           new == IF s.data # <<>> THEN {"NEWDATA"} ELSE {}
<1>1. /\ x \in Calls /\ x.k \in ConnType /\ x.a \in AppType /\ x.a = app
      /\ app \in AppType /\ app.flight \in Nat /\ app.acked \in Nat
      /\ app.heard = Bytes(0, m) /\ m \in 0 .. MaxIn /\ m \in Nat
      /\ x.k.rcv_nxt = Seqno(1 + m) /\ conn.rcv_nxt = Seqno(1 + m) /\ conn.len = app.flight
      /\ \/ x.flags = {} /\ x.k.len = conn.len
         \/ conn.len > 0 /\ x.k.len = 0 /\ x.flags = {"ACKDATA"}
      /\ SegmentOK(s) /\ ~Unexpected(conn, s)
  BY SequenceAssumption DEF Incoming, Good, HeardInOrder, Calls, AppType
<1>2. CASE x.k.len > 0
  <2>1. x.flags = {} /\ PeerFin(x, s) = x
    BY <1>1, <1>2 DEF PeerFin
  <2> QED BY <2>1, QuietImplements
<1>3. CASE ~(x.k.len > 0)
  <2>1. n \in Nat /\ s.data = Bytes(m, n) /\ m + n = MaxIn /\ s.data \in Seq(Nat)
    <3> HIDE DEF m
    <3>1. SegmentOK(s) /\ m \in 0 .. MaxIn /\ conn.rcv_nxt = Seqno(1 + m)
          /\ conn.state # "SYN_SENT" /\ ~Unexpected(conn, s) /\ "FIN" \in s.ctl
      BY <1>1
    <3>2. Len(s.data) \in Nat /\ s.data = Bytes(m, Len(s.data)) /\ m + Len(s.data) = MaxIn
      BY ONLY <3>1, NextStretch
    <3> QED BY <3>1, <3>2 DEF SegmentOK
  <2> HIDE DEF m, n
  <2>2. /\ Bytes(0, m) \o Bytes(m, n) = Bytes(0, MaxIn) /\ Len(Bytes(0, MaxIn)) = MaxIn
    BY ONLY <1>1, <2>1, BytesJoin, SequenceAssumption
  <2>3. Add(Seqno(1 + m), 1 + n) = Seqno(2 + MaxIn) /\ Seqno(2 + MaxIn) \in Nat
    <3> DEFINE p == 1 + m
               r == 1 + n
               q == 2 + MaxIn
    <3>1. p \in Nat /\ r \in Nat /\ p + r = q /\ p + r <= MaxIn + 2 /\ q \in 0 .. MaxIn + 2
      BY ONLY <1>1, <2>1, SequenceAssumption
    <3> HIDE DEF p, q, r
    <3>2. Add(Seqno(p), r) = Seqno(q) /\ Seqno(q) \in Nat
      BY ONLY <3>1, Positions
    <3> QED BY <3>2 DEF p, q, r
  <2> DEFINE k == [x.k EXCEPT !.rcv_nxt = Add(@, 1 + n)]
             flags == x.flags \union {"CLOSE"} \union new
             y == [x EXCEPT !.k = k, !.flags = flags]
             w == Tell(y, s.data)
             l == [w.k EXCEPT !.state = "LAST_ACK", !.stopped = FALSE, !.len = 1, !.nrtx = 0]
             v == [w EXCEPT !.k = l]
             z == tcp_send_finack(v)
  <2>4. k \in ConnType /\ k.rcv_nxt = Seqno(2 + MaxIn)
    BY <1>1, <2>3 DEF ConnType
  <2>5. [Receive(x, 1 + n) EXCEPT !.flags = @ \union {"CLOSE"} \union new] = y
    BY <1>1 DEF Receive, Calls
  <2> HIDE DEF k
  <2>6. /\ flags \in SUBSET Flags
        /\ "ACKDATA" \in flags <=> x.flags = {"ACKDATA"}
    BY <1>1 DEF Flags
  <2> HIDE DEF flags
  <2>7. y \in Calls /\ y.k = k /\ y.a = app /\ y.flags = flags
    BY <1>1, <2>4, <2>6 DEF Calls
  <2>8. PeerFin(x, s) = tcp_send_finack([w EXCEPT !.k.state = "LAST_ACK",
                          !.k.stopped = FALSE, !.k.len = 1, !.k.nrtx = 0])
    BY <1>3, <2>5 DEF PeerFin, n
  <2> HIDE DEF y
  <2>9. /\ w \in Calls /\ w.k = k /\ w.a \in AppType /\ w.a.heard = y.a.heard \o s.data
        /\ "ACKDATA" \in y.flags => w.a.acked = y.a.acked + y.a.flight /\ w.a.flight = 0
        /\ "ACKDATA" \notin y.flags => w.a.acked = y.a.acked /\ w.a.flight = y.a.flight
    <3>1. y \in Calls /\ s.data \in Seq(Nat)
      BY <2>1, <2>7
    <3>2. w \in Calls /\ w.k = y.k /\ w.a = Learns(y, s.data)
      BY ONLY <3>1, Told
    <3>3. /\ Learns(y, s.data) \in AppType
          /\ Learns(y, s.data).heard = y.a.heard \o s.data
          /\ "ACKDATA" \in y.flags =>
               Learns(y, s.data).acked = y.a.acked + y.a.flight /\ Learns(y, s.data).flight = 0
          /\ "ACKDATA" \notin y.flags =>
               Learns(y, s.data).acked = y.a.acked /\ Learns(y, s.data).flight = y.a.flight
      BY ONLY <3>1, Told
    <3> HIDE DEF w
    <3> QED BY <2>7, <3>2, <3>3
  <2> HIDE DEF w
  <2>10. /\ w.a.flight = 0
         /\ \/ app.flight > 0 /\ w.a.acked = app.acked + app.flight
            \/ app.flight = 0 /\ w.a.acked = app.acked
    BY <1>1, <1>3, <2>6, <2>7, <2>9
  <2>11. w.a.heard = Bytes(0, MaxIn) /\ Len(w.a.heard) = MaxIn /\ Len(app.heard) <= MaxIn
    <3>1. s.data = Bytes(m, n) /\ app.heard = Bytes(0, m) /\ w.a.heard = app.heard \o s.data
      BY <1>1, <2>1, <2>7, <2>9
    <3>2. m <= MaxIn /\ Len(app.heard) = m
      BY <1>1 DEF m
    <3> QED BY ONLY <2>2, <3>1, <3>2
  <2>12. PeerFin(x, s) = z
    BY <2>8, <2>9 DEF Calls
  <2>13. /\ l \in ConnType /\ l.state = "LAST_ACK" /\ l.stopped = FALSE
         /\ l.rcv_nxt = Seqno(2 + MaxIn)
    BY <2>4, <2>9 DEF ConnType, States
  <2> HIDE DEF l
  <2>14. v \in Calls /\ v.k = l /\ v.a = w.a
    BY <2>9, <2>13 DEF Calls
  <2> HIDE DEF v
  <2>15. z \in Calls /\ z.k = l /\ z.a = w.a
    BY <2>14, Finished
  <2> HIDE DEF z
  <2>16. Good(z.k, z.a)
    BY <2>9, <2>11, <2>13, <2>15, SequenceAssumption DEF Good, HeardInOrder
  <2>17. ASSUME conn' = z.k, app' = z.a PROVE EventStep
    <3>1. Becomes(z.k, z.a) /\ Len(z.a.heard) >= Len(app.heard)
      BY <2>11, <2>15, <2>16, <2>17, SequenceAssumption DEF Incoming, Becomes
    <3> QED BY <3>1, <2>10, <2>13, <2>15, PeerClosesStep
  <2> QED BY <2>12, <2>15, <2>16, <2>17 DEF Implements
<1> QED BY <1>1, <1>2, <1>3

LEMMA EstablishedImplements ==
  ASSUME NEW x, NEW s, Incoming(x, s), conn.state = "ESTABLISHED", NEW z \in Established(x, s)
  PROVE  Implements(z)
<1> DEFINE data == IF x.k.stopped THEN <<>> ELSE s.data
           y == [Receive(x, Len(data)) EXCEPT
                   !.flags = @ \union IF data # <<>> THEN {"NEWDATA"} ELSE {}]
           m == Len(app.heard)
<1>1. CASE "FIN" \in s.ctl /\ ~x.k.stopped
  <2>1. z = PeerFin(x, s) /\ ~conn.stopped
    BY <1>1 DEF Established, Incoming
  <2> QED BY <1>1, <2>1, PeerFinImplements
<1>2. CASE ("FIN" \notin s.ctl \/ x.k.stopped) /\ y.flags # {}
  <2>1. PICK w \in UIP_APPCALL(y, data) : z = appsend(w)
    BY <1>2 DEF Established
  <2>2. /\ m \in 0 .. MaxIn /\ conn.rcv_nxt = Seqno(1 + m) /\ SegmentOK(s)
        /\ ~Unexpected(conn, s) /\ conn.state # "SYN_SENT" /\ conn.stopped = x.k.stopped
    BY SequenceAssumption DEF Incoming, Good, HeardInOrder, AppType
  <2> HIDE DEF m
  <2>3. Len(s.data) \in Nat /\ s.data = Bytes(m, Len(s.data)) /\ m + Len(s.data) <= MaxIn
    BY ONLY <2>2, NextStretch
  <2>4. /\ Len(data) \in 0 .. MaxIn /\ data = Bytes(m, Len(data))
        /\ m + Len(data) <= MaxIn /\ (Len(data) > 0 => ~conn.stopped)
    <3>1. CASE x.k.stopped
      BY <2>2, <3>1, Empty, SequenceAssumption
    <3>2. CASE ~x.k.stopped
      BY <2>2, <2>3, <3>2, SequenceAssumption
    <3> QED BY <3>1, <3>2
  <2> HIDE DEF data
  <2>5. m = Len(app.heard)
    BY DEF m
  <2> QED BY <2>1, <2>4, <2>5, EstablishedCalls
<1>3. CASE ~("FIN" \in s.ctl /\ ~x.k.stopped) /\ y.flags = {}
  <2>1. z = x
    BY <1>3 DEF Established
  <2>2. x.flags = {}
    BY <1>3 DEF Receive, Incoming, Calls
  <2> QED BY <2>1, <2>2, QuietImplements
<1> QED BY <1>1, <1>2, <1>3

(* A connection on its way out.                                            *)
ClosingStates == {"FIN_WAIT_1", "FIN_WAIT_2", "CLOSING", "TIME_WAIT"}

LEMMA ClosingImplements ==
  ASSUME NEW z, z \in Calls, z.a = app, Good(conn, app), ~z.k.stopped,
         conn.state \in ClosingStates, z.k.state \in ClosingStates
  PROVE  Implements(z)
<1>1. Good(z.k, z.a)
  BY DEF Good, Calls, ClosingStates
<1>2. PhaseOf(z.k.state) = PhaseOf(conn.state) /\ z.k.stopped = conn.stopped
  BY DEF Good, Calls, ConnType, PhaseOf, ClosingStates
<1>3. ASSUME conn' = z.k, app' = z.a PROVE EventStep
  BY <1>1, <1>2, <1>3, QuietStep DEF Becomes
<1> QED BY <1>1, <1>3 DEF Implements

LEMMA EndImplements ==
  ASSUME NEW z, z \in Calls, z.a = app, Good(conn, app), ~z.k.stopped,
         conn.state # "CLOSED", z.k.state = "CLOSED"
  PROVE  Implements(z)
<1>1. Good(z.k, z.a)
  BY DEF Good, Calls
<1>2. ASSUME conn' = z.k, app' = z.a PROVE EventStep
  BY <1>1, <1>2, EndStep DEF Becomes
<1> QED BY <1>1, <1>2 DEF Implements

LEMMA FinWaitImplements ==
  ASSUME NEW x, NEW s, Incoming(x, s), conn.state \in {"FIN_WAIT_1", "FIN_WAIT_2"}
  PROVE  Implements(FinWait(x, s))
<1> DEFINE acked == x.k.state = "FIN_WAIT_2" \/ "ACKDATA" \in x.flags
           y == Receive(x, Len(s.data))
<1>1. /\ x \in Calls /\ x.k \in ConnType /\ x.a = app /\ ~x.k.stopped
      /\ Good(conn, app) /\ Len(s.data) \in Nat /\ x.k.state = conn.state
  BY DEF Incoming, Good, Calls, SegmentOK
<1>2. y \in Calls /\ y.a = app /\ ~y.k.stopped /\ y.k.state = conn.state
  <2> DEFINE k == [x.k EXCEPT !.rcv_nxt = Add(@, Len(s.data))]
  <2>1. y = [x EXCEPT !.k = k]
    BY <1>1 DEF Receive, Calls
  <2>2. k \in ConnType /\ k.state = x.k.state /\ k.stopped = x.k.stopped
    BY <1>1, AddIsNat DEF ConnType
  <2> HIDE DEF k
  <2> QED BY <1>1, <2>1, <2>2 DEF Calls
<1>3. CASE "FIN" \notin s.ctl
  <2> DEFINE k == [y.k EXCEPT !.state = IF acked THEN "FIN_WAIT_2" ELSE @]
             z == [y EXCEPT !.k = k]
  <2>1. FinWait(x, s) = z
    BY <1>2, <1>3 DEF FinWait, Calls
  <2> HIDE DEF y
  <2>2. k \in ConnType /\ ~k.stopped /\ k.state \in ClosingStates
    BY <1>2 DEF Calls, ConnType, States, ClosingStates
  <2> HIDE DEF k
  <2>3. z \in Calls /\ z.k = k /\ z.a = app
    BY <1>2, <2>2 DEF Calls
  <2> HIDE DEF z
  <2> QED BY <1>1, <2>1, <2>2, <2>3, ClosingImplements DEF ClosingStates
<1>4. CASE "FIN" \in s.ctl
  <2> DEFINE state == IF acked THEN "TIME_WAIT" ELSE "CLOSING"
             k == [y.k EXCEPT !.rcv_nxt = Add(@, 1), !.state = state]
             z == [y EXCEPT !.k = k, !.flags = {"CLOSE"}]
  <2>1. FinWait(x, s) = Tell([Receive(y, 1) EXCEPT !.k.state = state, !.flags = {"CLOSE"}], <<>>)
    BY <1>4 DEF FinWait
  <2>2. state \in {"TIME_WAIT", "CLOSING"}
    OBVIOUS
  <2> HIDE DEF y, state
  <2>3. [Receive(y, 1) EXCEPT !.k.state = state, !.flags = {"CLOSE"}] = z
    BY <1>2 DEF Receive, Calls
  <2>4. k \in ConnType /\ ~k.stopped /\ k.state \in ClosingStates
    BY <1>2, <2>2, AddIsNat DEF Calls, ConnType, States, ClosingStates
  <2> HIDE DEF k
  <2>5. z \in Calls /\ z.k = k /\ z.a = app /\ "ACKDATA" \notin z.flags
    BY <1>2, <2>4 DEF Calls, Flags
  <2> HIDE DEF z
  <2>6. FinWait(x, s) = z
    BY <2>1, <2>3, <2>5, ToldNothing
  <2> QED BY <1>1, <2>4, <2>5, <2>6, ClosingImplements DEF ClosingStates
<1> QED BY <1>3, <1>4

LEMMA LastAckImplements ==
  ASSUME NEW x, NEW s, Incoming(x, s), conn.state = "LAST_ACK"
  PROVE  Implements(LastAck(x))
<1>1. /\ x \in Calls /\ x.k \in ConnType /\ x.a = app /\ ~x.k.stopped
      /\ Good(conn, app)
  BY DEF Incoming, Good, Calls
<1>2. CASE "ACKDATA" \notin x.flags
  BY <1>2, QuietImplements DEF LastAck
<1>3. CASE "ACKDATA" \in x.flags
  <2> DEFINE k == [x.k EXCEPT !.state = "CLOSED"]
             z == [x EXCEPT !.k = k, !.flags = {"CLOSE"}]
  <2>1. LastAck(x) = Tell(z, <<>>)
    <3>1. [x EXCEPT !.k.state = "CLOSED", !.flags = {"CLOSE"}] = z
      BY <1>1 DEF Calls
    <3> QED BY <1>3, <3>1 DEF LastAck
  <2>2. k \in ConnType /\ ~k.stopped /\ k.state = "CLOSED"
    BY <1>1 DEF ConnType, States
  <2> HIDE DEF k
  <2>3. z \in Calls /\ z.k = k /\ z.a = app /\ "ACKDATA" \notin z.flags
    BY <1>1, <2>2 DEF Calls, Flags
  <2> HIDE DEF z
  <2>4. LastAck(x) = z
    BY <2>1, <2>3, ToldNothing
  <2> QED BY <1>1, <2>2, <2>3, <2>4, EndImplements
<1> QED BY <1>2, <1>3

LEMMA ClosingStateImplements ==
  ASSUME NEW x, NEW s, Incoming(x, s), conn.state = "CLOSING"
  PROVE  Implements(Closing(x))
<1> DEFINE k == [x.k EXCEPT !.state = IF "ACKDATA" \in x.flags THEN "TIME_WAIT" ELSE @]
           z == [x EXCEPT !.k = k]
<1>1. /\ x \in Calls /\ x.k \in ConnType /\ x.a = app /\ ~x.k.stopped
      /\ Good(conn, app) /\ x.k.state = "CLOSING"
  BY DEF Incoming, Good, Calls
<1>2. Closing(x) = z
  BY <1>1 DEF Closing, Calls
<1>3. k \in ConnType /\ ~k.stopped /\ k.state \in ClosingStates
  BY <1>1 DEF ConnType, States, ClosingStates
<1> HIDE DEF k
<1>4. z \in Calls /\ z.k = k /\ z.a = app
  BY <1>1, <1>3 DEF Calls
<1> HIDE DEF z
<1> QED BY <1>1, <1>2, <1>3, <1>4, ClosingImplements DEF ClosingStates

LEMMA FoundImplements ==
  ASSUME Good(conn, app), conn.state # "CLOSED", NEW s, SegmentOK(s), NEW z \in found(s)
  PROVE  Implements(z)
<1> DEFINE c == Call({})
           x == Acknowledged(c, s)
<1>1. /\ c \in Calls /\ c.k = conn /\ c.a = app /\ c.flags = {}
  BY DEF Call, Calls, Good
<1>2. CASE Unexpected(conn, s)
  <2>1. z = c
    BY <1>2 DEF found
  <2> HIDE DEF c
  <2>2. ASSUME conn' = z.k, app' = z.a PROVE EventStep
    BY <1>1, <2>1, <2>2, QuietStep DEF Becomes
  <2> QED BY <1>1, <2>1, <2>2 DEF Implements
<1>3. CASE ~Unexpected(conn, s)
  <2>1. \/ conn.state = "SYN_RCVD" /\ z \in SynRcvd(x, s)
        \/ conn.state = "SYN_SENT" /\ z \in SynSent(x, s)
        \/ conn.state = "ESTABLISHED" /\ z \in Established(x, s)
        \/ conn.state \in {"FIN_WAIT_1", "FIN_WAIT_2"} /\ z = FinWait(x, s)
        \/ conn.state = "LAST_ACK" /\ z = LastAck(x)
        \/ conn.state = "CLOSING" /\ z = Closing(x)
        \/ conn.state = "TIME_WAIT" /\ z = x
    BY <1>3 DEF found, Good, ConnType, States
  <2> HIDE DEF c
  <2>2. Incoming(x, s)
    BY <1>1, <1>3, AckTaken DEF Incoming
  <2> HIDE DEF x
  <2> QED BY <2>1, <2>2, SynRcvdImplements, SynSentImplements, EstablishedImplements,
          FinWaitImplements, LastAckImplements, ClosingStateImplements, QuietImplements
<1> QED BY <1>2, <1>3

-----------------------------------------------------------------------------
(* The actions                                                             *)

PeerType == [role : {"none", "opens", "accepts"}, rcv : Nat, got : Seq(Nat), fin : BOOLEAN]

(* The inductive invariant: a connection and its application fit, and      *)
(* before the one connection there is nothing.                             *)
Inv ==
  /\ Good(conn, app)
  /\ peer \in PeerType /\ sent \in SUBSET Wire
  /\ peer.role = "none" => conn.state = "CLOSED" /\ app = [acked |-> 0, flight |-> 0, heard |-> <<>>]

Steps == EventStep /\ Inv'

LEMMA DoneSteps ==
  ASSUME Inv, NEW z, Implements(z), Done(z), UNCHANGED peer, conn.state # "CLOSED"
  PROVE  Steps
<1>1. conn' = z.k /\ app' = z.a /\ sent' = sent \union z.out
  BY DEF Done
<1>2. EventStep /\ Good(conn', app')
  BY <1>1 DEF Implements
<1>3. sent' \in SUBSET Wire
  BY <1>1 DEF Inv, Implements, Calls
<1>4. peer.role # "none"
  BY DEF Inv
<1>5. Inv'
  BY <1>2, <1>3, <1>4 DEF Inv, Good, HeardInOrder, Seqno
<1> QED BY <1>2, <1>5 DEF Steps

LEMMA ArrivesSteps == ASSUME Inv, Arrives PROVE Steps
<1>1. PICK s \in SegmentsOfPeer : \E x \in found(s) : Done(x)
  BY DEF Arrives
<1>2. PICK x \in found(s) : Done(x)
  BY <1>1
<1>3. SegmentOK(s)
  BY PeerSends DEF Inv, PeerType
<1>4. Implements(x)
  BY <1>3, FoundImplements DEF Inv, Arrives
<1> QED BY <1>2, <1>4, DoneSteps DEF Arrives

\* A call that only tells the application of the end.
LEMMA EndsSteps ==
  ASSUME Inv, conn.state # "CLOSED", NEW flags \in SUBSET Flags, "ACKDATA" \notin flags,
         Done(Tell([Call(flags) EXCEPT !.k.state = "CLOSED", !.k.stopped = FALSE], <<>>)),
         UNCHANGED peer
  PROVE  Steps
<1> DEFINE c == Call(flags)
           k == [conn EXCEPT !.state = "CLOSED", !.stopped = FALSE]
           z == [c EXCEPT !.k = k]
<1>1. /\ c \in Calls /\ c.k = conn /\ c.a = app /\ c.flags = flags
  BY DEF Call, Calls, Good, Inv
<1>2. Done(Tell(z, <<>>))
  <2>1. [c EXCEPT !.k.state = "CLOSED", !.k.stopped = FALSE] = z
    BY <1>1 DEF Calls
  <2> QED BY <2>1
<1>3. k \in ConnType /\ k.state = "CLOSED" /\ ~k.stopped
  BY DEF Inv, Good, ConnType, States
<1> HIDE DEF c, k
<1>4. z \in Calls /\ z.k = k /\ z.a = app /\ "ACKDATA" \notin z.flags
  BY <1>1, <1>3 DEF Calls
<1> HIDE DEF z
<1>5. Tell(z, <<>>) = z
  BY <1>4, ToldNothing
<1> QED BY <1>2, <1>3, <1>4, <1>5, EndImplements, DoneSteps DEF Inv

LEMMA ResetSteps == ASSUME Inv, Reset PROVE Steps
<1>1. {"ABORT"} \in SUBSET Flags /\ "ACKDATA" \notin {"ABORT"}
  BY DEF Flags
<1> QED BY <1>1, EndsSteps DEF Reset

\* Once more: the connection as it was, one retransmission later.
LEMMA AgainImplements ==
  ASSUME Inv, conn.state \notin {"CLOSED", "TIME_WAIT", "FIN_WAIT_2"},
         NEW z \in Again([Call({"REXMIT"}) EXCEPT !.k.nrtx = @ + 1])
  PROVE  Implements(z)
<1> DEFINE c == Call({"REXMIT"})
           k == [conn EXCEPT !.nrtx = @ + 1]
           x == [c EXCEPT !.k = k]
<1>1. /\ c \in Calls /\ c.k = conn /\ c.a = app /\ c.flags = {"REXMIT"}
      /\ Good(conn, app)
  BY DEF Call, Calls, Good, Inv, Flags
<1>2. z \in Again(x)
  <2>1. [c EXCEPT !.k.nrtx = @ + 1] = x
    BY <1>1 DEF Calls
  <2> QED BY <2>1
<1>3. /\ k \in ConnType /\ k.state = conn.state /\ k.stopped = conn.stopped
      /\ k.rcv_nxt = conn.rcv_nxt /\ k.len = conn.len
  BY DEF Inv, Good, ConnType
<1> HIDE DEF c, k
<1>4. x \in Calls /\ x.k = k /\ x.a = app /\ x.flags = {"REXMIT"}
  BY <1>1, <1>3 DEF Calls
<1> HIDE DEF x
<1>5. Good(k, app)
  BY <1>1, <1>3 DEF Good
<1>6. CASE conn.state # "ESTABLISHED"
  <2>1. \/ z = tcp_send(x, {"SYN", "ACK"}, <<>>)
        \/ z = tcp_send(x, {"SYN"}, <<>>)
        \/ z = tcp_send_finack(x)
    BY <1>2, <1>3, <1>4, <1>6 DEF Again
  <2>2. z \in Calls /\ z.k = k /\ z.a = app
    <3>1. <<>> \in Seq(Nat) /\ {"SYN", "ACK"} \in SUBSET Flag /\ {"SYN"} \in SUBSET Flag
      BY DEF Flag
    <3>2. CASE z = tcp_send_finack(x)
      BY <1>4, <3>2, Finished
    <3>3. CASE z = tcp_send(x, {"SYN", "ACK"}, <<>>)
      BY <1>4, <3>1, <3>3, Sent
    <3>4. CASE z = tcp_send(x, {"SYN"}, <<>>)
      BY <1>4, <3>1, <3>4, Sent
    <3> QED BY <2>1, <3>2, <3>3, <3>4
  <2>3. ASSUME conn' = z.k, app' = z.a PROVE EventStep
    BY <1>1, <1>3, <1>5, <2>2, <2>3, QuietStep DEF Becomes
  <2> QED BY <1>5, <2>2, <2>3 DEF Implements
<1>7. CASE conn.state = "ESTABLISHED"
  <2>1. PICK y \in Answers(x) : z = apprexmit(y)
    <3>1. PICK y \in UIP_APPCALL(x, <<>>) : z = apprexmit(y)
      BY <1>2, <1>3, <1>4, <1>7 DEF Again
    <3>2. Tell(x, <<>>) = x
      BY <1>4, ToldNothing
    <3> QED BY <3>1, <3>2 DEF UIP_APPCALL
  <2>2. /\ y \in Calls
        /\ y.k.state = k.state /\ y.k.len = k.len /\ y.k.rcv_nxt = k.rcv_nxt
        /\ y.a.acked = app.acked /\ y.a.heard = app.heard /\ y.a.flight = app.flight
    <3>1. x.flags = {"REXMIT"} => "CLOSE" \notin x.flags /\ "ABORT" \notin x.flags
      OBVIOUS
    <3> QED BY <1>4, <3>1, Answered
  <2>3. z \in Calls /\ z.k = y.k /\ z.a = y.a
    BY <2>1, <2>2, Repeated
  <2>4. Good(z.k, z.a)
    BY <1>1, <1>3, <1>7, <2>2, <2>3 DEF Good, HeardInOrder, Calls
  <2>5. ASSUME conn' = z.k, app' = z.a PROVE EventStep
    BY <1>1, <1>3, <1>7, <2>2, <2>3, <2>4, <2>5, CalledStep DEF Becomes
  <2> QED BY <2>3, <2>4, <2>5 DEF Implements
<1> QED BY <1>6, <1>7

LEMMA RetransmitsSteps == ASSUME Inv, Retransmits PROVE Steps
<1>1. CASE TooOften
  <2>1. {"TIMEDOUT"} \in SUBSET Flags /\ "ACKDATA" \notin {"TIMEDOUT"}
    BY DEF Flags
  <2> QED BY <1>1, <2>1, EndsSteps DEF Retransmits
<1>2. CASE ~TooOften
  <2>1. PICK z \in Again([Call({"REXMIT"}) EXCEPT !.k.nrtx = @ + 1]) : Done(z)
    BY <1>2 DEF Retransmits
  <2>2. conn.state \notin {"CLOSED", "TIME_WAIT", "FIN_WAIT_2"} /\ UNCHANGED peer
    BY DEF Retransmits
  <2>3. Implements(z)
    BY <2>1, <2>2, AgainImplements
  <2> QED BY <2>1, <2>2, <2>3, DoneSteps
<1> QED BY <1>1, <1>2

LEMMA PollsSteps == ASSUME Inv, Polls PROVE Steps
<1> DEFINE c == Call({"POLL"})
<1>1. /\ c \in Calls /\ c.k = conn /\ c.a = app /\ c.flags = {"POLL"}
      /\ Good(conn, app) /\ conn.state = "ESTABLISHED" /\ UNCHANGED peer
  BY DEF Call, Calls, Good, Inv, Flags, Polls
<1>2. PICK y \in UIP_APPCALL(c, <<>>) : Done(appsend(y))
  BY DEF Polls
<1> HIDE DEF c
<1> DEFINE z == appsend(y)
<1>3. /\ c.flags \intersect {"CLOSE", "ABORT", "ACKDATA"} = {}
      /\ c.k.state = "ESTABLISHED" /\ c.k.len = c.a.flight
      /\ HeardInOrder(c.a) /\ c.k.rcv_nxt = Seqno(1 + Len(c.a.heard))
  BY <1>1 DEF Good
<1>4. /\ z \in Calls /\ Good(z.k, z.a)
      /\ z.k.state \in {"ESTABLISHED", "FIN_WAIT_1", "CLOSED"}
      /\ z.a.acked = c.a.acked /\ z.a.heard = c.a.heard
      /\ c.a.flight > 0 => z.a.flight = c.a.flight
  BY <1>1, <1>2, <1>3, AppcalledNoData
<1> HIDE DEF z
<1>5. ASSUME conn' = z.k, app' = z.a PROVE EventStep
  BY <1>1, <1>4, <1>5, CalledStep DEF Becomes
<1>6. Implements(z) /\ Done(z)
  BY <1>2, <1>4, <1>5 DEF Implements, z
<1> QED BY <1>1, <1>6, DoneSteps

LEMMA WaitExpiresSteps == ASSUME Inv, WaitExpires PROVE Steps
<1> DEFINE k == [conn EXCEPT !.state = "CLOSED"]
<1>1. /\ k \in ConnType /\ k.state = "CLOSED" /\ ~k.stopped /\ conn.state # "CLOSED"
      /\ conn' = k /\ app' = app /\ Good(conn, app)
  BY DEF WaitExpires, Inv, Good, ConnType, States
<1> HIDE DEF k
<1>2. Good(k, app)
  BY <1>1 DEF Good
<1>3. EventStep
  BY <1>1, <1>2, EndStep DEF Becomes
<1>4. peer' = peer /\ sent' = sent
  BY DEF WaitExpires
<1>5. Inv'
  BY <1>1, <1>2, <1>4 DEF Inv, Good, HeardInOrder, Seqno
<1> QED BY <1>3, <1>5 DEF Steps

\* A connection begins.
LEMMA OpeningSteps ==
  ASSUME Inv, conn.state = "CLOSED", peer.role = "none", NEW k \in ConnType,
         k.state \in {"SYN_RCVD", "SYN_SENT"}, ~k.stopped,
         k.state = "SYN_RCVD" => k.rcv_nxt = Seqno(1),
         conn' = k, app' = app, NEW role \in {"opens", "accepts"},
         peer' = [peer EXCEPT !.role = role], sent' \in SUBSET Wire
  PROVE  Steps
<1>1. Good(k, app)
  BY DEF Inv, Good
<1>2. Events!Opening
  <2>1. phase = "closed" /\ phase' = "opening"
    BY DEF phase, PhaseOf
  <2>2. k.stopped = conn.stopped
    BY DEF Inv, Good, ConnType
  <2> QED BY <2>1, <2>2 DEF Events!Opening
<1>3. peer' \in PeerType /\ peer'.role # "none"
  BY DEF Inv, PeerType
<1>4. Inv'
  BY <1>1, <1>3 DEF Inv, Good, HeardInOrder, Seqno
<1> QED BY <1>2, <1>4 DEF Steps, EventStep, Events!Next

LEMMA FoundListenSteps == ASSUME Inv, found_listen PROVE Steps
<1> DEFINE k == [conn EXCEPT !.state = "SYN_RCVD", !.snd_nxt = Iss, !.len = 1, !.nrtx = 0,
                             !.rcv_nxt = Add(Seqno(0), 1)]
           c == [Call({}) EXCEPT !.k = k]
           z == tcp_send(c, {"SYN", "ACK"}, <<>>)
<1>1. /\ conn.state = "CLOSED" /\ peer.role = "none" /\ Done(z)
      /\ peer' = [peer EXCEPT !.role = "opens"]
  BY DEF found_listen
<1>2. /\ k \in ConnType /\ k.state = "SYN_RCVD" /\ ~k.stopped /\ k.rcv_nxt = Seqno(1)
  <2>1. 0 \in 0 .. MaxIn /\ Iss \in Nat
    BY SequenceAssumption
  <2>2. Add(Seqno(0), 1) = Seqno(1) /\ Seqno(1) \in Nat
    BY <2>1, FirstBytes
  <2> QED BY <1>1, <2>1, <2>2 DEF Inv, Good, ConnType, States
<1> HIDE DEF k
<1>3. c \in Calls /\ c.k = k /\ c.a = app
  BY <1>2 DEF Call, Calls, Inv, Good
<1> HIDE DEF c
<1>4. z \in Calls /\ z.k = k /\ z.a = app
  <2>1. <<>> \in Seq(Nat) /\ {"SYN", "ACK"} \in SUBSET Flag
    BY DEF Flag
  <2> QED BY <1>3, <2>1, Sent
<1> HIDE DEF z
<1>5. conn' = k /\ app' = app /\ sent' \in SUBSET Wire
  BY <1>1, <1>4 DEF Done, Inv, Calls
<1> QED BY <1>1, <1>2, <1>5, OpeningSteps

LEMMA ConnectSteps == ASSUME Inv, uip_connect PROVE Steps
<1> DEFINE k == [conn EXCEPT !.state = "SYN_SENT", !.snd_nxt = Iss, !.len = 1, !.nrtx = 0]
<1>1. k \in ConnType /\ k.state = "SYN_SENT" /\ ~k.stopped
  <2>1. conn \in ConnType /\ ~conn.stopped /\ Iss \in Nat
    BY SequenceAssumption DEF uip_connect, Inv, Good
  <2> QED BY <2>1 DEF ConnType, States
<1>2. /\ conn.state = "CLOSED" /\ peer.role = "none" /\ conn' = k /\ app' = app
      /\ peer' = [peer EXCEPT !.role = "accepts"] /\ sent' \in SUBSET Wire
  BY DEF uip_connect, Inv
<1> HIDE DEF k
<1> QED BY <1>1, <1>2, OpeningSteps

LEMMA PeerGetsSteps == ASSUME Inv, PeerGets PROVE Steps
<1>1. PICK s \in sent :
        peer' = [peer EXCEPT !.rcv = @ + Len(s.data) + IF s.data = <<>> THEN 1 ELSE 0,
                             !.got = @ \o s.data, !.fin = "FIN" \in s.ctl]
  BY DEF PeerGets
<1>2. UNCHANGED <<conn, app, sent>>
  BY DEF PeerGets
<1>3. s.data \in Seq(Nat) /\ Len(s.data) \in Nat
  BY DEF Inv, Wire
<1>4. peer' \in PeerType /\ peer'.role = peer.role
  <2> DEFINE rcv == peer.rcv + Len(s.data) + IF s.data = <<>> THEN 1 ELSE 0
             got == peer.got \o s.data
             fin == "FIN" \in s.ctl
  <2>1. /\ peer \in PeerType /\ peer.rcv \in Nat /\ peer.got \in Seq(Nat)
    BY DEF Inv, PeerType
  <2>2. rcv \in Nat /\ got \in Seq(Nat) /\ fin \in BOOLEAN
    BY <1>3, <2>1
  <2>3. peer' = [peer EXCEPT !.rcv = rcv, !.got = got, !.fin = fin]
    BY <1>1
  <2> HIDE DEF rcv, got, fin
  <2> QED BY <2>1, <2>2, <2>3 DEF PeerType
<1>5. Inv'
  BY <1>2, <1>4 DEF Inv, Good, HeardInOrder, Seqno
<1>6. EventStep
  BY <1>2 DEF EventStep, phase
<1> QED BY <1>5, <1>6 DEF Steps

-----------------------------------------------------------------------------
(* The theorems                                                            *)

LEMMA InitInv == Init => Inv /\ Events!Init
<1> SUFFICES ASSUME Init PROVE Inv /\ Events!Init
  OBVIOUS
<1>1. <<>> \in Seq(Nat) /\ Len(<<>>) = 0 /\ <<>> = Bytes(0, 0) /\ MaxIn \in Nat
      /\ 0 \in 0 .. MSS
  BY Empty, SequenceAssumption
<1>2. conn \in ConnType /\ app \in AppType /\ peer \in PeerType
  BY <1>1 DEF Init, ConnType, AppType, PeerType, States
<1>3. HeardInOrder(app)
  BY <1>1 DEF Init, HeardInOrder
<1>4. Inv
  BY <1>2, <1>3 DEF Init, Inv, Good
<1>5. Events!Init
  BY DEF Init, Events!Init, phase, PhaseOf
<1> QED BY <1>4, <1>5

LEMMA NextSteps == Inv /\ [Next]_vars => Steps
<1> SUFFICES ASSUME Inv, [Next]_vars PROVE Steps
  OBVIOUS
<1>1. CASE UNCHANGED vars
  <2>1. EventStep
    BY <1>1 DEF EventStep, vars, phase
  <2>2. Inv'
    BY <1>1 DEF vars, Inv, Good, HeardInOrder, Seqno
  <2> QED BY <2>1, <2>2 DEF Steps
<1>2. CASE Next
  BY <1>2, FoundListenSteps, ConnectSteps, ArrivesSteps, ResetSteps, RetransmitsSteps,
     PollsSteps, WaitExpiresSteps, PeerGetsSteps DEF Next
<1> QED BY <1>1, <1>2

(* Between two calls of uip_process the connection and what its application *)
(* knows fit together, whatever arrived and whatever the application asked *)
(* for (uip.c:1449-1905).                                                  *)
THEOREM SpecInv == Spec => []Inv
<1>1. Inv /\ [Next]_vars => Inv'
  BY NextSteps DEF Steps
<1> QED BY <1>1, InitInv, PTL DEF Spec

(* The application hears the peer's bytes in order and each once, and      *)
(* while the connection is established uIP acknowledges exactly what was   *)
(* heard (uip.c:1475-1485, 1693-1742), whatever the network loses, repeats *)
(* and reorders.                                                           *)
THEOREM SpecStreamIn == Spec => []StreamIn
<1>1. Inv => StreamIn
  BY DEF Inv, Good, HeardInOrder, StreamIn
<1> QED BY <1>1, SpecInv, PTL

(* uip_process keeps the order of events its applications are written      *)
(* against: every behaviour of a connection is one of UipEvents.           *)
THEOREM SpecContract == Spec => Contract
<1>1. Inv /\ [Next]_vars => [Events!Next]_(Events!vars)
  BY NextSteps DEF Steps, EventStep, Events!vars
<1> QED BY <1>1, InitInv, SpecInv, PTL DEF Spec, Contract, Events!Spec

-----------------------------------------------------------------------------
(* The other direction: the peer gets the application's bytes in order,    *)
(* and what the application was told is acknowledged is what the peer has. *)
(* Rests on the invariant above, and on what has been sent so far.         *)

Early == {"SYN_RCVD", "SYN_SENT", "ESTABLISHED"}
Leaving == {"FIN_WAIT_1", "CLOSING", "LAST_ACK"}
Left == {"FIN_WAIT_2", "TIME_WAIT"}
Own(p) == Add(Iss, p)

(* Where the connection stands in the application's stream.                *)
Place(k, a) ==
  /\ a.acked + a.flight <= MaxOut
  /\ k.state \in {"SYN_RCVD", "SYN_SENT"} => k.snd_nxt = Own(0) /\ k.len = 1
  /\ k.state \in {"ESTABLISHED"} \union Leaving => k.snd_nxt = Own(1 + a.acked)
  /\ k.state \in Leaving => k.len = 1
  /\ k.state \in Left => k.len = 0

(* Segments sent: the SYN, the FIN after what was acknowledged, data that  *)
(* was acknowledged or all that is under way.                              *)
OfStream(k, a, s) ==
  \/ s.seqno = Own(0) /\ s.data = <<>> /\ "FIN" \notin s.ctl
  \/ s.seqno = Own(1 + a.acked) /\ s.data = <<>> /\ "FIN" \in s.ctl /\ k.state \notin Early
  \/ \E q \in 0 .. MaxOut :
       /\ s.seqno = Own(1 + q) /\ s.data # <<>> /\ "FIN" \notin s.ctl
       /\ q < a.acked \/ (q = a.acked /\ s.data = Bytes(q, a.flight))

(* The peer has nothing, or the bytes acknowledged, perhaps those under    *)
(* way, perhaps the FIN in their place.                                    *)
Received(k, a) ==
  \E n \in 0 .. MaxOut :
    /\ peer.got = Bytes(0, n)
    /\ \/ /\ peer.rcv = 0 /\ n = 0 /\ peer.fin = FALSE
          /\ a.acked = 0 /\ a.flight = 0 /\ k.state # "ESTABLISHED"
       \/ peer.rcv = 1 + n /\ peer.fin = FALSE /\ n \in {a.acked, a.acked + a.flight}
       \/ peer.rcv = 2 + n /\ peer.fin = TRUE /\ n = a.acked /\ k.state \notin Early

Ended(k, a, h) ==
  /\ k.state \in Early => h = FALSE
  /\ k.state \in Leaving \union Left => h = TRUE \/ a.flight = 0
  /\ k.state \in Left => h = TRUE \/ peer.fin = TRUE

Fits(k, a, h, segs) ==
  /\ Place(k, a) /\ Received(k, a) /\ Ended(k, a, h)
  /\ \A s \in segs : OfStream(k, a, s)

(* hasty after the step that ends in call z.                               *)
Later(z) ==
  IF conn.state # "FIN_WAIT_1" /\ z.k.state = "FIN_WAIT_1" /\ z.a.flight > 0 THEN TRUE ELSE hasty

Now == hasty \in BOOLEAN /\ Fits(conn, app, hasty, sent)
Keeps(z) == Fits(z.k, z.a, Later(z), sent \union z.out)

-----------------------------------------------------------------------------
(* What of Fits depends on what                                            *)

LEMMA OwnPositions ==
  /\ \A p \in 0 .. MaxOut + 2 : Own(p) \in Nat
  /\ \A p, q \in 0 .. MaxOut + 2 : Own(p) = Own(q) => p = q
  /\ \A p, n \in Nat : p + n <= MaxOut + 2 => Add(Own(p), n) = Own(p + n)
BY SequenceAssumption DEF Own, Add

LEMMA EmptyIff == \A q, n \in Nat : Bytes(q, n) = <<>> <=> n = 0
BY DEF Bytes

(* The end of a connection leaves the streams as they are.                 *)
LEMMA FitsEnded ==
  ASSUME NEW k, NEW a, NEW h, NEW segs, NEW end,
         Fits(k, a, h, segs), end.state = "CLOSED"
  PROVE  Fits(end, a, h, segs)
<1>1. Place(end, a) /\ Ended(end, a, h)
  BY DEF Fits, Place, Ended, Early, Leaving, Left
<1>2. Received(end, a)
  BY DEF Fits, Received, Early
<1>3. \A s \in segs : OfStream(end, a, s)
  BY DEF Fits, OfStream, Early
<1> QED BY <1>1, <1>2, <1>3 DEF Fits

(* With nothing under way the application may start a segment.             *)
LEMMA FitsStarted ==
  ASSUME NEW k, NEW a \in AppType, NEW h, NEW segs, NEW next, NEW b \in AppType,
         Fits(k, a, h, segs), k.state = "ESTABLISHED",
         next.state = k.state, next.snd_nxt = k.snd_nxt, b.acked = a.acked,
         a.flight = 0 \/ b.flight = a.flight, b.acked + b.flight <= MaxOut
  PROVE  Fits(next, b, h, segs)
<1>1. Place(next, b) /\ Ended(next, b, h)
  BY DEF Fits, Place, Ended, Leaving, Left
<1>2. Received(next, b)
  BY DEF Fits, Received, AppType, Early
<1>3. ASSUME NEW s \in segs PROVE OfStream(next, b, s)
  <2>1. OfStream(k, a, s)
    BY DEF Fits
  <2>2. CASE \E q \in 0 .. MaxOut :
               /\ s.seqno = Own(1 + q) /\ s.data # <<>> /\ "FIN" \notin s.ctl
               /\ q < a.acked \/ (q = a.acked /\ s.data = Bytes(q, a.flight))
    <3>1. PICK q \in 0 .. MaxOut :
               /\ s.seqno = Own(1 + q) /\ s.data # <<>> /\ "FIN" \notin s.ctl
               /\ q < a.acked \/ (q = a.acked /\ s.data = Bytes(q, a.flight))
      BY <2>2
    <3>2. q < b.acked \/ (q = b.acked /\ s.data = Bytes(q, b.flight))
      BY <3>1, EmptyIff
    <3> QED BY <3>1, <3>2 DEF OfStream
  <2> QED BY <2>1, <2>2 DEF OfStream, Early
<1> QED BY <1>1, <1>2, <1>3 DEF Fits

(* Steps that change neither the stream nor who may still send.            *)
LEMMA FitsAgain ==
  ASSUME NEW k, NEW a, NEW h, NEW segs, NEW next, NEW b, Fits(k, a, h, segs),
         next.state = k.state, next.snd_nxt = k.snd_nxt, next.len = k.len,
         b.acked = a.acked, b.flight = a.flight
  PROVE  Fits(next, b, h, segs)
<1>1. Place(next, b) /\ Ended(next, b, h)
  BY DEF Fits, Place, Ended
<1>2. Received(next, b)
  BY DEF Fits, Received
<1>3. \A s \in segs : OfStream(next, b, s)
  BY DEF Fits, OfStream
<1> QED BY <1>1, <1>2, <1>3 DEF Fits

-----------------------------------------------------------------------------
(* What a call sends                                                       *)

LEMMA SentOut ==
  ASSUME NEW x \in Calls, NEW ctl, NEW data
  PROVE  tcp_send(x, ctl, data).out = {[ctl |-> ctl, seqno |-> x.k.snd_nxt, data |-> data]}
BY DEF Calls, tcp_send

LEMMA AppsentOut ==
  ASSUME NEW x \in Calls, NEW z, z = appsend(x)
  PROVE  /\ z.k.snd_nxt = x.k.snd_nxt
         /\ \/ "ABORT" \in x.flags /\ z.k.state = "CLOSED" /\ z.out = x.out
            \/ /\ "ABORT" \notin x.flags /\ "CLOSE" \in x.flags
               /\ z.k.state = "FIN_WAIT_1" /\ z.k.len = 1
               /\ z.out = {[ctl |-> {"FIN", "ACK"}, seqno |-> x.k.snd_nxt, data |-> <<>>]}
            \/ /\ "ABORT" \notin x.flags /\ "CLOSE" \notin x.flags
               /\ z.k.state = x.k.state
               /\ z.k.len = IF x.slen > 0 /\ x.k.len = 0 THEN Least(x.slen, MSS) ELSE x.k.len
               /\ z.out = IF x.slen > 0 /\ z.k.len > 0
                          THEN {[ctl |-> {"ACK"}, seqno |-> x.k.snd_nxt,
                                 data |-> Bytes(x.a.acked, z.k.len)]}
                          ELSE x.out
<1>1. /\ x.k \in ConnType /\ x.a \in AppType /\ x.flags \in SUBSET Flags
      /\ x.slen \in Nat /\ x.out \in SUBSET Wire /\ MSS \in Nat
  BY SequenceAssumption DEF Calls
<1>2. CASE "ABORT" \in x.flags
  <2> DEFINE k == [x.k EXCEPT !.state = "CLOSED", !.stopped = FALSE]
  <2>1. z = [x EXCEPT !.k = k]
    BY <1>1, <1>2 DEF appsend, Calls
  <2>2. k.state = "CLOSED" /\ k.snd_nxt = x.k.snd_nxt
    BY <1>1 DEF ConnType
  <2> HIDE DEF k
  <2>3. z.k = k /\ z.out = x.out
    BY <2>1 DEF Calls
  <2> QED BY <1>2, <2>2, <2>3
<1>3. CASE "ABORT" \notin x.flags /\ "CLOSE" \in x.flags
  <2> DEFINE k == [x.k EXCEPT !.state = "FIN_WAIT_1", !.stopped = FALSE, !.len = 1, !.nrtx = 0]
             y == [x EXCEPT !.k = k]
  <2>1. z = tcp_send(y, {"FIN", "ACK"}, <<>>)
    BY <1>1, <1>3 DEF appsend, Calls, tcp_send_finack
  <2>2. k \in ConnType /\ k.state = "FIN_WAIT_1" /\ k.len = 1 /\ k.snd_nxt = x.k.snd_nxt
    BY <1>1 DEF ConnType, States
  <2> HIDE DEF k
  <2>3. y \in Calls /\ y.k = k
    BY <1>1, <2>2 DEF Calls
  <2> HIDE DEF y
  <2>4. z.k = k
    BY <2>1, <2>3 DEF tcp_send, Calls
  <2>5. z.out = {[ctl |-> {"FIN", "ACK"}, seqno |-> y.k.snd_nxt, data |-> <<>>]}
    BY ONLY <2>1, <2>3, SentOut
  <2>6. z.out = {[ctl |-> {"FIN", "ACK"}, seqno |-> x.k.snd_nxt, data |-> <<>>]}
    BY ONLY <2>2, <2>3, <2>5
  <2> QED BY ONLY <1>3, <2>2, <2>4, <2>6
<1>4. CASE "ABORT" \notin x.flags /\ "CLOSE" \notin x.flags
  <2> DEFINE n == IF x.slen > 0 /\ x.k.len = 0 THEN Least(x.slen, MSS) ELSE x.k.len
             k == [x.k EXCEPT !.nrtx = 0, !.len = n]
             y == [x EXCEPT !.k = k]
  <2>1. z = apprexmit(y)
    BY <1>1, <1>4 DEF appsend, ConnType
  <2>2. n \in Nat
    BY <1>1 DEF ConnType, Least
  <2>3. /\ k \in ConnType /\ k.state = x.k.state /\ k.snd_nxt = x.k.snd_nxt /\ k.len = n
    BY <1>1, <2>2 DEF ConnType
  <2> HIDE DEF k
  <2>4. y \in Calls /\ y.k = k /\ y.a = x.a /\ y.slen = x.slen /\ y.out = x.out
    BY <1>1, <2>3 DEF Calls
  <2> HIDE DEF y
  <2>5. z.k = k
    BY <2>1, <2>4, Repeated
  <2> HIDE DEF n
  <2> DEFINE data == Bytes(x.a.acked, n)
  <2>6. z = IF x.slen > 0 /\ n > 0 THEN tcp_send(y, {"ACK"}, data) ELSE y
    BY <2>1, <2>3, <2>4 DEF apprexmit
  <2> HIDE DEF data
  <2>7. tcp_send(y, {"ACK"}, data).out = {[ctl |-> {"ACK"}, seqno |-> k.snd_nxt, data |-> data]}
    BY ONLY <2>4, SentOut
  <2>8. z.out = IF x.slen > 0 /\ n > 0
                THEN {[ctl |-> {"ACK"}, seqno |-> x.k.snd_nxt, data |-> data]}
                ELSE x.out
    BY ONLY <2>3, <2>4, <2>6, <2>7
  <2>9. z.k.state = x.k.state /\ z.k.snd_nxt = x.k.snd_nxt /\ z.k.len = n
    BY ONLY <2>3, <2>5
  <2> QED BY ONLY <1>4, <2>8, <2>9 DEF n, data
<1> QED BY <1>2, <1>3, <1>4

(* An answer does not exceed the bytes the application has.                *)
LEMMA AnsweredBound ==
  ASSUME NEW x \in Calls, NEW y \in Answers(x), x.a.acked + x.a.flight <= MaxOut
  PROVE  x.a.acked + y.a.flight <= MaxOut
<1>1. x.a.acked \in Nat /\ x.a.flight \in 0 .. MSS /\ MSS \in Nat /\ MaxOut \in Nat
  BY SequenceAssumption DEF Calls, AppType
<1>2. CASE \E wish \in {"CLOSE", "ABORT"} : y = [x EXCEPT !.flags = {wish}]
  BY <1>2 DEF Calls
<1>3. ASSUME NEW n \in MaySend(x), NEW stop \in MayStop(x), y = Gives(x, n, stop)
      PROVE  x.a.acked + y.a.flight <= MaxOut
  <2>1. y.a.flight = IF n > 0 THEN Least(n, MSS) ELSE x.a.flight
    BY <1>3 DEF Gives, Calls, AppType
  <2>2. n \in Nat /\ x.a.acked + n <= MaxOut
    BY <1>1 DEF MaySend
  <2> QED BY <1>1, <2>1, <2>2 DEF Least
<1>4. \/ \E wish \in {"CLOSE", "ABORT"} : y = [x EXCEPT !.flags = {wish}]
      \/ \E n \in MaySend(x), stop \in MayStop(x) : y = Gives(x, n, stop)
  BY DEF Answers
<1> QED BY <1>2, <1>3, <1>4

-----------------------------------------------------------------------------
(* The application is called                                               *)

(* The FIN of a close takes the place after what was acknowledged.         *)
LEMMA FitsClosing ==
  ASSUME NEW k, NEW a \in AppType, NEW h, NEW segs, NEW next, NEW late,
         Fits(k, a, h, segs), k.state = "ESTABLISHED",
         next.state \in {"FIN_WAIT_1", "LAST_ACK"}, next.snd_nxt = k.snd_nxt, next.len = 1,
         late = TRUE \/ a.flight = 0
  PROVE  Fits(next, a, late,
              segs \union {[ctl |-> {"FIN", "ACK"}, seqno |-> k.snd_nxt, data |-> <<>>]})
<1> DEFINE fin == [ctl |-> {"FIN", "ACK"}, seqno |-> k.snd_nxt, data |-> <<>>]
<1>1. Place(next, a)
  BY DEF Fits, Place, Leaving, Left
<1>2. Ended(next, a, late)
  BY DEF Ended, Early, Leaving, Left
<1>3. Received(next, a)
  BY DEF Fits, Received, Early
<1>4. ASSUME NEW s \in segs PROVE OfStream(next, a, s)
  BY DEF Fits, OfStream, Early
<1>5. OfStream(next, a, fin)
  <2>1. k.snd_nxt = Own(1 + a.acked)
    BY DEF Fits, Place
  <2>2. fin.seqno = k.snd_nxt /\ fin.data = <<>> /\ "FIN" \in fin.ctl
    OBVIOUS
  <2> HIDE DEF fin
  <2> QED BY <2>1, <2>2 DEF OfStream, Early
<1> QED BY <1>1, <1>2, <1>3, <1>4, <1>5 DEF Fits

(* An open connection after UIP_APPCALL has told it everything.            *)
Ready(w) ==
  /\ w \in Calls /\ w.out = {} /\ w.k.state = "ESTABLISHED" /\ w.k.len = w.a.flight
  /\ Fits(w.k, w.a, hasty, sent)

LEMMA ReadyAnswered ==
  ASSUME NEW w, Ready(w), NEW y \in Answers(w), w.flags \intersect {"CLOSE", "ABORT"} = {}
  PROVE  /\ y \in Calls /\ y.out = {} /\ y.k.state = "ESTABLISHED"
         /\ y.k.len = w.a.flight /\ y.a.acked = w.a.acked
         /\ w.a.flight > 0 => y.a.flight = w.a.flight
         /\ "REXMIT" \in w.flags => y.a.flight = w.a.flight
         /\ "CLOSE" \notin y.flags /\ "ABORT" \notin y.flags =>
              (w.a.flight = 0 => y.a.flight = Least(y.slen, MSS))
         /\ Fits(y.k, y.a, hasty, sent)
<1>1. w \in Calls /\ w.out = {} /\ w.k.state = "ESTABLISHED" /\ w.k.len = w.a.flight
      /\ Fits(w.k, w.a, hasty, sent)
  BY DEF Ready
<1>2. "CLOSE" \notin w.flags /\ "ABORT" \notin w.flags
  OBVIOUS
<1>3. /\ y \in Calls
      /\ y.k.state = w.k.state /\ y.k.len = w.k.len
      /\ y.k.snd_nxt = w.k.snd_nxt /\ y.out = w.out /\ y.a.acked = w.a.acked
      /\ w.a.flight > 0 => y.a.flight = w.a.flight
      /\ \/ y.flags \in {{"CLOSE"}, {"ABORT"}} /\ y.a.flight = w.a.flight
         \/ /\ "CLOSE" \notin y.flags /\ "ABORT" \notin y.flags
            /\ w.a.flight = 0 => y.a.flight = Least(y.slen, MSS)
      /\ "REXMIT" \in w.flags => y.a.flight = w.a.flight
  BY ONLY <1>1, <1>2, Answered
<1>4. w.a \in AppType /\ y.a \in AppType /\ w.a.flight \in Nat
  BY <1>1, <1>3, SequenceAssumption DEF Calls, AppType
<1>5. y.a.acked + y.a.flight <= MaxOut
  <2>1. w.a.acked + w.a.flight <= MaxOut
    BY <1>1 DEF Fits, Place
  <2> QED BY <1>1, <1>3, <2>1, AnsweredBound
<1>6. w.a.flight = 0 \/ y.a.flight = w.a.flight
  BY <1>3, <1>4
<1>7. Fits(y.k, y.a, hasty, sent)
  BY ONLY <1>1, <1>3, <1>4, <1>5, <1>6, FitsStarted
<1> QED BY ONLY <1>1, <1>3, <1>7

(* Data goes out from the first byte that is not acknowledged.             *)
LEMMA DataFits ==
  ASSUME NEW k, NEW a \in AppType, NEW h, NEW segs, NEW ctl,
         Fits(k, a, h, segs), k.state = "ESTABLISHED", a.flight > 0, "FIN" \notin ctl
  PROVE  Fits(k, a, h, segs \union {[ctl |-> ctl, seqno |-> k.snd_nxt,
                                     data |-> Bytes(a.acked, a.flight)]})
<1> DEFINE s == [ctl |-> ctl, seqno |-> k.snd_nxt, data |-> Bytes(a.acked, a.flight)]
<1>1. a.acked \in 0 .. MaxOut /\ k.snd_nxt = Own(1 + a.acked) /\ a.flight \in Nat /\ a.acked \in Nat
  BY SequenceAssumption DEF Fits, Place, AppType
<1>2. Bytes(a.acked, a.flight) # <<>>
  BY <1>1, EmptyIff
<1>3. s.seqno = Own(1 + a.acked) /\ s.data = Bytes(a.acked, a.flight) /\ "FIN" \notin s.ctl
  BY <1>1
<1> HIDE DEF s
<1>4. OfStream(k, a, s)
  BY <1>1, <1>2, <1>3 DEF OfStream
<1> QED BY <1>4 DEF Fits, s

LEMMA AppSends ==
  ASSUME NEW w, Ready(w), NEW y \in Answers(w), w.flags \intersect {"CLOSE", "ABORT"} = {},
         NEW z, z = appsend(y), conn.state # "FIN_WAIT_1"
  PROVE  Keeps(z)
<1>0. z = appsend(y)
  OBVIOUS
<1>1. /\ y \in Calls /\ y.out = {} /\ y.k.state = "ESTABLISHED"
      /\ y.k.len = w.a.flight /\ y.a.acked = w.a.acked
      /\ w.a.flight > 0 => y.a.flight = w.a.flight
      /\ "CLOSE" \notin y.flags /\ "ABORT" \notin y.flags =>
           (w.a.flight = 0 => y.a.flight = Least(y.slen, MSS))
      /\ Fits(y.k, y.a, hasty, sent)
  BY ReadyAnswered
<1>2. w.a.flight \in Nat /\ y.a \in AppType /\ y.a.flight \in Nat /\ y.slen \in Nat /\ MSS \in Nat
  BY <1>1, SequenceAssumption DEF Ready, Calls, AppType
<1>3. /\ z.k.snd_nxt = y.k.snd_nxt
      /\ \/ "ABORT" \in y.flags /\ z.k.state = "CLOSED" /\ z.out = y.out
         \/ /\ "ABORT" \notin y.flags /\ "CLOSE" \in y.flags
            /\ z.k.state = "FIN_WAIT_1" /\ z.k.len = 1
            /\ z.out = {[ctl |-> {"FIN", "ACK"}, seqno |-> y.k.snd_nxt, data |-> <<>>]}
         \/ /\ "ABORT" \notin y.flags /\ "CLOSE" \notin y.flags
            /\ z.k.state = y.k.state
            /\ z.k.len = IF y.slen > 0 /\ y.k.len = 0 THEN Least(y.slen, MSS) ELSE y.k.len
            /\ z.out = IF y.slen > 0 /\ z.k.len > 0
                       THEN {[ctl |-> {"ACK"}, seqno |-> y.k.snd_nxt,
                              data |-> Bytes(y.a.acked, z.k.len)]}
                       ELSE y.out
  BY ONLY <1>0, <1>1, AppsentOut
<1>4. z.a = y.a
  BY <1>1, Appsent
<1>5. CASE z.k.state = "CLOSED"
  <2>1. Later(z) = hasty /\ sent \union z.out = sent
    BY <1>1, <1>3, <1>5 DEF Later
  <2>2. Fits(z.k, y.a, hasty, sent)
    BY ONLY <1>1, <1>5, FitsEnded
  <2> QED BY <1>4, <2>1, <2>2 DEF Keeps
<1>6. CASE z.k.state = "FIN_WAIT_1"
  <2>1. /\ z.k.len = 1
        /\ z.out = {[ctl |-> {"FIN", "ACK"}, seqno |-> y.k.snd_nxt, data |-> <<>>]}
    BY <1>1, <1>3, <1>6
  <2>2. Later(z) = TRUE \/ y.a.flight = 0
    BY <1>2, <1>4, <1>6 DEF Later
  <2> DEFINE late == Later(z)
  <2> HIDE DEF late
  <2>3. Fits(z.k, y.a, late, sent \union {[ctl |-> {"FIN", "ACK"}, seqno |-> y.k.snd_nxt, data |-> <<>>]})
    <3>1. late = TRUE \/ y.a.flight = 0
      BY ONLY <2>2 DEF late
    <3>2. z.k.state \in {"FIN_WAIT_1", "LAST_ACK"}
      BY <1>6
    <3> QED BY ONLY <1>1, <1>2, <1>3, <2>1, <3>1, <3>2, FitsClosing
  <2> QED BY ONLY <1>4, <2>1, <2>3 DEF Keeps, late
<1>7. CASE z.k.state = "ESTABLISHED"
  <2>1. Later(z) = hasty
    BY <1>7 DEF Later
  <2>2. z.k.len = y.a.flight
    BY <1>1, <1>2, <1>3, <1>7 DEF Least
  <2>3. y.a.acked + y.a.flight <= MaxOut
    BY <1>1 DEF Fits, Place
  <2>4. Fits(z.k, y.a, hasty, sent)
    BY ONLY <1>1, <1>2, <1>3, <1>7, <2>3, FitsStarted
  <2>5. CASE z.out = {}
    BY ONLY <1>4, <2>1, <2>4, <2>5 DEF Keeps
  <2>6. CASE z.out # {}
    <3>1. y.a.flight > 0 /\ z.out = {[ctl |-> {"ACK"}, seqno |-> z.k.snd_nxt,
                                     data |-> Bytes(y.a.acked, y.a.flight)]}
      BY <1>1, <1>3, <1>7, <2>2, <2>6
    <3>2. "FIN" \notin {"ACK"}
      OBVIOUS
    <3>3. Fits(z.k, y.a, hasty, sent \union {[ctl |-> {"ACK"}, seqno |-> z.k.snd_nxt,
                                     data |-> Bytes(y.a.acked, y.a.flight)]})
      BY ONLY <1>2, <1>7, <2>4, <3>1, <3>2, DataFits
    <3> QED BY ONLY <1>4, <2>1, <3>1, <3>3 DEF Keeps
  <2> QED BY <2>5, <2>6
<1> QED BY <1>1, <1>3, <1>5, <1>6, <1>7

-----------------------------------------------------------------------------
(* Acknowledgements                                                        *)

LEMMA AcksAre ==
  ASSUME NEW s \in SegmentsOfPeer, "ACK" \in s.ctl
  PROVE  \E p \in 1 .. peer.rcv : s.ackno = Own(p)
<1>1. CASE s \in Opens
  BY <1>1 DEF Opens
<1>2. CASE s \in Accepts
  BY <1>2 DEF Accepts, Acks, Own
<1>3. CASE s \in Talks
  <2>1. PICK r \in Stretches, a \in Acks :
          s = [ctl |-> IF r.fin THEN {"ACK", "FIN"} ELSE {"ACK"}, seqno |-> Seqno(r.from + 1),
               ackno |-> a, data |-> Bytes(r.from, r.n)]
    BY <1>3 DEF Talks
  <2> QED BY <2>1 DEF Acks, Own
<1>4. s \in Opens \union Accepts \union Talks
  BY DEF SegmentsOfPeer
<1> QED BY <1>1, <1>2, <1>3, <1>4

(* x is the call after Acknowledged: an acknowledgement that counts means  *)
(* the peer has all that was outstanding.                                  *)
Whole(x) ==
  /\ conn.state \in {"SYN_RCVD", "SYN_SENT"} => x.k.snd_nxt = Own(1) /\ peer.rcv = 1
  /\ conn.state = "ESTABLISHED" =>
       /\ x.k.snd_nxt = Own(1 + (app.acked + app.flight))
       /\ peer.rcv = 1 + (app.acked + app.flight)
  /\ conn.state \in Leaving => hasty = TRUE \/ peer.fin = TRUE

Acked(x) ==
  /\ x \in Calls /\ x.a = app /\ x.out = {} /\ x.k.state = conn.state
  /\ \/ x.flags = {} /\ x.k.snd_nxt = conn.snd_nxt /\ x.k.len = conn.len
     \/ x.flags = {"ACKDATA"} /\ x.k.len = 0 /\ conn.len > 0 /\ Whole(x)

(* The peer has acknowledged position p only if it has all before.         *)
LEMMA AckMeans ==
  ASSUME Inv, Now, NEW s \in SegmentsOfPeer, "ACK" \in s.ctl,
         NEW p \in 0 .. MaxOut + 2, s.ackno = Own(p)
  PROVE  peer.rcv \in 0 .. MaxOut + 2 /\ p <= peer.rcv
<1>1. peer.rcv \in 0 .. MaxOut + 2
  BY SequenceAssumption DEF Now, Fits, Received
<1>2. PICK q \in 1 .. peer.rcv : s.ackno = Own(q)
  BY AcksAre
<1>3. q \in 0 .. MaxOut + 2
  BY <1>1, <1>2, SequenceAssumption
<1>4. q = p
  BY <1>2, <1>3, OwnPositions
<1> QED BY <1>1, <1>2, <1>4

LEMMA AckWhole ==
  ASSUME Inv, Now, NEW s \in SegmentsOfPeer, "ACK" \in s.ctl, conn.len > 0,
         s.ackno = Add(conn.snd_nxt, conn.len), NEW x, x.k.snd_nxt = s.ackno
  PROVE  Whole(x)
<1>1. /\ app.acked \in Nat /\ app.flight \in Nat /\ app.acked + app.flight <= MaxOut /\ MaxOut \in Nat
      /\ Place(conn, app) /\ Received(conn, app) /\ Ended(conn, app, hasty)
  BY SequenceAssumption DEF Inv, Now, Fits, Place, Good, AppType
<1>2. CASE conn.state \in {"SYN_RCVD", "SYN_SENT"}
  <2>1. conn.snd_nxt = Own(0) /\ conn.len = 1 /\ app.acked = 0 /\ app.flight = 0
    BY <1>1, <1>2 DEF Place, Inv, Good
  <2>2. s.ackno = Own(1)
    BY <1>1, <2>1, OwnPositions
  <2>3. 1 <= peer.rcv
    BY <1>1, <2>2, AckMeans
  <2>4. peer.rcv = 1
    BY <1>1, <1>2, <2>1, <2>3 DEF Received, Early
  <2> QED BY <1>2, <2>2, <2>4 DEF Whole, Leaving
<1>3. CASE conn.state = "ESTABLISHED"
  <2> DEFINE p == 1 + app.acked
             q == 1 + (app.acked + app.flight)
  <2>1. conn.snd_nxt = Own(p) /\ conn.len = app.flight
    BY <1>1, <1>3 DEF Place, Inv, Good
  <2>2. p \in Nat /\ p + app.flight = q /\ q <= MaxOut + 2 /\ q \in 0 .. MaxOut + 2
    BY <1>1
  <2> HIDE DEF p, q
  <2>3. s.ackno = Own(q)
    BY <1>1, <2>1, <2>2, OwnPositions
  <2>4. q <= peer.rcv
    BY <2>2, <2>3, AckMeans
  <2>5. peer.rcv = q
    BY <1>1, <1>3, <2>4 DEF Received, Early, q
  <2> QED BY <1>3, <2>3, <2>5 DEF Whole, Leaving, q
<1>4. CASE conn.state \in Leaving
  <2> DEFINE p == 1 + app.acked
             q == 2 + app.acked
  <2>1. conn.snd_nxt = Own(p) /\ conn.len = 1
    BY <1>1, <1>4 DEF Place
  <2>2. p \in Nat /\ p + 1 = q /\ q <= MaxOut + 2 /\ q \in 0 .. MaxOut + 2
    BY <1>1
  <2> HIDE DEF p, q
  <2>3. s.ackno = Own(q)
    BY <2>1, <2>2, OwnPositions
  <2>4. q <= peer.rcv
    BY <2>2, <2>3, AckMeans
  <2>5. hasty = TRUE \/ app.flight = 0
    BY <1>1, <1>4 DEF Ended
  <2>6. hasty = TRUE \/ peer.fin = TRUE
    BY <1>1, <2>4, <2>5 DEF Received, q
  <2> QED BY <1>4, <2>6 DEF Whole, Leaving
<1> QED BY <1>2, <1>3, <1>4 DEF Whole

LEMMA AckKeeps ==
  ASSUME Inv, Now, NEW s \in SegmentsOfPeer, NEW x, x = Acknowledged(Call({}), s)
  PROVE  Acked(x)
<1> DEFINE c == Call({})
<1>1. /\ c \in Calls /\ c.k = conn /\ c.a = app /\ c.flags = {} /\ c.out = {}
  BY DEF Call, Calls, Inv, Good
<1>2. s.ackno \in Nat
  BY PeerSends DEF Inv, PeerType, SegmentOK
<1>3. x = Acknowledged(c, s)
  OBVIOUS
<1> HIDE DEF c
<1>4. CASE "ACK" \in s.ctl /\ conn.len > 0 /\ s.ackno = Add(conn.snd_nxt, conn.len)
  <2> DEFINE k == [conn EXCEPT !.snd_nxt = s.ackno, !.len = 0]
  <2>1. x = [c EXCEPT !.k = k, !.flags = {"ACKDATA"}]
    BY <1>1, <1>3, <1>4 DEF Acknowledged, Calls
  <2>2. k \in ConnType /\ k.state = conn.state /\ k.snd_nxt = s.ackno /\ k.len = 0
    BY <1>2 DEF Inv, Good, ConnType
  <2> HIDE DEF k
  <2>3. x \in Calls /\ x.k = k /\ x.a = app /\ x.out = {} /\ x.flags = {"ACKDATA"}
    BY <1>1, <2>1, <2>2 DEF Calls, Flags
  <2>4. x.k.snd_nxt = s.ackno
    BY <2>2, <2>3
  <2>5. Whole(x)
    BY ONLY <1>4, <2>4, Inv, Now, s \in SegmentsOfPeer, AckWhole
  <2> QED BY <1>4, <2>2, <2>3, <2>5 DEF Acked
<1>5. CASE ~("ACK" \in s.ctl /\ conn.len > 0 /\ s.ackno = Add(conn.snd_nxt, conn.len))
  BY <1>1, <1>3, <1>5 DEF Acknowledged, Acked
<1> QED BY <1>4, <1>5

-----------------------------------------------------------------------------
(* What the handlers do with a segment                                     *)

LEMMA QuietKeeps ==
  ASSUME Now, NEW z, z.out = {}, z.a = app, z.k.state = conn.state,
         z.k.snd_nxt = conn.snd_nxt, z.k.len = conn.len
  PROVE  Keeps(z)
<1>1. Later(z) = hasty /\ sent \union z.out = sent
  BY DEF Later
<1>2. Fits(z.k, z.a, hasty, sent)
  BY FitsAgain DEF Now
<1> QED BY <1>1, <1>2 DEF Keeps

LEMMA EndKeeps ==
  ASSUME Now, NEW z, z.out = {}, z.a = app, z.k.state = "CLOSED"
  PROVE  Keeps(z)
<1>1. Later(z) = hasty /\ sent \union z.out = sent
  BY DEF Later
<1>2. Fits(z.k, z.a, hasty, sent)
  BY FitsEnded DEF Now
<1> QED BY <1>1, <1>2 DEF Keeps

(* The SYN is acknowledged.                                                *)
LEMMA OpenFits ==
  ASSUME Inv, Now, conn.state \in {"SYN_RCVD", "SYN_SENT"}, NEW x, Whole(x),
         NEW k, NEW a, k.state = "ESTABLISHED", k.snd_nxt = x.k.snd_nxt,
         a.acked = 0, a.flight = 0
  PROVE  Fits(k, a, hasty, sent)
<1>1. /\ app.acked = 0 /\ app.flight = 0 /\ peer.rcv = 1 /\ x.k.snd_nxt = Own(1)
      /\ MaxOut \in Nat
  BY SequenceAssumption DEF Inv, Good, Whole
<1>2. Place(k, a)
  BY <1>1 DEF Place, Leaving, Left
<1>3. Ended(k, a, hasty)
  BY DEF Now, Fits, Ended, Early, Leaving, Left
<1>4. Received(k, a)
  <2>1. PICK n \in 0 .. MaxOut :
          /\ peer.got = Bytes(0, n)
          /\ \/ peer.rcv = 0 /\ n = 0 /\ peer.fin = FALSE
             \/ peer.rcv = 1 + n /\ peer.fin = FALSE /\ n \in {app.acked, app.acked + app.flight}
             \/ peer.rcv = 2 + n /\ peer.fin = TRUE /\ n = app.acked /\ conn.state \notin Early
    BY DEF Now, Fits, Received
  <2>2. n = 0 /\ peer.fin = FALSE
    BY <1>1, <2>1 DEF Early
  <2> QED BY <1>1, <2>1, <2>2 DEF Received
<1>5. ASSUME NEW s \in sent PROVE OfStream(k, a, s)
  <2>1. OfStream(conn, app, s)
    BY DEF Now, Fits
  <2> QED BY <1>1, <2>1 DEF OfStream, Early
<1> QED BY <1>2, <1>3, <1>4, <1>5 DEF Fits

(* What was under way is acknowledged, and the application is told.        *)
LEMMA AckedFits ==
  ASSUME Inv, Now, conn.state = "ESTABLISHED", NEW x, Whole(x),
         NEW k, NEW a, k.state = "ESTABLISHED", k.snd_nxt = x.k.snd_nxt,
         a.acked = app.acked + app.flight, a.flight = 0
  PROVE  Fits(k, a, hasty, sent)
<1>1. /\ app.acked \in Nat /\ app.flight \in Nat /\ MaxOut \in Nat /\ app.acked + app.flight <= MaxOut
      /\ peer.rcv = 1 + a.acked /\ x.k.snd_nxt = Own(1 + a.acked)
  BY SequenceAssumption DEF Inv, Now, Fits, Place, Good, AppType, Whole
<1>2. Place(k, a)
  BY <1>1 DEF Place, Leaving, Left
<1>3. Ended(k, a, hasty)
  BY DEF Now, Fits, Ended, Early, Leaving, Left
<1>4. Received(k, a)
  <2>1. PICK n \in 0 .. MaxOut :
          /\ peer.got = Bytes(0, n)
          /\ \/ peer.rcv = 0 /\ n = 0 /\ peer.fin = FALSE
             \/ peer.rcv = 1 + n /\ peer.fin = FALSE /\ n \in {app.acked, app.acked + app.flight}
             \/ peer.rcv = 2 + n /\ peer.fin = TRUE /\ n = app.acked /\ conn.state \notin Early
    BY DEF Now, Fits, Received
  <2>2. n = a.acked /\ peer.fin = FALSE
    BY <1>1, <2>1 DEF Early
  <2> QED BY <1>1, <2>1, <2>2 DEF Received
<1>5. ASSUME NEW s \in sent PROVE OfStream(k, a, s)
  <2>1. OfStream(conn, app, s)
    BY DEF Now, Fits
  <2>2. CASE \E q \in 0 .. MaxOut :
               /\ s.seqno = Own(1 + q) /\ s.data # <<>> /\ "FIN" \notin s.ctl
               /\ q < app.acked \/ (q = app.acked /\ s.data = Bytes(q, app.flight))
    <3>1. PICK q \in 0 .. MaxOut :
               /\ s.seqno = Own(1 + q) /\ s.data # <<>> /\ "FIN" \notin s.ctl
               /\ q < app.acked \/ (q = app.acked /\ s.data = Bytes(q, app.flight))
      BY <2>2
    <3>2. q < a.acked
      BY <1>1, <3>1, EmptyIff
    <3> QED BY <3>1, <3>2 DEF OfStream
  <2> QED BY <2>1, <2>2 DEF OfStream, Early
<1> QED BY <1>2, <1>3, <1>4, <1>5 DEF Fits

(* An open connection whose application has been told.                     *)
LEMMA ToldFits ==
  ASSUME Inv, Now, conn.state = "ESTABLISHED", NEW x, Acked(x),
         NEW k, NEW a, k.state = "ESTABLISHED", k.snd_nxt = x.k.snd_nxt,
         "ACKDATA" \in x.flags => a.acked = app.acked + app.flight /\ a.flight = 0,
         "ACKDATA" \notin x.flags => a.acked = app.acked /\ a.flight = app.flight
  PROVE  Fits(k, a, hasty, sent) /\ x.k.len = a.flight
<1>1. conn.len = app.flight /\ app \in AppType /\ Fits(conn, app, hasty, sent)
  BY DEF Inv, Good, Now
<1>2. CASE x.flags = {} /\ x.k.snd_nxt = conn.snd_nxt /\ x.k.len = conn.len
  <2>1. app.acked + app.flight <= MaxOut
    BY <1>1 DEF Fits, Place
  <2>2. a.acked = app.acked /\ a.flight = app.flight
    BY <1>2
  <2>3. Fits(k, app, hasty, sent)
    BY ONLY <1>1, <1>2, <2>1, conn.state = "ESTABLISHED", k.state = "ESTABLISHED",
       k.snd_nxt = x.k.snd_nxt, FitsStarted
  <2>4. Fits(k, a, hasty, sent)
    BY ONLY <2>2, <2>3, FitsAgain
  <2> QED BY <1>1, <1>2, <2>2, <2>4
<1>3. CASE x.flags = {"ACKDATA"} /\ x.k.len = 0 /\ Whole(x)
  BY <1>3, AckedFits
<1> QED BY <1>2, <1>3 DEF Acked

LEMMA SynRcvdKeeps ==
  ASSUME Inv, Now, conn.state = "SYN_RCVD", NEW s, SegmentOK(s), NEW x, Acked(x),
         NEW z \in SynRcvd(x, s)
  PROVE  Keeps(z)
<1>1. /\ x \in Calls /\ x.a = app /\ x.out = {} /\ x.k \in ConnType
      /\ app.acked = 0 /\ app.flight = 0 /\ app.heard = <<>>
      /\ s.data \in Seq(Nat) /\ Len(s.data) \in Nat
  BY DEF Acked, Calls, Inv, Good, SegmentOK
<1>2. CASE x.flags = {} /\ x.k.snd_nxt = conn.snd_nxt /\ x.k.len = conn.len
  <2>1. z = x /\ x.k.state = conn.state
    BY <1>2 DEF SynRcvd, Acked
  <2> QED BY <1>1, <1>2, <2>1, QuietKeeps
<1>3. CASE x.flags = {"ACKDATA"} /\ x.k.len = 0 /\ Whole(x)
  <2> DEFINE new == IF s.data # <<>> THEN {"NEWDATA"} ELSE {}
             k == [x.k EXCEPT !.rcv_nxt = Add(@, Len(s.data)), !.state = "ESTABLISHED"]
             y == [x EXCEPT !.k = k, !.flags = {"CONNECTED"} \union new]
             w == Tell(y, s.data)
  <2>1. PICK v \in Answers(w) : z = appsend(v)
    <3>1. [Receive(x, Len(s.data)) EXCEPT !.k.state = "ESTABLISHED",
                                          !.flags = {"CONNECTED"} \union new] = y
      BY <1>1 DEF Receive, Calls
    <3> QED BY <1>3, <3>1 DEF SynRcvd, UIP_APPCALL
  <2>2. /\ k \in ConnType /\ k.state = "ESTABLISHED" /\ k.len = 0 /\ k.snd_nxt = x.k.snd_nxt
    BY <1>1, <1>3, AddIsNat DEF ConnType, States
  <2> HIDE DEF k
  <2>3. /\ y \in Calls /\ y.k = k /\ y.a = app /\ y.out = {}
        /\ "ACKDATA" \notin y.flags /\ y.flags \intersect {"CLOSE", "ABORT"} = {}
    BY <1>1, <2>2 DEF Calls, Flags
  <2> HIDE DEF y
  <2>4. /\ w \in Calls /\ w.a = Learns(y, s.data) /\ w.k = k /\ w.flags = y.flags
    BY <1>1, <2>3, Told
  <2>5. w.out = {} /\ w.a.acked = 0 /\ w.a.flight = 0
    BY <1>1, <2>3, <2>4, ToldFirst DEF Tell, Calls
  <2> HIDE DEF w
  <2>6. Fits(w.k, w.a, hasty, sent)
    BY <1>3, <2>2, <2>4, <2>5, OpenFits
  <2>7. Ready(w)
    BY <2>2, <2>4, <2>5, <2>6 DEF Ready
  <2> QED BY <2>1, <2>3, <2>4, <2>7, AppSends
<1> QED BY <1>2, <1>3 DEF Acked

LEMMA SynSentKeeps ==
  ASSUME Inv, Now, conn.state = "SYN_SENT", NEW s, SegmentOK(s), NEW x, Acked(x),
         NEW z \in SynSent(x, s)
  PROVE  Keeps(z)
<1>1. /\ x \in Calls /\ x.a = app /\ x.out = {} /\ x.k \in ConnType
      /\ app.acked = 0 /\ app.flight = 0 /\ app.heard = <<>> /\ s.seqno \in Nat
  BY DEF Acked, Calls, Inv, Good, SegmentOK
<1>2. CASE "ACKDATA" \in x.flags /\ s.ctl = {"SYN", "ACK"}
  <2> DEFINE k == [x.k EXCEPT !.state = "ESTABLISHED", !.rcv_nxt = Add(s.seqno, 1)]
             y == [x EXCEPT !.k = k, !.flags = {"CONNECTED", "NEWDATA"}]
  <2>1. PICK v \in Answers(Tell(y, <<>>)) : z = appsend(v)
    <3>1. [x EXCEPT !.k.state = "ESTABLISHED", !.k.rcv_nxt = Add(s.seqno, 1),
                    !.flags = {"CONNECTED", "NEWDATA"}] = y
      BY <1>1 DEF Calls
    <3> QED BY <1>2, <3>1 DEF SynSent, UIP_APPCALL
  <2>2. x.k.len = 0 /\ Whole(x)
    BY <1>2 DEF Acked
  <2>3. /\ k \in ConnType /\ k.state = "ESTABLISHED" /\ k.len = 0 /\ k.snd_nxt = x.k.snd_nxt
    BY <1>1, <2>2, AddIsNat DEF ConnType, States
  <2> HIDE DEF k
  <2>4. /\ y \in Calls /\ y.k = k /\ y.a = app /\ y.out = {}
        /\ "ACKDATA" \notin y.flags /\ y.flags \intersect {"CLOSE", "ABORT"} = {}
    BY <1>1, <2>3 DEF Calls, Flags
  <2> HIDE DEF y
  <2>5. Tell(y, <<>>) = y
    BY <2>4, ToldNothing
  <2>6. Fits(y.k, y.a, hasty, sent)
    BY <1>1, <2>2, <2>3, <2>4, OpenFits
  <2>7. Ready(y)
    BY <1>1, <2>3, <2>4, <2>6 DEF Ready
  <2> QED BY <2>1, <2>4, <2>5, <2>7, AppSends
<1>3. CASE ~("ACKDATA" \in x.flags /\ s.ctl = {"SYN", "ACK"})
  <2> DEFINE w == [x EXCEPT !.flags = {"ABORT"}]
             y == Tell(w, <<>>)
             k == [y.k EXCEPT !.state = "CLOSED"]
  <2>1. w \in Calls /\ w.flags = {"ABORT"} /\ w.a = app /\ w.k = x.k /\ w.out = {}
    BY <1>1 DEF Calls, Flags
  <2>2. z = [y EXCEPT !.k.state = "CLOSED"]
    BY <1>3 DEF SynSent
  <2> HIDE DEF w
  <2>3. y = w
    BY <2>1, ToldNothing
  <2> HIDE DEF y
  <2>4. k.state = "CLOSED"
    BY <1>1, <2>1, <2>3 DEF ConnType
  <2>5. z = [y EXCEPT !.k = k]
    BY <2>1, <2>2, <2>3 DEF Calls
  <2> HIDE DEF k
  <2>6. z.k = k /\ z.a = app /\ z.out = {}
    BY <2>1, <2>3, <2>5 DEF Calls
  <2> QED BY <2>4, <2>6, EndKeeps
<1> QED BY <1>2, <1>3

LEMMA PeerFinKeeps ==
  ASSUME Inv, Now, conn.state = "ESTABLISHED", NEW s, SegmentOK(s), NEW x, Acked(x)
  PROVE  Keeps(PeerFin(x, s))
<1> DEFINE n == Len(s.data)
           new == IF s.data # <<>> THEN {"NEWDATA"} ELSE {}
<1>1. /\ x \in Calls /\ x.a = app /\ x.out = {} /\ x.k \in ConnType /\ x.k.state = "ESTABLISHED"
      /\ s.data \in Seq(Nat) /\ n \in Nat /\ app \in AppType /\ conn.len = app.flight
      /\ app.flight \in Nat
      /\ \/ x.flags = {} /\ x.k.snd_nxt = conn.snd_nxt /\ x.k.len = conn.len
         \/ x.flags = {"ACKDATA"} /\ x.k.len = 0
  BY SequenceAssumption DEF Acked, Calls, Inv, Good, SegmentOK, AppType
<1>2. CASE x.k.len > 0
  <2>1. PeerFin(x, s) = x /\ x.k.snd_nxt = conn.snd_nxt /\ x.k.len = conn.len
    BY <1>1, <1>2 DEF PeerFin
  <2> QED BY <1>1, <2>1, QuietKeeps
<1>3. CASE ~(x.k.len > 0)
  <2> HIDE DEF n
  <2> DEFINE k == [x.k EXCEPT !.rcv_nxt = Add(@, 1 + n)]
             flags == x.flags \union {"CLOSE"} \union new
             y == [x EXCEPT !.k = k, !.flags = flags]
             w == Tell(y, s.data)
             l == [w.k EXCEPT !.state = "LAST_ACK", !.stopped = FALSE, !.len = 1, !.nrtx = 0]
             v == [w EXCEPT !.k = l]
             z == tcp_send(v, {"FIN", "ACK"}, <<>>)
  <2>1. k \in ConnType /\ k.state = "ESTABLISHED" /\ k.snd_nxt = x.k.snd_nxt
    <3>1. x.k.rcv_nxt \in Nat /\ 1 + n \in Nat
      BY <1>1 DEF ConnType
    <3>2. Add(x.k.rcv_nxt, 1 + n) \in Nat
      BY <3>1, AddIsNat
    <3> QED BY <1>1, <3>2 DEF ConnType
  <2>2. [Receive(x, 1 + n) EXCEPT !.flags = @ \union {"CLOSE"} \union new] = y
    BY <1>1 DEF Receive, Calls
  <2> HIDE DEF k
  <2>3. /\ flags \in SUBSET Flags
        /\ "ACKDATA" \in flags <=> "ACKDATA" \in x.flags
    BY <1>1 DEF Flags
  <2> HIDE DEF flags
  <2>4. y \in Calls /\ y.k = k /\ y.a = app /\ y.flags = flags /\ y.out = {}
    BY <1>1, <2>1, <2>3 DEF Calls
  <2>5. PeerFin(x, s) = tcp_send_finack([w EXCEPT !.k.state = "LAST_ACK",
                          !.k.stopped = FALSE, !.k.len = 1, !.k.nrtx = 0])
    BY <1>3, <2>2 DEF PeerFin, n
  <2> HIDE DEF y
  <2>6. /\ w \in Calls /\ w.k = k /\ w.a = Learns(y, s.data) /\ w.a \in AppType
    BY <1>1, <2>4, Told
  <2>7. /\ "ACKDATA" \in y.flags => w.a.acked = app.acked + app.flight /\ w.a.flight = 0
        /\ "ACKDATA" \notin y.flags => w.a.acked = app.acked /\ w.a.flight = app.flight
    BY <1>1, <2>4, <2>6, Told
  <2>8. w.out = {}
    BY <2>4 DEF Tell, Calls
  <2> HIDE DEF w
  <2>9. Fits(w.k, w.a, hasty, sent) /\ x.k.len = w.a.flight
    BY <2>1, <2>3, <2>4, <2>6, <2>7, ToldFits
  <2>10. w.a.flight = 0
    BY <1>1, <1>3, <2>9
  <2>11. PeerFin(x, s) = z
    BY <2>5, <2>6 DEF Calls, tcp_send_finack
  <2>12. l \in ConnType /\ l.state = "LAST_ACK" /\ l.len = 1 /\ l.snd_nxt = k.snd_nxt
    BY <2>1, <2>6 DEF ConnType, States
  <2> HIDE DEF l
  <2>13. v \in Calls /\ v.k = l /\ v.a = w.a
    BY <2>6, <2>12 DEF Calls
  <2> HIDE DEF v
  <2>14. z.k = l /\ z.a = w.a
    BY <2>13 DEF tcp_send, Calls
  <2>15. z.out = {[ctl |-> {"FIN", "ACK"}, seqno |-> k.snd_nxt, data |-> <<>>]}
    <3>1. z.out = {[ctl |-> {"FIN", "ACK"}, seqno |-> v.k.snd_nxt, data |-> <<>>]}
      BY ONLY <2>13, SentOut DEF z
    <3> QED BY ONLY <2>12, <2>13, <3>1
  <2> HIDE DEF z
  <2>16. Later(z) = hasty
    BY <2>12, <2>14 DEF Later
  <2>17. Fits(z.k, z.a, hasty, sent \union z.out)
    <3>1. z.k.state \in {"FIN_WAIT_1", "LAST_ACK"} /\ z.k.snd_nxt = k.snd_nxt /\ z.k.len = 1
          /\ (hasty = TRUE \/ w.a.flight = 0) /\ k.state = "ESTABLISHED"
      BY <2>1, <2>10, <2>12, <2>14
    <3>2. Fits(k, w.a, hasty, sent)
      BY <2>6, <2>9
    <3>3. Fits(z.k, w.a, hasty, sent \union {[ctl |-> {"FIN", "ACK"}, seqno |-> k.snd_nxt, data |-> <<>>]})
      BY ONLY <2>6, <3>1, <3>2, FitsClosing
    <3> QED BY ONLY <2>14, <2>15, <3>3
  <2> QED BY <2>11, <2>16, <2>17 DEF Keeps
<1> QED BY <1>2, <1>3

LEMMA EstablishedKeeps ==
  ASSUME Inv, Now, conn.state = "ESTABLISHED", NEW s, SegmentOK(s), NEW x, Acked(x),
         NEW z \in Established(x, s)
  PROVE  Keeps(z)
<1> DEFINE data == IF x.k.stopped THEN <<>> ELSE s.data
           n == Len(data)
           new == IF data # <<>> THEN {"NEWDATA"} ELSE {}
           k == [x.k EXCEPT !.rcv_nxt = Add(@, n)]
           y == [x EXCEPT !.k = k, !.flags = x.flags \union new]
           w == Tell(y, data)
<1>1. /\ x \in Calls /\ x.a = app /\ x.out = {} /\ x.k \in ConnType /\ x.k.state = "ESTABLISHED"
      /\ data \in Seq(Nat) /\ n \in Nat /\ x.k.stopped \in BOOLEAN
      /\ x.flags = {} \/ x.flags = {"ACKDATA"}
  BY DEF Acked, Calls, SegmentOK, ConnType
<1>2. [Receive(x, n) EXCEPT !.flags = @ \union IF data # <<>> THEN {"NEWDATA"} ELSE {}] = y
  BY <1>1 DEF Receive, Calls
<1>3. \/ z = PeerFin(x, s)
      \/ z \in {appsend(v) : v \in UIP_APPCALL(y, data)}
      \/ z = x /\ y.flags = {}
  BY <1>2 DEF Established
<1> HIDE DEF data, n
<1>4. k \in ConnType /\ k.state = "ESTABLISHED" /\ k.snd_nxt = x.k.snd_nxt /\ k.len = x.k.len
  BY <1>1, AddIsNat DEF ConnType
<1> HIDE DEF k
<1>5. /\ y \in Calls /\ y.k = k /\ y.a = app /\ y.out = {} /\ y.flags = x.flags \union new
      /\ y.flags \intersect {"CLOSE", "ABORT"} = {}
      /\ "ACKDATA" \in y.flags <=> "ACKDATA" \in x.flags
  BY <1>1, <1>4 DEF Calls, Flags
<1> HIDE DEF y, new
<1>6. CASE z = x /\ y.flags = {}
  <2>1. x.flags = {}
    BY <1>5, <1>6
  <2>2. x.k.snd_nxt = conn.snd_nxt /\ x.k.len = conn.len
    BY <2>1 DEF Acked
  <2> QED BY <1>1, <1>6, <2>2, QuietKeeps
<1>7. CASE z \in {appsend(v) : v \in UIP_APPCALL(y, data)}
  <2>1. PICK v \in Answers(w) : z = appsend(v)
    BY <1>7 DEF UIP_APPCALL
  <2>2. /\ w \in Calls /\ w.a = Learns(y, data) /\ w.k = k /\ w.flags = y.flags
    BY <1>1, <1>5, Told
  <2>3. /\ "ACKDATA" \in y.flags => w.a.acked = app.acked + app.flight /\ w.a.flight = 0
        /\ "ACKDATA" \notin y.flags => w.a.acked = app.acked /\ w.a.flight = app.flight
    <3>1. y \in Calls /\ data \in Seq(Nat)
      BY <1>1, <1>5
    <3>2. /\ "ACKDATA" \in y.flags =>
               Learns(y, data).acked = y.a.acked + y.a.flight /\ Learns(y, data).flight = 0
          /\ "ACKDATA" \notin y.flags =>
               Learns(y, data).acked = y.a.acked /\ Learns(y, data).flight = y.a.flight
      BY ONLY <3>1, Told
    <3> QED BY ONLY <1>5, <2>2, <3>2
  <2>4. w.out = {}
    BY <1>5 DEF Tell, Calls
  <2> HIDE DEF w
  <2>5. Fits(w.k, w.a, hasty, sent) /\ x.k.len = w.a.flight
    BY <1>4, <1>5, <2>2, <2>3, ToldFits
  <2>6. Ready(w)
    BY <1>4, <2>2, <2>4, <2>5 DEF Ready
  <2> QED BY <1>5, <2>1, <2>2, <2>6, AppSends
<1> QED BY <1>3, <1>6, <1>7, PeerFinKeeps

(* Our FIN is out: the streams stay as they are.                           *)
LEMMA LeavingKeeps ==
  ASSUME Now, NEW z, z.out = {}, z.a = app,
         conn.state \in Leaving \union Left,
         z.k.state \in Leaving \union Left,
         z.k.state \in Leaving =>
           conn.state \in Leaving /\ z.k.snd_nxt = conn.snd_nxt /\ z.k.len = conn.len,
         z.k.state \in Left => z.k.len = 0 /\ (hasty = TRUE \/ peer.fin = TRUE),
         conn.state # "FIN_WAIT_1" => z.k.state # "FIN_WAIT_1"
  PROVE  Keeps(z)
<1>1. Later(z) = hasty /\ sent \union z.out = sent
  BY DEF Later
<1>2. conn.state \notin Early /\ z.k.state \notin Early
  BY DEF Early, Leaving, Left
<1>3. Place(z.k, app)
  BY <1>2 DEF Now, Fits, Place, Leaving, Left
<1>4. Received(z.k, app)
  BY <1>2 DEF Now, Fits, Received, Early
<1>5. Ended(z.k, app, hasty)
  BY <1>2 DEF Now, Fits, Ended
<1>6. \A s \in sent : OfStream(z.k, app, s)
  BY <1>2 DEF Now, Fits, OfStream
<1> QED BY <1>1, <1>3, <1>4, <1>5, <1>6 DEF Keeps, Fits

(* Our FIN is acknowledged only when the peer has it.                      *)
LEMMA FinAcked ==
  ASSUME Now, NEW x, Acked(x), conn.state \in Left \/ "ACKDATA" \in x.flags,
         conn.state \in Leaving \union Left
  PROVE  x.k.len = 0 /\ (hasty = TRUE \/ peer.fin = TRUE)
<1>1. CASE conn.state \in Left
  <2>1. conn.len = 0 /\ (hasty = TRUE \/ peer.fin = TRUE)
    BY <1>1 DEF Now, Fits, Place, Ended
  <2> QED BY <2>1 DEF Acked
<1>2. CASE conn.state \in Leaving
  BY <1>2 DEF Acked, Whole, Leaving, Left
<1> QED BY <1>1, <1>2

LEMMA FinWaitKeeps ==
  ASSUME Inv, Now, conn.state \in {"FIN_WAIT_1", "FIN_WAIT_2"}, NEW s, SegmentOK(s),
         NEW x, Acked(x)
  PROVE  Keeps(FinWait(x, s))
<1> DEFINE acked == x.k.state = "FIN_WAIT_2" \/ "ACKDATA" \in x.flags
           y == Receive(x, Len(s.data))
<1>1. /\ x \in Calls /\ x.k \in ConnType /\ x.a = app /\ x.out = {} /\ x.k.state = conn.state
      /\ Len(s.data) \in Nat
  BY DEF Acked, Calls, SegmentOK
<1>2. acked => x.k.len = 0 /\ (hasty = TRUE \/ peer.fin = TRUE)
  BY <1>1, FinAcked DEF Leaving, Left
<1>3. ~acked => conn.state = "FIN_WAIT_1" /\ x.k.snd_nxt = conn.snd_nxt /\ x.k.len = conn.len
  BY <1>1 DEF Acked
<1>4. /\ y \in Calls /\ y.a = app /\ y.out = {} /\ y.k.state = conn.state
      /\ y.k.snd_nxt = x.k.snd_nxt /\ y.k.len = x.k.len /\ y.k \in ConnType
  <2> DEFINE k == [x.k EXCEPT !.rcv_nxt = Add(@, Len(s.data))]
  <2>1. y = [x EXCEPT !.k = k]
    BY <1>1 DEF Receive, Calls
  <2>2. k \in ConnType /\ k.state = x.k.state /\ k.snd_nxt = x.k.snd_nxt /\ k.len = x.k.len
    BY <1>1, AddIsNat DEF ConnType
  <2> HIDE DEF k
  <2> QED BY <1>1, <2>1, <2>2 DEF Calls
<1>5. CASE "FIN" \notin s.ctl
  <2> DEFINE state == IF acked THEN "FIN_WAIT_2" ELSE conn.state
             k == [y.k EXCEPT !.state = state]
             z == [y EXCEPT !.k = k]
  <2>1. FinWait(x, s) = z
    BY <1>4, <1>5 DEF FinWait, Calls
  <2> HIDE DEF y
  <2>2. k.state = state /\ k.snd_nxt = x.k.snd_nxt /\ k.len = x.k.len
    BY <1>4 DEF ConnType
  <2>3. state \in {"FIN_WAIT_1", "FIN_WAIT_2"} /\ (acked => state = "FIN_WAIT_2")
        /\ (~acked => state = "FIN_WAIT_1")
    BY <1>3
  <2> HIDE DEF k, state, acked
  <2>4. z.k = k /\ z.a = app /\ z.out = {}
    BY <1>4 DEF Calls
  <2> HIDE DEF z
  <2>5. z.k.state \in Leaving \union Left /\ conn.state \in Leaving \union Left
    BY <2>2, <2>3, <2>4 DEF Leaving, Left
  <2>6. z.k.state \in Leaving => ~acked
    BY <2>2, <2>3, <2>4 DEF Leaving
  <2>7. z.k.state \in Left => acked
    BY <2>2, <2>3, <2>4 DEF Left
  <2>8. conn.state # "FIN_WAIT_1" => z.k.state # "FIN_WAIT_1"
    BY <1>3, <2>2, <2>3, <2>4
  <2>9. Keeps(z)
    BY <1>2, <1>3, <2>2, <2>4, <2>5, <2>6, <2>7, <2>8, LeavingKeeps DEF Leaving
  <2> QED BY <2>1, <2>9
<1>6. CASE "FIN" \in s.ctl
  <2> DEFINE state == IF acked THEN "TIME_WAIT" ELSE "CLOSING"
             k == [y.k EXCEPT !.rcv_nxt = Add(@, 1), !.state = state]
             z == [y EXCEPT !.k = k, !.flags = {"CLOSE"}]
  <2>1. FinWait(x, s) = Tell([Receive(y, 1) EXCEPT !.k.state = state, !.flags = {"CLOSE"}], <<>>)
    BY <1>6 DEF FinWait
  <2> HIDE DEF y
  <2>2. state \in {"CLOSING", "TIME_WAIT"} /\ (acked => state = "TIME_WAIT")
        /\ (~acked => state = "CLOSING")
    OBVIOUS
  <2> HIDE DEF state, acked
  <2>3. [Receive(y, 1) EXCEPT !.k.state = state, !.flags = {"CLOSE"}] = z
    BY <1>4 DEF Receive, Calls
  <2>4. k \in ConnType /\ k.state = state /\ k.snd_nxt = x.k.snd_nxt /\ k.len = x.k.len
    BY <1>4, <2>2, AddIsNat DEF ConnType, States
  <2> HIDE DEF k
  <2>5. z \in Calls /\ z.k = k /\ z.a = app /\ z.out = {} /\ "ACKDATA" \notin z.flags
    BY <1>4, <2>4 DEF Calls, Flags
  <2> HIDE DEF z
  <2>6. FinWait(x, s) = z
    BY <2>1, <2>3, <2>5, ToldNothing
  <2>7. z.k.state \in Leaving \union Left /\ conn.state \in Leaving \union Left
    BY <2>2, <2>4, <2>5 DEF Leaving, Left
  <2>8. z.k.state \in Leaving => ~acked
    BY <2>2, <2>4, <2>5 DEF Leaving
  <2>9. z.k.state \in Left => acked
    BY <2>2, <2>4, <2>5 DEF Left
  <2>10. z.k.state # "FIN_WAIT_1"
    BY <2>2, <2>4, <2>5
  <2>11. Keeps(z)
    BY <1>2, <1>3, <2>4, <2>5, <2>7, <2>8, <2>9, <2>10, LeavingKeeps DEF Leaving
  <2> QED BY <2>6, <2>11
<1> QED BY <1>5, <1>6

LEMMA LastAckKeeps ==
  ASSUME Inv, Now, conn.state = "LAST_ACK", NEW x, Acked(x)
  PROVE  Keeps(LastAck(x))
<1>1. x \in Calls /\ x.k \in ConnType /\ x.a = app /\ x.out = {} /\ x.k.state = conn.state
  BY DEF Acked, Calls
<1>2. CASE "ACKDATA" \notin x.flags
  <2>1. LastAck(x) = x /\ x.k.snd_nxt = conn.snd_nxt /\ x.k.len = conn.len
    BY <1>2 DEF LastAck, Acked
  <2> QED BY <1>1, <2>1, QuietKeeps
<1>3. CASE "ACKDATA" \in x.flags
  <2> DEFINE k == [x.k EXCEPT !.state = "CLOSED"]
             z == [x EXCEPT !.k = k, !.flags = {"CLOSE"}]
  <2>1. LastAck(x) = Tell(z, <<>>)
    <3>1. [x EXCEPT !.k.state = "CLOSED", !.flags = {"CLOSE"}] = z
      BY <1>1 DEF Calls
    <3> QED BY <1>3, <3>1 DEF LastAck
  <2>2. k \in ConnType /\ k.state = "CLOSED"
    BY <1>1 DEF ConnType, States
  <2> HIDE DEF k
  <2>3. z \in Calls /\ z.k = k /\ z.a = app /\ z.out = {} /\ "ACKDATA" \notin z.flags
    BY <1>1, <2>2 DEF Calls, Flags
  <2> HIDE DEF z
  <2>4. LastAck(x) = z
    BY <2>1, <2>3, ToldNothing
  <2>5. Keeps(z)
    BY <2>2, <2>3, EndKeeps
  <2> QED BY <2>4, <2>5
<1> QED BY <1>2, <1>3

LEMMA ClosingKeeps ==
  ASSUME Inv, Now, conn.state = "CLOSING", NEW x, Acked(x)
  PROVE  Keeps(Closing(x))
<1> DEFINE state == IF "ACKDATA" \in x.flags THEN "TIME_WAIT" ELSE "CLOSING"
           k == [x.k EXCEPT !.state = state]
           z == [x EXCEPT !.k = k]
<1>1. x \in Calls /\ x.k \in ConnType /\ x.a = app /\ x.out = {} /\ x.k.state = "CLOSING"
  BY DEF Acked, Calls
<1>2. Closing(x) = z
  BY <1>1 DEF Closing, Calls
<1>3. k.state = state /\ k.snd_nxt = x.k.snd_nxt /\ k.len = x.k.len
  BY <1>1 DEF ConnType
<1> HIDE DEF k
<1>4. z.k = k /\ z.a = app /\ z.out = {}
  BY <1>1 DEF Calls
<1> HIDE DEF z
<1>5. CASE "ACKDATA" \in x.flags
  <2>1. x.k.len = 0 /\ (hasty = TRUE \/ peer.fin = TRUE)
    BY <1>5, FinAcked DEF Leaving
  <2>2. Keeps(z)
    BY <1>3, <1>4, <1>5, <2>1, LeavingKeeps DEF Leaving, Left
  <2> QED BY <1>2, <2>2
<1>6. CASE "ACKDATA" \notin x.flags
  <2>1. x.k.snd_nxt = conn.snd_nxt /\ x.k.len = conn.len
    BY <1>6 DEF Acked
  <2>2. Keeps(z)
    BY <1>3, <1>4, <1>6, <2>1, QuietKeeps
  <2> QED BY <1>2, <2>2
<1> QED BY <1>5, <1>6

LEMMA FoundKeeps ==
  ASSUME Inv, Now, conn.state # "CLOSED", NEW s \in SegmentsOfPeer, NEW z \in found(s)
  PROVE  Keeps(z)
<1> DEFINE c == Call({})
           x == Acknowledged(c, s)
<1>1. /\ c \in Calls /\ c.k = conn /\ c.a = app /\ c.out = {}
  BY DEF Call, Calls, Inv, Good
<1>2. SegmentOK(s)
  BY PeerSends DEF Inv, PeerType
<1>3. Acked(x)
  BY AckKeeps
<1>4. \/ z = c
      \/ conn.state = "SYN_RCVD" /\ z \in SynRcvd(x, s)
      \/ conn.state = "SYN_SENT" /\ z \in SynSent(x, s)
      \/ conn.state = "ESTABLISHED" /\ z \in Established(x, s)
      \/ conn.state \in {"FIN_WAIT_1", "FIN_WAIT_2"} /\ z = FinWait(x, s)
      \/ conn.state = "LAST_ACK" /\ z = LastAck(x)
      \/ conn.state = "CLOSING" /\ z = Closing(x)
      \/ conn.state = "TIME_WAIT" /\ z = x
  BY DEF found, Inv, Good, ConnType, States
<1> HIDE DEF c, x
<1>5. CASE z = c
  BY <1>1, <1>5, QuietKeeps
<1>6. CASE conn.state = "TIME_WAIT" /\ z = x
  <2>1. conn.len = 0
    BY <1>6 DEF Now, Fits, Place, Left
  <2>2. z.out = {} /\ z.a = app /\ z.k.state = conn.state
        /\ z.k.snd_nxt = conn.snd_nxt /\ z.k.len = conn.len
    BY <1>3, <1>6, <2>1 DEF Acked
  <2> QED BY <2>2, QuietKeeps
<1> QED BY <1>2, <1>3, <1>4, <1>5, <1>6, SynRcvdKeeps, SynSentKeeps, EstablishedKeeps,
        FinWaitKeeps, LastAckKeeps, ClosingKeeps

-----------------------------------------------------------------------------
(* The actions                                                             *)

(* The invariant: what was sent, what the peer has and where connection    *)
(* and application stand fit each other.                                   *)
OutInv ==
  /\ Now
  /\ peer.role = "none" => sent = {} /\ peer.rcv = 0 /\ hasty = FALSE

LEMMA DoneKeeps ==
  ASSUME Inv, OutInv, NEW z, Keeps(z), Done(z), UNCHANGED peer, conn.state # "CLOSED"
  PROVE  OutInv'
<1>1. peer.role # "none"
  BY DEF Inv
<1>2. hasty \in BOOLEAN
  BY DEF OutInv, Now
<1>3. hasty' \in BOOLEAN /\ hasty' = Later(z)
  BY <1>2 DEF Done, Later
<1>4. Fits(conn', app', hasty', sent')
  BY <1>3 DEF Done, Keeps
<1>5. Fits(conn, app, hasty, sent)'
  BY <1>4 DEF Fits, Place, Received, Ended, OfStream, Own
<1> QED BY <1>1, <1>3, <1>5 DEF OutInv, Now

LEMMA ArrivesKeeps == ASSUME Inv, OutInv, Arrives PROVE OutInv'
<1>1. PICK s \in SegmentsOfPeer : \E z \in found(s) : Done(z)
  BY DEF Arrives
<1>2. PICK z \in found(s) : Done(z)
  BY <1>1
<1>3. Keeps(z)
  BY FoundKeeps DEF OutInv, Arrives
<1> QED BY <1>2, <1>3, DoneKeeps DEF Arrives

LEMMA EndsKeeps ==
  ASSUME Inv, OutInv, conn.state # "CLOSED", NEW flags \in SUBSET Flags, "ACKDATA" \notin flags,
         Done(Tell([Call(flags) EXCEPT !.k.state = "CLOSED", !.k.stopped = FALSE], <<>>)),
         UNCHANGED peer
  PROVE  OutInv'
<1> DEFINE c == Call(flags)
           k == [conn EXCEPT !.state = "CLOSED", !.stopped = FALSE]
           z == [c EXCEPT !.k = k]
<1>1. /\ c \in Calls /\ c.k = conn /\ c.a = app /\ c.flags = flags /\ c.out = {}
  BY DEF Call, Calls, Good, Inv
<1>2. Done(Tell(z, <<>>))
  <2>1. [c EXCEPT !.k.state = "CLOSED", !.k.stopped = FALSE] = z
    BY <1>1 DEF Calls
  <2> QED BY <2>1
<1>3. k \in ConnType /\ k.state = "CLOSED"
  BY DEF Inv, Good, ConnType, States
<1> HIDE DEF c, k
<1>4. z \in Calls /\ z.k = k /\ z.a = app /\ "ACKDATA" \notin z.flags /\ z.out = {}
  BY <1>1, <1>3 DEF Calls
<1> HIDE DEF z
<1>5. Tell(z, <<>>) = z
  BY <1>4, ToldNothing
<1>6. Keeps(z)
  BY <1>3, <1>4, EndKeeps DEF OutInv
<1> QED BY <1>2, <1>5, <1>6, DoneKeeps

(* What is sent again by a connection that is not open.                    *)
LEMMA AgainFits ==
  ASSUME Now, NEW z, z.k.state = conn.state, z.k.snd_nxt = conn.snd_nxt,
         z.k.len = conn.len, z.a = app, NEW ctl,
         z.out = {[ctl |-> ctl, seqno |-> conn.snd_nxt, data |-> <<>>]},
         \/ conn.state \in {"SYN_RCVD", "SYN_SENT"} /\ "FIN" \notin ctl
         \/ conn.state \in Leaving /\ "FIN" \in ctl
  PROVE  Keeps(z)
<1> DEFINE s == [ctl |-> ctl, seqno |-> conn.snd_nxt, data |-> <<>>]
<1>1. Fits(z.k, z.a, hasty, sent)
  BY FitsAgain DEF Now
<1>2. s.ctl = ctl /\ s.seqno = conn.snd_nxt /\ s.data = <<>> /\ z.out = {s}
  OBVIOUS
<1> HIDE DEF s
<1>3. OfStream(z.k, z.a, s)
  BY <1>1, <1>2 DEF Fits, Place, OfStream, Early, Leaving
<1>4. Later(z) = hasty
  BY DEF Later
<1> QED BY <1>1, <1>2, <1>3, <1>4 DEF Keeps, Fits

LEMMA AgainKeeps ==
  ASSUME Inv, Now, conn.state \notin {"CLOSED", "TIME_WAIT", "FIN_WAIT_2"}, conn.len > 0,
         NEW z \in Again([Call({"REXMIT"}) EXCEPT !.k.nrtx = @ + 1])
  PROVE  Keeps(z)
<1> DEFINE c == Call({"REXMIT"})
           k == [conn EXCEPT !.nrtx = @ + 1]
           x == [c EXCEPT !.k = k]
<1>1. /\ c \in Calls /\ c.k = conn /\ c.a = app /\ c.flags = {"REXMIT"} /\ c.out = {}
      /\ Good(conn, app)
  BY DEF Call, Calls, Good, Inv, Flags
<1>2. z \in Again(x)
  <2>1. [c EXCEPT !.k.nrtx = @ + 1] = x
    BY <1>1 DEF Calls
  <2> QED BY <2>1
<1>3. /\ k \in ConnType /\ k.state = conn.state /\ k.snd_nxt = conn.snd_nxt /\ k.len = conn.len
  BY DEF Inv, Good, ConnType
<1> HIDE DEF c, k
<1>4. x \in Calls /\ x.k = k /\ x.a = app /\ x.flags = {"REXMIT"} /\ x.out = {}
  BY <1>1, <1>3 DEF Calls
<1> HIDE DEF x
<1>5. CASE conn.state # "ESTABLISHED"
  <2>1. conn.state \in {"SYN_RCVD", "SYN_SENT"} \union Leaving
    BY <1>5 DEF Inv, Good, ConnType, States, Leaving
  <2>2. PICK ctl \in SUBSET Flag :
          /\ z = tcp_send(x, ctl, <<>>)
          /\ \/ conn.state \in {"SYN_RCVD", "SYN_SENT"} /\ "FIN" \notin ctl
             \/ conn.state \in Leaving /\ "FIN" \in ctl
    <3>1. CASE conn.state = "SYN_RCVD"
      BY <1>2, <1>3, <1>4, <3>1 DEF Again, Flag
    <3>2. CASE conn.state = "SYN_SENT"
      BY <1>2, <1>3, <1>4, <3>2 DEF Again, Flag
    <3>3. CASE conn.state \in Leaving
      <4>1. z = tcp_send(x, {"FIN", "ACK"}, <<>>)
        BY <1>2, <1>3, <1>4, <3>3 DEF Again, Leaving, tcp_send_finack
      <4>2. {"FIN", "ACK"} \in SUBSET Flag
        BY DEF Flag
      <4> QED BY <3>3, <4>1, <4>2
    <3> QED BY <2>1, <3>1, <3>2, <3>3
  <2>3. z.k = x.k /\ z.a = x.a
    BY <1>4, <2>2 DEF tcp_send, Calls
  <2>4. z.out = {[ctl |-> ctl, seqno |-> conn.snd_nxt, data |-> <<>>]}
    <3>1. z.out = {[ctl |-> ctl, seqno |-> x.k.snd_nxt, data |-> <<>>]}
      BY <1>4, <2>2, SentOut
    <3> QED BY <1>3, <1>4, <3>1
  <2> QED BY <1>3, <1>4, <2>2, <2>3, <2>4, AgainFits
<1>6. CASE conn.state = "ESTABLISHED"
  <2>1. PICK y \in Answers(x) : z = apprexmit(y)
    <3>1. PICK y \in UIP_APPCALL(x, <<>>) : z = apprexmit(y)
      BY <1>2, <1>3, <1>4, <1>6 DEF Again
    <3>2. Tell(x, <<>>) = x
      BY <1>4, ToldNothing
    <3> QED BY <3>1, <3>2 DEF UIP_APPCALL
  <2>2. Ready(x)
    <3>1. Fits(x.k, x.a, hasty, sent)
      BY <1>3, <1>4, FitsAgain DEF Now
    <3> QED BY <1>1, <1>3, <1>4, <1>6, <3>1 DEF Ready, Good
  <2>3. x.flags \intersect {"CLOSE", "ABORT"} = {}
    BY <1>4
  <2>4. /\ y \in Calls /\ y.out = {} /\ y.k.state = "ESTABLISHED"
        /\ y.k.len = x.a.flight /\ y.a.acked = x.a.acked /\ y.a.flight = x.a.flight
        /\ Fits(y.k, y.a, hasty, sent)
    BY <1>4, <2>1, <2>2, <2>3, ReadyAnswered
  <2>5. z.k = y.k /\ z.a = y.a
    BY <2>1, <2>4, Repeated
  <2>6. Later(z) = hasty
    BY <2>4, <2>5 DEF Later
  <2>7. CASE z = y
    BY <2>4, <2>6, <2>7 DEF Keeps
  <2>8. CASE y.slen > 0 /\ y.k.len > 0
    <3> DEFINE data == Bytes(y.a.acked, y.a.flight)
    <3>1. z = tcp_send(y, {"ACK"}, data)
      BY <2>1, <2>4, <2>8 DEF apprexmit
    <3> HIDE DEF data
    <3>2. z.out = {[ctl |-> {"ACK"}, seqno |-> y.k.snd_nxt, data |-> data]}
      BY ONLY <2>4, <3>1, SentOut
    <3>3. y.a \in AppType /\ y.a.flight > 0 /\ "FIN" \notin {"ACK"}
      BY <2>4, <2>8 DEF Calls
    <3>4. Fits(y.k, y.a, hasty, sent \union {[ctl |-> {"ACK"}, seqno |-> y.k.snd_nxt, data |-> data]})
      BY ONLY <2>4, <3>3, DataFits DEF data
    <3> QED BY ONLY <2>5, <2>6, <3>2, <3>4 DEF Keeps
  <2> QED BY <2>1, <2>7, <2>8 DEF apprexmit
<1> QED BY <1>5, <1>6

LEMMA RetransmitsKeeps == ASSUME Inv, OutInv, Retransmits PROVE OutInv'
<1>1. CASE TooOften
  <2>1. {"TIMEDOUT"} \in SUBSET Flags /\ "ACKDATA" \notin {"TIMEDOUT"}
    BY DEF Flags
  <2> QED BY <1>1, <2>1, EndsKeeps DEF Retransmits
<1>2. CASE ~TooOften
  <2>1. PICK z \in Again([Call({"REXMIT"}) EXCEPT !.k.nrtx = @ + 1]) : Done(z)
    BY <1>2 DEF Retransmits
  <2>2. conn.state \notin {"CLOSED", "TIME_WAIT", "FIN_WAIT_2"} /\ conn.len > 0 /\ UNCHANGED peer
    BY DEF Retransmits
  <2>3. Keeps(z)
    BY <2>1, <2>2, AgainKeeps DEF OutInv
  <2> QED BY <2>1, <2>2, <2>3, DoneKeeps
<1> QED BY <1>1, <1>2

LEMMA ResetKeeps == ASSUME Inv, OutInv, Reset PROVE OutInv'
<1>1. {"ABORT"} \in SUBSET Flags /\ "ACKDATA" \notin {"ABORT"}
  BY DEF Flags
<1> QED BY <1>1, EndsKeeps DEF Reset

LEMMA PollsKeeps == ASSUME Inv, OutInv, Polls PROVE OutInv'
<1> DEFINE c == Call({"POLL"})
<1>1. /\ c \in Calls /\ c.k = conn /\ c.a = app /\ c.flags = {"POLL"} /\ c.out = {}
      /\ Good(conn, app) /\ conn.state = "ESTABLISHED" /\ UNCHANGED peer
  BY DEF Call, Calls, Good, Inv, Flags, Polls
<1>2. PICK y \in UIP_APPCALL(c, <<>>) : Done(appsend(y))
  BY DEF Polls
<1> HIDE DEF c
<1>3. Tell(c, <<>>) = c
  BY <1>1, ToldNothing
<1>4. y \in Answers(c)
  BY <1>2, <1>3 DEF UIP_APPCALL
<1>5. Ready(c)
  BY <1>1 DEF Ready, Good, OutInv, Now
<1>6. Keeps(appsend(y))
  BY <1>1, <1>4, <1>5, AppSends
<1> QED BY <1>1, <1>2, <1>6, DoneKeeps

LEMMA WaitExpiresKeeps == ASSUME Inv, OutInv, WaitExpires PROVE OutInv'
<1> DEFINE k == [conn EXCEPT !.state = "CLOSED"]
<1>1. conn' = k /\ k.state = "CLOSED" /\ UNCHANGED <<app, peer, sent, hasty>>
  BY DEF WaitExpires, Inv, Good, ConnType
<1> HIDE DEF k
<1>2. Fits(conn', app', hasty', sent')
  BY <1>1, FitsEnded DEF OutInv, Now
<1>3. Fits(conn, app, hasty, sent)'
  BY <1>1, <1>2 DEF Fits, Place, Received, Ended, OfStream, Own
<1> QED BY <1>1, <1>3 DEF OutInv, Now

OnlySyn(segs) == \A s \in segs : s.seqno = Iss /\ s.data = <<>> /\ "FIN" \notin s.ctl

(* A connection begins: the first segment is a SYN.                        *)
LEMMA OpeningKeeps ==
  ASSUME Inv, OutInv, peer.role = "none", NEW k, k.state \in {"SYN_RCVD", "SYN_SENT"},
         k.snd_nxt = Iss, k.len = 1, conn' = k, app' = app, hasty' = hasty,
         peer'.rcv = peer.rcv, peer'.got = peer.got, peer'.fin = peer.fin, peer'.role # "none",
         OnlySyn(sent')
  PROVE  OutInv'
<1>1. app.acked = 0 /\ app.flight = 0 /\ peer.rcv = 0 /\ MaxOut \in Nat
      /\ hasty' = FALSE
  BY SequenceAssumption DEF Inv, OutInv
<1>2. Own(0) = Iss
  BY SequenceAssumption DEF Own, Add
<1>4. Place(k, app) /\ Ended(k, app, FALSE)
  BY <1>1, <1>2 DEF Place, Ended, Leaving, Left
<1>5. Received(conn, app)'
  <2>1. PICK n \in 0 .. MaxOut : peer.got = Bytes(0, n) /\ n = 0 /\ peer.fin = FALSE
    BY <1>1 DEF OutInv, Now, Fits, Received
  <2>2. peer'.got = Bytes(0, n) /\ peer'.rcv = 0 /\ peer'.fin = FALSE
        /\ conn'.state # "ESTABLISHED" /\ app'.acked = 0 /\ app'.flight = 0
    BY <1>1, <2>1
  <2> QED BY <2>1, <2>2 DEF Received
<1>6. \A s \in sent' : OfStream(conn', app', s)
  BY <1>2 DEF OfStream, OnlySyn
<1>7. Place(conn, app)' /\ Ended(conn, app, hasty)' /\ (\A s \in sent : OfStream(conn, app, s))'
  BY <1>1, <1>4, <1>6 DEF Place, Ended, OfStream, Own, Early, Leaving, Left
<1>8. Now'
  BY <1>1, <1>5, <1>7 DEF Now, Fits
<1> QED BY <1>8 DEF OutInv

LEMMA FoundListenKeeps == ASSUME Inv, OutInv, found_listen PROVE OutInv'
<1> DEFINE k == [conn EXCEPT !.state = "SYN_RCVD", !.snd_nxt = Iss, !.len = 1, !.nrtx = 0,
                             !.rcv_nxt = Add(Seqno(0), 1)]
           c == [Call({}) EXCEPT !.k = k]
           z == tcp_send(c, {"SYN", "ACK"}, <<>>)
<1>1. /\ conn.state = "CLOSED" /\ peer.role = "none" /\ Done(z)
      /\ peer' = [peer EXCEPT !.role = "opens"]
  BY DEF found_listen
<1>2. /\ k \in ConnType /\ k.state = "SYN_RCVD" /\ k.snd_nxt = Iss /\ k.len = 1
  <2>1. 0 \in 0 .. MaxIn /\ Iss \in Nat
    BY SequenceAssumption
  <2>2. Add(Seqno(0), 1) \in Nat
    BY <2>1, Positions, AddIsNat, SequenceAssumption
  <2> QED BY <2>1, <2>2 DEF Inv, Good, ConnType, States
<1> HIDE DEF k
<1>3. c \in Calls /\ c.k = k /\ c.a = app
  BY <1>2 DEF Call, Calls, Inv, Good
<1> HIDE DEF c
<1>4. z.k = k /\ z.a = app /\ z.out = {[ctl |-> {"SYN", "ACK"}, seqno |-> k.snd_nxt, data |-> <<>>]}
  <2>1. z.k = k /\ z.a = app
    BY <1>3 DEF tcp_send, Calls
  <2>2. z.out = {[ctl |-> {"SYN", "ACK"}, seqno |-> c.k.snd_nxt, data |-> <<>>]}
    BY ONLY <1>3, SentOut DEF z
  <2> QED BY ONLY <1>3, <2>1, <2>2
<1> HIDE DEF z
<1>5. sent = {} /\ hasty = FALSE
  BY <1>1 DEF OutInv
<1>6. conn' = k /\ app' = app /\ hasty' = hasty /\ sent' = z.out
  BY <1>1, <1>2, <1>4, <1>5 DEF Done
<1>7. OnlySyn(sent')
  BY <1>2, <1>4, <1>6 DEF OnlySyn
<1>8. peer'.rcv = peer.rcv /\ peer'.got = peer.got /\ peer'.fin = peer.fin /\ peer'.role # "none"
  BY <1>1 DEF Inv, PeerType
<1>9. k.state \in {"SYN_RCVD", "SYN_SENT"} /\ k.snd_nxt = Iss /\ k.len = 1
  BY <1>2
<1>10. peer.role = "none"
  BY <1>1
<1> QED BY ONLY Inv, OutInv, <1>6, <1>7, <1>8, <1>9, <1>10, OpeningKeeps

LEMMA ConnectKeeps == ASSUME Inv, OutInv, uip_connect PROVE OutInv'
<1> DEFINE k == [conn EXCEPT !.state = "SYN_SENT", !.snd_nxt = Iss, !.len = 1, !.nrtx = 0]
<1>1. k.state = "SYN_SENT" /\ k.snd_nxt = Iss /\ k.len = 1
  BY DEF Inv, Good, ConnType
<1>2. /\ peer.role = "none" /\ conn' = k /\ app' = app /\ hasty' = hasty /\ sent' = sent
      /\ peer' = [peer EXCEPT !.role = "accepts"]
  BY DEF uip_connect
<1> HIDE DEF k
<1>3. sent = {} /\ hasty = FALSE
  BY <1>2 DEF OutInv
<1>4. peer'.rcv = peer.rcv /\ peer'.got = peer.got /\ peer'.fin = peer.fin /\ peer'.role # "none"
  BY <1>2 DEF Inv, PeerType
<1>5. k.state \in {"SYN_RCVD", "SYN_SENT"} /\ k.snd_nxt = Iss /\ k.len = 1
  BY <1>1
<1>6. hasty' = hasty /\ OnlySyn(sent')
  BY <1>2, <1>3 DEF OnlySyn
<1>7. peer.role = "none" /\ conn' = k /\ app' = app
  BY <1>2
<1> QED BY ONLY Inv, OutInv, <1>4, <1>5, <1>6, <1>7, OpeningKeeps

(* A segment of uIP arrives in its turn.                                   *)
LEMMA PeerGetsKeeps == ASSUME Inv, OutInv, PeerGets PROVE OutInv'
<1>1. PICK s \in sent :
        /\ s.seqno = Add(Iss, peer.rcv) /\ ~peer.fin
        /\ peer' = [peer EXCEPT !.rcv = @ + Len(s.data) + IF s.data = <<>> THEN 1 ELSE 0,
                                !.got = @ \o s.data, !.fin = "FIN" \in s.ctl]
  BY DEF PeerGets
<1>2. UNCHANGED <<conn, app, sent, hasty>>
  BY DEF PeerGets
<1>3. /\ s.data \in Seq(Nat) /\ Len(s.data) \in Nat /\ peer \in PeerType
      /\ app.acked \in Nat /\ app.flight \in Nat /\ MaxOut \in Nat
      /\ app.acked + app.flight <= MaxOut
      /\ OfStream(conn, app, s) /\ s.seqno = Own(peer.rcv) /\ peer.got \in Seq(Nat)
  BY <1>1, SequenceAssumption, SMTT(30)
     DEF Inv, OutInv, Now, Fits, Place, Wire, Good, AppType, PeerType, Own
<1>4. /\ peer'.rcv = peer.rcv + Len(s.data) + (IF s.data = <<>> THEN 1 ELSE 0)
      /\ peer'.got = peer.got \o s.data
      /\ peer'.role = peer.role
      /\ "FIN" \in s.ctl => peer'.fin = TRUE
      /\ "FIN" \notin s.ctl => peer'.fin = FALSE
  <2>1. /\ peer'.rcv = peer.rcv + Len(s.data) + (IF s.data = <<>> THEN 1 ELSE 0)
        /\ peer'.got = peer.got \o s.data
        /\ peer'.role = peer.role
        /\ peer'.fin = ("FIN" \in s.ctl)
    BY <1>1, <1>3 DEF PeerType
  <2>2. CASE "FIN" \in s.ctl
    <3>1. ("FIN" \in s.ctl) = TRUE
      BY <2>2
    <3> QED BY <2>1, <2>2, <3>1
  <2>3. CASE "FIN" \notin s.ctl
    <3>1. ("FIN" \in s.ctl) = FALSE
      BY <2>3
    <3> QED BY <2>1, <2>3, <3>1
  <2> QED BY <2>2, <2>3
<1>5. PICK n \in 0 .. MaxOut :
        /\ peer.got = Bytes(0, n)
        /\ \/ /\ peer.rcv = 0 /\ n = 0 /\ peer.fin = FALSE
              /\ app.acked = 0 /\ app.flight = 0 /\ conn.state # "ESTABLISHED"
           \/ peer.rcv = 1 + n /\ peer.fin = FALSE /\ n \in {app.acked, app.acked + app.flight}
  BY <1>1 DEF OutInv, Now, Fits, Received
<1>6. peer.rcv \in 0 .. MaxOut + 2 /\ n \in Nat
  BY <1>3, <1>5
<1>7. Received(conn, app)'
  <2>1. CASE s.seqno = Own(0) /\ s.data = <<>> /\ "FIN" \notin s.ctl
    <3>1. 0 \in 0 .. MaxOut + 2
      BY <1>3
    <3>2. peer.rcv = 0
      BY <1>3, <1>6, <2>1, <3>1, OwnPositions
    <3>3. peer'.rcv = 1 /\ peer'.got = peer.got /\ peer'.fin = FALSE
      BY <1>3, <1>4, <2>1, <3>2, Nothing
    <3> QED BY <1>2, <1>5, <3>2, <3>3 DEF Received
  <2>2. CASE /\ s.seqno = Own(1 + app.acked) /\ s.data = <<>> /\ "FIN" \in s.ctl
             /\ conn.state \notin Early
    <3>1. 1 + app.acked \in 0 .. MaxOut + 2
      BY <1>3
    <3>2. peer.rcv = 1 + app.acked
      BY <1>3, <1>6, <2>2, <3>1, OwnPositions
    <3>3. n = app.acked
      BY <1>3, <1>5, <1>6, <3>2
    <3>4. peer'.rcv = 2 + app.acked /\ peer'.got = peer.got /\ peer'.fin = TRUE
      BY <1>3, <1>4, <2>2, <3>2, Nothing
    <3> QED BY <1>2, <1>5, <2>2, <3>3, <3>4 DEF Received, Early
  <2>3. CASE \E q \in 0 .. MaxOut :
               /\ s.seqno = Own(1 + q) /\ s.data # <<>> /\ "FIN" \notin s.ctl
               /\ q < app.acked \/ (q = app.acked /\ s.data = Bytes(q, app.flight))
    <3>1. PICK q \in 0 .. MaxOut :
               /\ s.seqno = Own(1 + q) /\ s.data # <<>> /\ "FIN" \notin s.ctl
               /\ q < app.acked \/ (q = app.acked /\ s.data = Bytes(q, app.flight))
      BY <2>3
    <3> DEFINE p == 1 + q
    <3>2. p \in 0 .. MaxOut + 2
      BY <1>3
    <3>3. s.seqno = Own(p)
      BY <3>1
    <3> HIDE DEF p
    <3>4. peer.rcv = p
      BY <1>3, <1>6, <3>2, <3>3, OwnPositions
    <3>5. q = n /\ n = app.acked /\ s.data = Bytes(n, app.flight) /\ peer.rcv = 1 + n
      BY <1>3, <1>5, <1>6, <3>1, <3>4 DEF p
    <3>6. /\ Len(s.data) = app.flight
          /\ peer'.got = Bytes(0, n + app.flight)
      <4>1. /\ Len(Bytes(n, app.flight)) = app.flight
            /\ Bytes(0, n) \o Bytes(n, app.flight) = Bytes(0, n + app.flight)
        BY <1>3, <1>6, BytesJoin
      <4>2. peer.got = Bytes(0, n) /\ peer'.got = peer.got \o s.data
        BY <1>4, <1>5
      <4> QED BY ONLY <3>5, <4>1, <4>2
    <3>7. peer'.rcv = 1 + (n + app.flight) /\ peer'.fin = FALSE
      <4>1. peer'.fin = FALSE
        BY <1>4, <3>1
      <4>2. peer'.rcv = peer.rcv + Len(s.data) + 0
        BY <1>4, <3>1
      <4> QED BY <1>3, <1>6, <3>5, <3>6, <4>1, <4>2
    <3>8. n + app.flight \in 0 .. MaxOut
      BY <1>3, <3>5
    <3> QED BY <1>2, <3>5, <3>6, <3>7, <3>8 DEF Received
  <2> QED BY <1>3, <2>1, <2>2, <2>3 DEF OfStream
<1>8. Ended(conn, app, hasty)'
  <2>1. Ended(conn, app, hasty) /\ peer.fin = FALSE
    BY <1>5 DEF OutInv, Now, Fits
  <2> QED BY <1>2, <2>1 DEF Ended
<1>9. Place(conn, app)' /\ \A t \in sent' : OfStream(conn, app, t)'
  BY <1>2 DEF OutInv, Now, Fits, Place, OfStream, Own
<1>10. Now'
  BY <1>2, <1>7, <1>8, <1>9 DEF OutInv, Now, Fits, Place, OfStream, Own
<1>11. peer.role # "none"
  BY DEF OutInv
<1> QED BY <1>4, <1>10, <1>11 DEF OutInv

LEMMA InitOut == Init => OutInv
<1> SUFFICES ASSUME Init PROVE OutInv
  OBVIOUS
<1>1. MaxOut \in Nat /\ <<>> = Bytes(0, 0)
  BY Empty, SequenceAssumption
<1>2. Received(conn, app)
  BY <1>1 DEF Init, Received
<1>3. Place(conn, app) /\ Ended(conn, app, hasty)
  BY <1>1 DEF Init, Place, Ended, Leaving, Left
<1> QED BY <1>2, <1>3 DEF Init, OutInv, Now, Fits

(* What was sent, what the peer has and what the application was told fit  *)
(* each other in every state (uip.c:1486-1560, 1760-1905), whatever the    *)
(* network loses, repeats and reorders.                                    *)
THEOREM SpecOutInv == Spec => []OutInv
<1>1. Inv /\ OutInv /\ [Next]_vars => OutInv'
  <2> SUFFICES ASSUME Inv, OutInv, [Next]_vars PROVE OutInv'
    OBVIOUS
  <2>1. CASE UNCHANGED vars
    BY <2>1 DEF vars, OutInv, Now, Fits, Place, Received, Ended, OfStream, Own
  <2>2. CASE Next
    BY <2>2, FoundListenKeeps, ConnectKeeps, ArrivesKeeps, ResetKeeps, RetransmitsKeeps,
       PollsKeeps, WaitExpiresKeeps, PeerGetsKeeps DEF Next
  <2> QED BY <2>1, <2>2
<1> QED BY <1>1, InitOut, SpecInv, PTL DEF Spec

(* The peer gets the application's bytes in order, each once; what the     *)
(* application was told is acknowledged has arrived; and a FIN that is     *)
(* acknowledged was sent after everything, unless the application closed   *)
(* with bytes under way.                                                   *)
THEOREM SpecStreamOut == Spec => []StreamOut
<1>1. Inv /\ OutInv => StreamOut
  <2> SUFFICES ASSUME Inv, OutInv PROVE StreamOut
    OBVIOUS
  <2>1. app.acked \in Nat /\ app.flight \in Nat /\ MaxOut \in Nat
    BY SequenceAssumption DEF Inv, Good, AppType
  <2>2. PICK n \in 0 .. MaxOut :
          /\ peer.got = Bytes(0, n)
          /\ \/ peer.rcv = 0 /\ n = 0 /\ app.acked = 0 /\ app.flight = 0
             \/ n \in {app.acked, app.acked + app.flight}
          /\ peer.fin = TRUE => n = app.acked
    BY <2>1 DEF OutInv, Now, Fits, Received
  <2>3. n \in Nat /\ Len(peer.got) = n
    BY <2>1, <2>2, BytesJoin
  <2>4. conn.state \in {"FIN_WAIT_2", "TIME_WAIT"} /\ ~hasty => peer.fin
    BY DEF OutInv, Now, Fits, Ended, Left
  <2>5. peer.fin => n = app.acked
    BY <2>2
  <2> QED BY <2>1, <2>2, <2>3, <2>4, <2>5 DEF StreamOut
<1> QED BY <1>1, SpecInv, SpecOutInv, PTL

=============================================================================
