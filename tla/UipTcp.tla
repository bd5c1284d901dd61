-------------------------------- MODULE UipTcp --------------------------------
(***************************************************************************)
(* One connection of uip_process (uip/uip/uip.c) between an application    *)
(* and a peer, over a network that loses, repeats, delays and reorders.    *)
(* One action per call of uip_process: a segment that arrives, a tick of   *)
(* the periodic timer; and uip_connect.                                    *)
(*                                                                         *)
(* The application is any one that keeps to uIP's manual (uip.h): it hands *)
(* over new bytes when nothing of its own is under way, the same bytes     *)
(* again when asked, stops the peer when it was given data, and may        *)
(* restart, close or abort in every call.                                  *)
(*                                                                         *)
(* Any segment the peer has had reason to send may arrive at any later     *)
(* time, any number of times, or never: SegmentsOfPeer needs no queue.     *)
(* What uIP sends stays in sent for ever, for the same reason; pure        *)
(* acknowledgements and resets are not kept.                               *)
(*                                                                         *)
(* The bytes of each side are numbered 1, 2, ...; position 0 of a stream   *)
(* is its SYN, the FIN follows the last byte, and sequence numbers count   *)
(* positions modulo W.  Windows, urgent data, round trip times and the     *)
(* count of the retransmission timer are left out.                         *)
(***************************************************************************)
EXTENDS Naturals, Sequences

CONSTANTS
  W,                             \* 2^32: the number of sequence numbers
  Iss, PeerIss,                  \* initial sequence numbers of uIP and of the peer
  MSS,
  UIP_MAXRTX, UIP_MAXSYNRTX,
  MaxIn, MaxOut                  \* bounds: bytes of the peer and of the application

ASSUME SequenceAssumption ==
  /\ W \in Nat \ {0} /\ Iss \in 0 .. W - 1 /\ PeerIss \in 0 .. W - 1
  /\ MSS \in Nat \ {0} /\ MaxIn \in Nat /\ MaxOut \in Nat
  /\ MaxIn + 2 < W /\ MaxOut + 2 < W
  /\ UIP_MAXRTX \in Nat /\ UIP_MAXSYNRTX \in Nat

VARIABLES
  conn,      \* the fields of uip_conn
  app,       \* what the application knows
  peer,      \* who opened, the next position it waits for, the bytes it has, our FIN
  sent,      \* the segments of uIP that carry a SYN, data or a FIN
  hasty      \* history: the application closed with bytes under way

vars == <<conn, app, peer, sent, hasty>>

States == {"CLOSED", "SYN_RCVD", "SYN_SENT", "ESTABLISHED", "FIN_WAIT_1",
           "FIN_WAIT_2", "CLOSING", "TIME_WAIT", "LAST_ACK"}
Add(n, k) == IF n + k < W THEN n + k ELSE n + k - W
Least(a, b) == IF a < b THEN a ELSE b
Bytes(from, n) == [i \in 1 .. n |-> from + i]

Init ==
  /\ conn = [state |-> "CLOSED", stopped |-> FALSE, snd_nxt |-> 0, rcv_nxt |-> 0,
             len |-> 0, nrtx |-> 0]
  /\ app = [acked |-> 0, flight |-> 0, heard |-> <<>>]
  /\ peer = [role |-> "none", rcv |-> 0, got |-> <<>>, fin |-> FALSE]
  /\ sent = {}
  /\ hasty = FALSE

-------------------------------------------------------------------------------
(* A call of uip_process goes through records x: the connection k, what    *)
(* the application knows a, uip_flags, uip_slen, and the segment out.      *)

Call(flags) == [k |-> conn, a |-> app, flags |-> flags, slen |-> 0, out |-> {}]

tcp_send(x, ctl, data) ==
  [x EXCEPT !.out = {[ctl |-> ctl, seqno |-> x.k.snd_nxt, data |-> data]}]

tcp_send_finack(x) == tcp_send(x, {"FIN", "ACK"}, <<>>)

(* What a call tells the application.                                      *)
Learns(x, data) ==
  LET acked == "ACKDATA" \in x.flags
  IN  [acked |-> IF acked THEN x.a.acked + x.a.flight ELSE x.a.acked,
       flight |-> IF acked THEN 0 ELSE x.a.flight,
       heard |-> x.a.heard \o data]

Tell(x, data) == [x EXCEPT !.a = Learns(x, data)]

MaySend(x) ==
  CASE "REXMIT" \in x.flags -> {x.a.flight}
    [] "REXMIT" \notin x.flags /\ x.a.flight > 0 -> {0, x.a.flight}
    [] OTHER -> 0 .. MaxOut - x.a.acked

(* Every way the application may answer a call: uip_send of n bytes with   *)
(* uip_stop or uip_restart, uip_close, uip_abort.                          *)
Gives(x, n, stop) ==
  [x EXCEPT !.slen = n, !.a.flight = IF n > 0 THEN Least(n, MSS) ELSE @,
            !.k.stopped = stop,
            !.flags = IF x.k.stopped /\ ~stop THEN @ \union {"NEWDATA"} ELSE @]

MayStop(x) == {stop \in BOOLEAN : stop => x.k.stopped \/ "NEWDATA" \in x.flags}

Answers(x) ==
  {Gives(x, n, stop) : n \in MaySend(x), stop \in MayStop(x)}
  \union {[x EXCEPT !.flags = {wish}] : wish \in {"CLOSE", "ABORT"}}

UIP_APPCALL(x, data) == Answers(Tell(x, data))

(* Data goes out again only when the application provided it.              *)
apprexmit(x) ==
  IF x.slen > 0 /\ x.k.len > 0 THEN tcp_send(x, {"ACK"}, Bytes(x.a.acked, x.k.len)) ELSE x

appsend(x) ==
  LET k == [x.k EXCEPT !.nrtx = 0, !.len = IF x.slen > 0 /\ @ = 0 THEN Least(x.slen, MSS) ELSE @]
  IN  IF "ABORT" \in x.flags
      THEN [x EXCEPT !.k.state = "CLOSED", !.k.stopped = FALSE]
      ELSE IF "CLOSE" \in x.flags
      THEN tcp_send_finack([x EXCEPT !.k.state = "FIN_WAIT_1", !.k.stopped = FALSE,
                                     !.k.len = 1, !.k.nrtx = 0])
      ELSE apprexmit([x EXCEPT !.k = k])

Done(x) ==
  /\ conn' = x.k
  /\ app' = x.a
  /\ sent' = sent \union x.out
  /\ hasty' = (hasty \/ (conn.state # "FIN_WAIT_1" /\ x.k.state = "FIN_WAIT_1" /\ x.a.flight > 0))

-------------------------------------------------------------------------------
(* A segment s for a connection that is not closed ("found").              *)

(* Mutant: the sequence number is looked at for data only.                 *)
FaultyUnexpected(k, s) ==
  /\ ~(k.state = "SYN_SENT" /\ s.ctl = {"SYN", "ACK"})
  /\ s.data # <<>>
  /\ s.seqno # k.rcv_nxt

Unexpected(k, s) ==
  /\ ~(k.state = "SYN_SENT" /\ s.ctl = {"SYN", "ACK"})
  /\ s.data # <<>> \/ s.ctl \intersect {"SYN", "FIN"} # {}
  /\ s.seqno # k.rcv_nxt

(* Mutant: any acknowledgement counts.                                     *)
FaultyAcknowledged(x, s) ==
  IF "ACK" \in s.ctl /\ x.k.len > 0
  THEN [x EXCEPT !.k.snd_nxt = Add(@, x.k.len), !.k.len = 0, !.flags = {"ACKDATA"}]
  ELSE x

(* An acknowledgement counts only when it is of all that is outstanding.   *)
Acknowledged(x, s) ==
  IF "ACK" \in s.ctl /\ x.k.len > 0 /\ s.ackno = Add(x.k.snd_nxt, x.k.len)
  THEN [x EXCEPT !.k.snd_nxt = s.ackno, !.k.len = 0, !.flags = {"ACKDATA"}]
  ELSE x

Receive(x, n) == [x EXCEPT !.k.rcv_nxt = Add(@, n)]

SynRcvd(x, s) ==
  LET new == IF s.data # <<>> THEN {"NEWDATA"} ELSE {}
      y == [Receive(x, Len(s.data)) EXCEPT !.k.state = "ESTABLISHED",
                                           !.flags = {"CONNECTED"} \union new]
  IN  IF "ACKDATA" \in x.flags THEN {appsend(z) : z \in UIP_APPCALL(y, s.data)} ELSE {x}

(* Anything but the answer to our SYN refuses the connection.              *)
SynSent(x, s) ==
  LET y == [x EXCEPT !.k.state = "ESTABLISHED", !.k.rcv_nxt = Add(s.seqno, 1),
                     !.flags = {"CONNECTED", "NEWDATA"}]
  IN  IF "ACKDATA" \in x.flags /\ s.ctl = {"SYN", "ACK"}
      THEN {appsend(z) : z \in UIP_APPCALL(y, <<>>)}
      ELSE {[Tell([x EXCEPT !.flags = {"ABORT"}], <<>>) EXCEPT !.k.state = "CLOSED"]}

(* Mutant: a FIN is taken with our data under way.                         *)
FaultyPeerFin(x, s) ==
  LET new == IF s.data # <<>> THEN {"NEWDATA"} ELSE {}
      y == [Receive(x, 1 + Len(s.data)) EXCEPT !.flags = @ \union {"CLOSE"} \union new]
  IN  tcp_send_finack([Tell(y, s.data) EXCEPT
        !.k.state = "LAST_ACK", !.k.stopped = FALSE, !.k.len = 1, !.k.nrtx = 0])

(* A FIN waits for our data to be acknowledged; a stopped connection takes *)
(* neither data nor FIN.                                                   *)
PeerFin(x, s) ==
  LET new == IF s.data # <<>> THEN {"NEWDATA"} ELSE {}
      y == [Receive(x, 1 + Len(s.data)) EXCEPT !.flags = @ \union {"CLOSE"} \union new]
  IN  IF x.k.len > 0
      THEN x
      ELSE tcp_send_finack([Tell(y, s.data) EXCEPT
             !.k.state = "LAST_ACK", !.k.stopped = FALSE, !.k.len = 1, !.k.nrtx = 0])

Established(x, s) ==
  LET data == IF x.k.stopped THEN <<>> ELSE s.data
      y == [Receive(x, Len(data)) EXCEPT !.flags = @ \union IF data # <<>> THEN {"NEWDATA"} ELSE {}]
  IN  CASE "FIN" \in s.ctl /\ ~x.k.stopped -> {PeerFin(x, s)}
        [] ("FIN" \notin s.ctl \/ x.k.stopped) /\ y.flags # {} ->
             {appsend(z) : z \in UIP_APPCALL(y, data)}
        [] OTHER -> {x}

(* Our FIN is out: data of the peer is acknowledged and thrown away.       *)
FinWait(x, s) ==
  LET acked == x.k.state = "FIN_WAIT_2" \/ "ACKDATA" \in x.flags
      y == Receive(x, Len(s.data))
  IN  IF "FIN" \in s.ctl
      THEN Tell([Receive(y, 1) EXCEPT !.k.state = IF acked THEN "TIME_WAIT" ELSE "CLOSING",
                                      !.flags = {"CLOSE"}], <<>>)
      ELSE [y EXCEPT !.k.state = IF acked THEN "FIN_WAIT_2" ELSE @]

LastAck(x) ==
  IF "ACKDATA" \in x.flags
  THEN Tell([x EXCEPT !.k.state = "CLOSED", !.flags = {"CLOSE"}], <<>>)
  ELSE x

(* Mutant: both FINs crossed and ours is acknowledged, but nothing follows. *)
FaultyClosing(x) == x

Closing(x) == [x EXCEPT !.k.state = IF "ACKDATA" \in x.flags THEN "TIME_WAIT" ELSE @]

found(s) ==
  LET x == Acknowledged(Call({}), s)
  IN  CASE Unexpected(conn, s) -> {Call({})}
        [] ~Unexpected(conn, s) /\ conn.state = "SYN_RCVD" -> SynRcvd(x, s)
        [] ~Unexpected(conn, s) /\ conn.state = "SYN_SENT" -> SynSent(x, s)
        [] ~Unexpected(conn, s) /\ conn.state = "ESTABLISHED" -> Established(x, s)
        [] ~Unexpected(conn, s) /\ conn.state \in {"FIN_WAIT_1", "FIN_WAIT_2"} -> {FinWait(x, s)}
        [] ~Unexpected(conn, s) /\ conn.state = "LAST_ACK" -> {LastAck(x)}
        [] ~Unexpected(conn, s) /\ conn.state = "CLOSING" -> {Closing(x)}
        [] OTHER -> {x}

-------------------------------------------------------------------------------
(* The peer: it opens or answers, has MaxIn bytes to say and may close     *)
(* after them.  It repeats itself, and its acknowledgements are cumulative *)
(* and may be old.                                                         *)

Seqno(p) == Add(PeerIss, p)
Acks == {Add(Iss, p) : p \in 1 .. peer.rcv}
Opens == {[ctl |-> {"SYN"}, seqno |-> Seqno(0), ackno |-> 0, data |-> <<>>]}
Accepts == {[ctl |-> {"SYN", "ACK"}, seqno |-> Seqno(0), ackno |-> a, data |-> <<>>] : a \in Acks}
Stretches ==
  {r \in [from : 0 .. MaxIn, n : 0 .. MSS, fin : BOOLEAN] :
     r.from + r.n <= MaxIn /\ (r.fin => r.from + r.n = MaxIn)}
Talks ==
  {[ctl |-> IF r.fin THEN {"ACK", "FIN"} ELSE {"ACK"}, seqno |-> Seqno(r.from + 1),
    ackno |-> a, data |-> Bytes(r.from, r.n)] : r \in Stretches, a \in Acks}

SegmentsOfPeer ==
  (CASE peer.role = "opens" -> Opens [] peer.role = "accepts" -> Accepts [] OTHER -> {})
  \union IF conn.state = "SYN_SENT" THEN {} ELSE Talks

(* A segment of uIP arrives at the peer, which takes what comes in order.  *)
PeerGets ==
  \E s \in sent :
    /\ s.seqno = Add(Iss, peer.rcv) /\ ~peer.fin
    /\ peer' = [peer EXCEPT
         !.rcv = @ + Len(s.data) + IF s.data = <<>> THEN 1 ELSE 0,
         !.got = @ \o s.data,
         !.fin = "FIN" \in s.ctl]
    /\ UNCHANGED <<conn, app, sent, hasty>>

-------------------------------------------------------------------------------
(* A SYN for a port that is listened to.  Bound: one connection.           *)
found_listen ==
  LET k == [conn EXCEPT !.state = "SYN_RCVD", !.snd_nxt = Iss, !.len = 1, !.nrtx = 0,
                        !.rcv_nxt = Add(Seqno(0), 1)]
  IN  /\ conn.state = "CLOSED" /\ peer.role = "none"
      /\ Done(tcp_send([Call({}) EXCEPT !.k = k], {"SYN", "ACK"}, <<>>))
      /\ peer' = [peer EXCEPT !.role = "opens"]

(* The SYN goes out with the first tick.                                   *)
uip_connect ==
  /\ conn.state = "CLOSED" /\ peer.role = "none"
  /\ conn' = [conn EXCEPT !.state = "SYN_SENT", !.snd_nxt = Iss, !.len = 1, !.nrtx = 0]
  /\ peer' = [peer EXCEPT !.role = "accepts"]
  /\ UNCHANGED <<app, sent, hasty>>

Arrives ==
  /\ conn.state # "CLOSED"
  /\ \E s \in SegmentsOfPeer : \E x \in found(s) : Done(x)
  /\ UNCHANGED peer

(* Any reset ends the connection.                                          *)
Reset ==
  /\ conn.state # "CLOSED" /\ (peer.role = "opens" \/ peer.rcv > 0)
  /\ Done(Tell([Call({"ABORT"}) EXCEPT !.k.state = "CLOSED", !.k.stopped = FALSE], <<>>))
  /\ UNCHANGED peer

(* The periodic timer with bytes outstanding: the end, or once more.       *)
TooOften ==
  \/ conn.nrtx = UIP_MAXRTX
  \/ conn.state \in {"SYN_SENT", "SYN_RCVD"} /\ conn.nrtx = UIP_MAXSYNRTX

Again(x) ==
  CASE x.k.state = "SYN_RCVD" -> {tcp_send(x, {"SYN", "ACK"}, <<>>)}
    [] x.k.state = "SYN_SENT" -> {tcp_send(x, {"SYN"}, <<>>)}
    [] x.k.state = "ESTABLISHED" -> {apprexmit(y) : y \in UIP_APPCALL(x, <<>>)}
    [] OTHER -> {tcp_send_finack(x)}

Retransmits ==
  /\ conn.state \notin {"CLOSED", "TIME_WAIT", "FIN_WAIT_2"} /\ conn.len > 0
  /\ IF TooOften
     THEN Done(Tell([Call({"TIMEDOUT"}) EXCEPT !.k.state = "CLOSED", !.k.stopped = FALSE], <<>>))
     ELSE \E x \in Again([Call({"REXMIT"}) EXCEPT !.k.nrtx = @ + 1]) : Done(x)
  /\ UNCHANGED peer

Polls ==
  /\ conn.state = "ESTABLISHED" /\ conn.len = 0
  /\ \E x \in UIP_APPCALL(Call({"POLL"}), <<>>) : Done(appsend(x))
  /\ UNCHANGED peer

WaitExpires ==
  /\ conn.state \in {"TIME_WAIT", "FIN_WAIT_2"}
  /\ conn' = [conn EXCEPT !.state = "CLOSED"]
  /\ UNCHANGED <<app, peer, sent, hasty>>

Next ==
  \/ found_listen \/ uip_connect \/ Arrives \/ Reset
  \/ Retransmits \/ Polls \/ WaitExpires \/ PeerGets

Spec == Init /\ [][Next]_vars
(* uip_periodic goes through the connections for ever (main.c).            *)
FairSpec == Spec /\ WF_vars(Retransmits) /\ WF_vars(WaitExpires)

-------------------------------------------------------------------------------
(* The application hears the peer's bytes in order, each once, whatever    *)
(* the network repeats or reorders, stopped or not.  As long as the        *)
(* connection is established uIP acknowledges exactly what was heard, and  *)
(* nothing it dropped; and it answers a FIN that finds it so only after    *)
(* the last byte.  Once the application has closed (FIN_WAIT), uIP         *)
(* acknowledges what comes and throws it away; nothing is said of that.    *)
StreamIn ==
  /\ app.heard = Bytes(0, Len(app.heard))
  /\ conn.state = "ESTABLISHED" => conn.rcv_nxt = Seqno(1 + Len(app.heard))
  /\ conn.state = "LAST_ACK" => conn.rcv_nxt = Seqno(2 + MaxIn) /\ Len(app.heard) = MaxIn

(* The peer gets the application's bytes in order; what the application    *)
(* was told is acknowledged has arrived, and nothing arrives that is not   *)
(* acknowledged or under way.  When the FIN of a connection closed with    *)
(* nothing under way is acknowledged, the peer has everything and the FIN. *)
StreamOut ==
  /\ peer.got = Bytes(0, Len(peer.got))
  /\ app.acked <= Len(peer.got) /\ Len(peer.got) <= app.acked + app.flight
  /\ conn.state \in {"FIN_WAIT_2", "TIME_WAIT"} /\ ~hasty =>
       peer.fin /\ Len(peer.got) = app.acked

(* The events of uip_process keep the order SocketApp, TelnetSession and   *)
(* WebRelay are written against.                                           *)
PhaseOf(state) ==
  CASE state = "CLOSED" -> "closed"
    [] state \in {"SYN_RCVD", "SYN_SENT"} -> "opening"
    [] state = "ESTABLISHED" -> "open"
    [] state = "LAST_ACK" -> "left"
    [] state \in {"FIN_WAIT_1", "FIN_WAIT_2", "CLOSING", "TIME_WAIT"} -> "closing"
phase == PhaseOf(conn.state)
Events == INSTANCE UipEvents WITH stopped <- conn.stopped, flight <- app.flight,
                                  acked <- app.acked, heard <- app.heard
Contract == Events!Spec

(* Whatever is lost: data, a SYN or a FIN under way is acknowledged or     *)
(* given up, and a connection that is opening or closing gets there; the   *)
(* application is never left waiting for an answer to uip_connect, to      *)
(* uip_send or to uip_close.                                               *)
Settles ==
  /\ (conn.len > 0) ~> (conn.len = 0 \/ conn.state = "CLOSED")
  /\ (phase # "open") ~> (phase \in {"open", "closed"})
=============================================================================
