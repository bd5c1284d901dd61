---------------------------- MODULE TelnetSession ----------------------------
(***************************************************************************)
(* The console on telnet, uip/apps/telnetd/telnetd.c: a ring for output    *)
(* with a second tail for what is sent and not yet acknowledged, a ring    *)
(* for input, a login, and room for one session.  The console writes with  *)
(* telnetd_addsendfifo, which runs the network until the ring is empty     *)
(* once it is rather full, and reads with telnetd_getrecvfifo; uIP calls   *)
(* telnetd_appcall with one event at a time.  uIP and the peer are         *)
(* external, as in SocketApp.                                              *)
(*                                                                         *)
(* Bytes are numbered as they are offered to a ring (seen).  first, got,   *)
(* options and intruded are history variables.  TELNETFIFOFLOW is not      *)
(* defined and STATE_CLOSE never set; both are left out.                   *)
(***************************************************************************)
EXTENDS Integers, Sequences

CONSTANTS
  Conns,                 \* connections to the telnet port
  FIFOSIZE, FIFOACTIONTHRESHOLD,
  MSS,                   \* uip_mss()
  UIP_MAXRTX,            \* retransmissions before uIP gives up
  PasswordLength,        \* of auth_password
  Text,                  \* lengths of what telnetd itself sends, see below
  Segments,              \* what peers send, sequences of Char
  MaxOut, MaxIn,         \* bounds: bytes the console writes, segments peers send
  MaxOpens               \* bound: connections made

ASSUME RingAssumption ==
  /\ FIFOSIZE \in Nat /\ FIFOACTIONTHRESHOLD \in Nat
  /\ FIFOACTIONTHRESHOLD + 2 < FIFOSIZE
ASSUME StackAssumption == MSS \in Nat \ {0} /\ UIP_MAXRTX \in Nat
ASSUME LoginAssumption ==
  PasswordLength \in Nat /\ Text \in [{"option", "prompt", "accepted"} -> Nat]
ASSUME BoundAssumption == MaxOut \in Nat /\ MaxIn \in Nat /\ MaxOpens \in Nat

(* The bytes of a peer by what newdata makes of them: good is the next     *)
(* character of the password, verb one of WILL, WONT, DO and DONT.         *)
Char == {"iac", "verb", "return", "good", "bad"}
ASSUME PeerAssumption == Segments \subseteq Seq(Char)

VARIABLES
  connected, authenticated,   \* -1 accepted, -2 refused, else characters right
  sendfifo, recvfifo,
  conn,                       \* per connection: uIP's state and telnetd_state
  console,                    \* "waiting" inside telnetd_addsendfifo
  written, typed, opens,      \* what the bounds count
  first, got, options, intruded

statics == <<connected, authenticated, sendfifo, recvfifo>>
bounds == <<written, typed, opens>>
vars == <<connected, authenticated, sendfifo, recvfifo, conn, console,
          written, typed, opens, first, got, options, intruded>>

-------------------------------------------------------------------------------
(* The rings.                                                              *)

Ring == [buf : [0 .. FIFOSIZE - 1 -> Nat], fifohead : 0 .. FIFOSIZE - 1,
         fifotail : 0 .. FIFOSIZE - 1, fifoaheadtail : 0 .. FIFOSIZE - 1,
         seen : Nat]

inittelnetfifo(f) == [f EXCEPT !.fifohead = 0, !.fifotail = 0, !.fifoaheadtail = 0]

puttelnetfifo(f) ==
  LET newpos == (f.fifohead + 1) % FIFOSIZE
      g == [f EXCEPT !.seen = @ + 1]
  IN  IF newpos \in {f.fifotail, f.fifoaheadtail} THEN g
      ELSE [g EXCEPT !.buf[f.fifohead] = g.seen, !.fifohead = newpos]

puttelnetfifostring(f, length) ==
  LET after[i \in 0 .. length] == IF i = 0 THEN f ELSE puttelnetfifo(after[i - 1])
  IN  after[length]

fifoused(f) == (f.fifohead - f.fifotail) % FIFOSIZE
fifoaheadused(f) == (f.fifohead - f.fifoaheadtail) % FIFOSIZE

(* n calls of gettelnetfifoahead: it yields -1 once the ring is read up.   *)
GotAhead(f, n) ==
  [i \in 1 .. n |-> IF i <= fifoaheadused(f)
                      THEN f.buf[(f.fifoaheadtail + i - 1) % FIFOSIZE] ELSE -1]
AfterAhead(f, n) ==
  [f EXCEPT !.fifoaheadtail =
     (@ + IF n < fifoaheadused(f) THEN n ELSE fifoaheadused(f)) % FIFOSIZE]

-------------------------------------------------------------------------------
(* telnetd_appcall.  w is the statics and the connection's state; w.flags  *)
(* is uip_flags, which uip_close and uip_abort replace.  The definitions   *)
(* whose names begin with Faulty are bugs, each beside what it replaces.   *)

(* A segment not yet acknowledged is taken from the ring once more.        *)
StepBack(w) == [w.sendfifo EXCEPT !.fifoaheadtail = (@ - w.k.waiting_for) % FIFOSIZE]

senddata(w) ==
  LET again == w.k.waiting_for # 0
      f == IF again THEN StepBack(w) ELSE w.sendfifo
      used == IF again THEN w.k.waiting_for ELSE fifoaheadused(f)
      n == IF used > MSS THEN MSS ELSE used
  IN  [w EXCEPT !.sendfifo = AfterAhead(f, n),
                !.k.waiting_for = n,
                !.k.outstanding = IF n > 0 THEN GotAhead(f, n) ELSE @]

FaultyAcked(w) ==
  [w EXCEPT !.sendfifo.fifotail = (@ + w.k.waiting_for) % FIFOSIZE]

acked(w) ==
  [w EXCEPT !.sendfifo.fifotail = (@ + w.k.waiting_for) % FIFOSIZE,
            !.k.waiting_for = 0]

Say(w, length) ==
  [w EXCEPT !.sendfifo = puttelnetfifostring(@, length), !.options = @ + length]

sendopt(w) == Say(w, Text["option"])

(* A character of the login, or a key for the console.                     *)
Login(w, c) ==
  CASE c = "return" /\ w.authenticated = PasswordLength ->
         [Say(w, Text["accepted"]) EXCEPT !.authenticated = -1]
    [] c = "return" /\ w.authenticated # PasswordLength ->
         [w EXCEPT !.flags = {"close"}]
    [] c # "return" /\ w.authenticated >= 0 ->
         [w EXCEPT !.authenticated =
            IF c = "good" /\ @ < PasswordLength THEN @ + 1 ELSE -2]
    [] OTHER -> w

Key(w) == [w EXCEPT !.recvfifo = puttelnetfifo(@)]

(* One turn of the loop of newdata.                                        *)
NewByte(w, c) ==
  CASE w.k.state = "normal" /\ c = "iac" -> [w EXCEPT !.k.state = "iac"]
    [] w.k.state = "normal" /\ c # "iac" ->
         IF w.authenticated # -1 THEN Login(w, c) ELSE Key(w)
    [] w.k.state = "iac" /\ c = "verb" -> [w EXCEPT !.k.state = "verb"]
    [] w.k.state = "iac" /\ c # "verb" ->
         [IF c = "iac" /\ w.authenticated = -1 THEN Key(w) ELSE w
            EXCEPT !.k.state = "normal"]
    [] w.k.state = "verb" -> [sendopt(w) EXCEPT !.k.state = "normal"]

newdata(w, bytes) ==
  LET after[i \in 0 .. Len(bytes)] == IF i = 0 THEN w ELSE NewByte(after[i - 1], bytes[i])
  IN  after[Len(bytes)]

(* uip_connected: every connection resets the rings and the login, also    *)
(* one that is sent away because a session is open.                        *)
Opened(w) ==
  LET refused == w.connected
      t == [w EXCEPT !.flags = IF refused THEN {"abort"} ELSE @,
                     !.authenticated = IF PasswordLength > 0 THEN 0 ELSE -1,
                     !.recvfifo = inittelnetfifo(@),
                     !.sendfifo = inittelnetfifo(@),
                     !.k.waiting_for = 0,
                     !.k.didconnect = ~refused,
                     !.connected = TRUE,
                     !.k.state = "normal"]
      greeted == sendopt(sendopt(t))
  IN  IF PasswordLength > 0 THEN Say(greeted, Text["prompt"]) ELSE greeted

telnetd_appcall(w0, bytes) ==
  LET w1 == IF "connected" \in w0.flags THEN Opened(w0) ELSE w0
      w2 == IF w1.flags \cap {"close", "abort", "timedout"} # {} /\ w1.k.didconnect
              THEN [w1 EXCEPT !.connected = FALSE] ELSE w1
      w3 == IF "acked" \in w2.flags THEN acked(w2) ELSE w2
      w4 == IF "newdata" \in w3.flags THEN newdata(w3, bytes) ELSE w3
  IN  IF w4.flags \cap {"rexmit", "newdata", "acked", "connected", "poll"} # {}
        THEN senddata(w4) ELSE w4

(* What uIP does after the call: a reset, a FIN in place of data, or data, *)
(* but nothing of ours to a connection that has ended.                     *)
Uip(k, flags) ==
  CASE k.tcp # "established" -> [k EXCEPT !.outstanding = <<>>]
    [] k.tcp = "established" /\ "abort" \in flags ->
         [k EXCEPT !.tcp = "closed", !.outstanding = <<>>]
    [] k.tcp = "established" /\ flags = {"close"} ->
         [k EXCEPT !.tcp = "closing", !.outstanding = <<>>]
    [] OTHER -> k

-------------------------------------------------------------------------------
(* Events.  Event(c, k, flags, bytes) is one call of telnetd_appcall, k    *)
(* being the connection as uIP left it before the call.                    *)

Event(c, k, flags, bytes) ==
  \E w \in {telnetd_appcall(
              [connected |-> connected, authenticated |-> authenticated,
               sendfifo |-> sendfifo, recvfifo |-> recvfifo, k |-> k,
               flags |-> flags,
               options |-> IF "connected" \in flags THEN 0 ELSE options], bytes)} :
    LET after == Uip(w.k, w.flags)
    IN  /\ connected' = w.connected
        /\ authenticated' = w.authenticated
        /\ sendfifo' = w.sendfifo
        /\ recvfifo' = w.recvfifo
        /\ conn' = [conn EXCEPT ![c] =
                      IF k.outstanding # <<>> THEN after
                      ELSE [after EXCEPT !.arrived = FALSE]]
        /\ options' = w.options
        /\ typed' = IF bytes = <<>> THEN typed ELSE typed + 1

Data(bytes) == IF bytes = <<>> THEN {} ELSE {"newdata"}

(* A connection that is open and was not refused.                          *)
Serves(c) == conn[c].tcp = "established" /\ conn[c].didconnect

(* A call of netmainloop takes one packet, or serves the timers; a waiting *)
(* console looks at its condition after every call.                        *)
Over == ~connected \/ fifoused(sendfifo) = 0
NetRuns == console = "waiting" => ~Over

(* A peer connects; data may come with the last segment of the handshake.  *)
PeerConnects(c) ==
  /\ NetRuns
  /\ conn[c].tcp = "closed"
  /\ opens < MaxOpens
  /\ \E bytes \in Segments \union {<<>>} :
       /\ typed < MaxIn \/ bytes = <<>>
       /\ Event(c, [conn[c] EXCEPT !.tcp = "established", !.nrtx = 0,
                                   !.outstanding = <<>>, !.arrived = FALSE],
                {"connected"} \union Data(bytes), bytes)
  /\ opens' = opens + 1
  /\ intruded' = (connected \/ \E d \in Conns \ {c} : Serves(d))
  /\ got' = [got EXCEPT ![c] = <<>>]
  /\ first' = IF connected THEN first ELSE sendfifo.seen
  /\ UNCHANGED <<console, written>>

(* A segment with an acknowledgement, data, a FIN, or several of them; uIP *)
(* ignores a FIN while data of ours is unacknowledged.                     *)
Segment(c) ==
  \E ack, fin \in BOOLEAN, bytes \in Segments \union {<<>>} :
    LET k == conn[c]
    IN  /\ NetRuns
        /\ k.tcp = "established"
        /\ ack \/ fin \/ bytes # <<>>
        /\ ack => k.outstanding # <<>> /\ k.arrived
        /\ fin => ack \/ k.outstanding = <<>>
        /\ typed < MaxIn \/ bytes = <<>>
        /\ Event(c, [k EXCEPT !.tcp = IF fin THEN "lastack" ELSE @, !.nrtx = 0,
                              !.outstanding = IF ack THEN <<>> ELSE @,
                              !.arrived = @ /\ ~ack],
                 (IF ack THEN {"acked"} ELSE {}) \union
                 (IF fin THEN {"close"} ELSE {}) \union Data(bytes), bytes)
        /\ UNCHANGED <<console, written, opens, first, got, intruded>>

(* The segment under way reaches the peer; its acknowledgement may be lost.*)
PeerGets(c) ==
  /\ conn[c].outstanding # <<>>
  /\ ~conn[c].arrived
  /\ conn' = [conn EXCEPT ![c].arrived = TRUE]
  /\ got' = [got EXCEPT ![c] = @ \o conn[c].outstanding]
  /\ UNCHANGED <<statics, console, bounds, first, options, intruded>>

(* The connection ends in any state: a reset, our FIN given up, or, in     *)
(* LAST_ACK, the answer to our FIN.  The application has then heard of an  *)
(* end twice.                                                              *)
PeerEnds(c) ==
  /\ NetRuns
  /\ conn[c].tcp # "closed"
  /\ Event(c, [conn[c] EXCEPT !.tcp = "closed"], {"close"}, <<>>)
  /\ UNCHANGED <<console, written, opens, first, got, intruded>>

(* The peer's FIN after ours: uIP reports it and lets TIME_WAIT pass.      *)
PeerCloses(c) ==
  /\ NetRuns
  /\ conn[c].tcp = "closing"
  /\ Event(c, [conn[c] EXCEPT !.tcp = "timewait"], {"close"}, <<>>)
  /\ UNCHANGED <<console, written, opens, first, got, intruded>>

(* uip_periodic: poll, retransmit, or give up.                             *)
Timer(c) ==
  LET k == conn[c]
  IN  /\ k.tcp = "established"
      /\ IF k.outstanding = <<>> THEN Event(c, [k EXCEPT !.nrtx = 0], {"poll"}, <<>>)
         ELSE IF k.nrtx = UIP_MAXRTX
           THEN Event(c, [k EXCEPT !.tcp = "closed"], {"timedout"}, <<>>)
         ELSE Event(c, [k EXCEPT !.nrtx = @ + 1], {"rexmit"}, <<>>)
      /\ UNCHANGED <<console, written, opens, first, got, intruded>>

(* Our FIN is acknowledged and the peer's does not come, or TIME_WAIT is   *)
(* over: uIP frees the connection without a call.                          *)
WaitExpires(c) ==
  /\ conn[c].tcp \in {"closing", "timewait"}
  /\ conn' = [conn EXCEPT ![c].tcp = "closed"]
  /\ UNCHANGED <<statics, console, bounds, first, got, options, intruded>>

-------------------------------------------------------------------------------
(* The console.                                                            *)

Accepted == connected /\ authenticated = -1

(* A character, or a newline as two.                                       *)
telnetd_addsendfifo(n) ==
  /\ console = "free"
  /\ Accepted
  /\ written + n <= MaxOut
  /\ sendfifo' = puttelnetfifostring(sendfifo, n)
  /\ console' = IF fifoused(sendfifo') > FIFOACTIONTHRESHOLD THEN "waiting" ELSE "free"
  /\ written' = written + n
  /\ UNCHANGED <<connected, authenticated, recvfifo, conn, typed, opens,
                 first, got, options, intruded>>

FaultyWaitOver ==
  /\ console = "waiting"
  /\ fifoused(sendfifo) = 0
  /\ console' = "free"
  /\ UNCHANGED <<statics, conn, bounds, first, got, options, intruded>>

WaitOver ==
  /\ console = "waiting"
  /\ Over
  /\ console' = "free"
  /\ UNCHANGED <<statics, conn, bounds, first, got, options, intruded>>

FaultyRead(f) ==
  IF fifoused(f) = 0 THEN f ELSE [f EXCEPT !.fifotail = (@ + 1) % FIFOSIZE]

(* The ring has one reader: its second tail is moved out of the way.       *)
Read(f) ==
  IF fifoused(f) = 0 THEN [f EXCEPT !.fifoaheadtail = f.fifohead]
  ELSE [f EXCEPT !.fifoaheadtail = f.fifohead, !.fifotail = (@ + 1) % FIFOSIZE]

telnetd_getrecvfifo ==
  /\ console = "free"
  /\ Accepted
  /\ recvfifo' = Read(recvfifo)
  /\ UNCHANGED <<connected, authenticated, sendfifo, conn, console, bounds,
                 first, got, options, intruded>>

-------------------------------------------------------------------------------
Init ==
  /\ connected = FALSE
  /\ authenticated = 0
  /\ sendfifo = [buf |-> [i \in 0 .. FIFOSIZE - 1 |-> 0], fifohead |-> 0,
                 fifotail |-> 0, fifoaheadtail |-> 0, seen |-> 0]
  /\ recvfifo = sendfifo
  /\ conn = [c \in Conns |->
       [tcp |-> "closed", nrtx |-> 0, outstanding |-> <<>>, arrived |-> FALSE,
        state |-> "normal", didconnect |-> FALSE, waiting_for |-> 0]]
  /\ console = "free"
  /\ written = 0 /\ typed = 0 /\ opens = 0
  /\ first = 0
  /\ got = [c \in Conns |-> <<>>]
  /\ options = 0
  /\ intruded = FALSE

Network(c) ==
  \/ PeerConnects(c)
  \/ Segment(c)
  \/ PeerGets(c)
  \/ PeerEnds(c)
  \/ PeerCloses(c)
  \/ Timer(c)
  \/ WaitExpires(c)

Next ==
  \/ \E n \in 1 .. 2 : telnetd_addsendfifo(n)
  \/ WaitOver
  \/ telnetd_getrecvfifo
  \/ \E c \in Conns : Network(c)

(* The wait turns netmainloop, which serves the timer of each connection.  *)
Spec ==
  /\ Init /\ [][Next]_vars
  /\ WF_vars(WaitOver)
  /\ \A c \in Conns : WF_vars(Timer(c))

-------------------------------------------------------------------------------
Connections ==
  [tcp : {"closed", "established", "closing", "lastack", "timewait"}, nrtx : 0 .. UIP_MAXRTX,
   outstanding : Seq(Int), arrived : BOOLEAN,
   state : {"normal", "iac", "verb"}, didconnect : BOOLEAN,
   waiting_for : 0 .. MSS]

(* The values the state can take: the tails stay inside the ring however   *)
(* they are moved, and what is waited for is at most a segment.            *)
TypeOK ==
  /\ connected \in BOOLEAN
  /\ authenticated \in -2 .. PasswordLength
  /\ sendfifo \in Ring /\ recvfifo \in Ring
  /\ conn \in [Conns -> Connections]
  /\ console \in {"free", "waiting"}
  /\ written \in 0 .. MaxOut /\ typed \in 0 .. MaxIn /\ opens \in 0 .. MaxOpens
  /\ first \in Nat /\ got \in [Conns -> Seq(Int)]
  /\ options \in Nat /\ intruded \in BOOLEAN

(* What the peer has is everything offered to the ring, in order and once, *)
(* and all of it when the ring is empty.                                   *)
Complete(c) ==
  /\ got[c] = [i \in 1 .. Len(got[c]) |-> first + i]
  /\ fifoused(sendfifo) = 0 => Len(got[c]) = sendfifo.seen - first

(* The answers to option requests that fit between the threshold and the   *)
(* end of the ring, next to one newline.                                   *)
Spare == FIFOSIZE - 1 - FIFOACTIONTHRESHOLD - 2

(* A session that no second connection disturbs mirrors the console,       *)
(* whatever is retransmitted and wherever the ring wraps; nothing the      *)
(* console writes is dropped for want of room.                             *)
MirrorsAlone ==
  \A c \in Conns : Serves(c) /\ ~intruded /\ options <= Spare => Complete(c)

(* Introduction.md:24: "The TELNET connection and serial port mirror each  *)
(* other", a second connection or not.                                     *)
Mirrors ==
  \A c \in Conns : Serves(c) /\ options <= Spare => Complete(c)

(* A key is lost only when the ring is full of keys the console has not    *)
(* read, never because of where its second tail stands.                    *)
RoomForKeys ==
  [][opens' = opens =>
       LET n == fifoused(recvfifo) + recvfifo'.seen - recvfifo.seen
       IN  recvfifo'.seen # recvfifo.seen =>
             fifoused(recvfifo') = IF n < FIFOSIZE THEN n ELSE FIFOSIZE - 1]_vars

(* Console output returns, whatever the peer does: it acknowledges, goes   *)
(* away or is silent.                                                      *)
OutputReturns ==
  (console = "waiting" /\ ~intruded /\ \E c \in Conns : Serves(c))
    ~> (console = "free" \/ intruded)
===============================================================================
