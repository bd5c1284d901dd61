------------------------------ MODULE SocketApp ------------------------------
(* The TCP sockets of BASIC programs, uip/apps/socket/socket.c.  Two users of
   one socket_state per uIP connection: the BASIC commands (SCACEPT, SCCON,
   SCREAD$, SCWRITE, SCCLOSE and the end of a program), which block by calling
   netmainloop in a loop, and socket_appcall, which uIP calls with one event at
   a time.  One action per command, per turn of a blocking command, and per
   event of uIP; uIP itself and the peer are external (see README).

   The bytes a peer sends on connection c are numbered 1, 2, ... over all the
   connections slot c serves, the bytes a program writes are numbered anew on
   each connection.  delivered, lastread, carried, got and wrote are history variables.  *)
EXTENDS Naturals, Sequences

CONSTANTS Conns,          \* the slots of uip_conns (UIP_CONNS)
          UIP_BUFSIZE,    \* bytes of uip_buf
          MSS,            \* most data in one segment: UIP_BUFSIZE less headers
          TRANS_TIMEOUT,  \* polls a write waits for
          UIP_MAXRTX,     \* retransmissions before uIP gives up
          BufLens,        \* the <buffer size> arguments programs use
          WriteLens,      \* lengths of the strings programs write
          ReadLens,       \* lengths programs read
          EndBytes,       \* the bytes equal to a reader's end character
          MaxIn, MaxOut,  \* bounds: bytes a peer sends, bytes a program writes
          MaxOpens,       \* bound: connections made
          MaxEnds         \* bound: program ends

ASSUME SizeAssumption == /\ Conns \subseteq Nat
                         /\ MSS \in Nat \ {0}
                         /\ UIP_BUFSIZE \in Nat
                         /\ MSS < UIP_BUFSIZE
                         /\ BufLens \subseteq Nat \ {0}
                         /\ WriteLens \subseteq Nat /\ ReadLens \subseteq Nat \ {0}
                         /\ TRANS_TIMEOUT \in Nat \ {0} /\ UIP_MAXRTX \in Nat

VARIABLES sock,       \* per slot: uIP's connection, socket_state and sockarray
          acceptlen,  \* buffer size of connections to come
          listening,  \* uip_listen was called for the program's port
          call,       \* the BASIC command under way
          owned,      \* slots whose number the program holds
          opens, ends,                     \* what the bounds count
          carried,    \* bytes of an earlier connection found when one opened
          delivered, lastread, got, wrote  \* history

vars == <<sock, acceptlen, listening, call, owned, opens, ends,
          carried, delivered, lastread, got, wrote>>
history == <<carried, delivered, lastread, got, wrote>>

Idle == [op |-> "none"]
Calls ==
  {Idle} \cup [op: {"accept"}] \cup [op: {"write"}, conn: Conns]
  \cup [op: {"read"}, conn: Conns, left: Nat \ {0},
        endchar: {"none", "byte", "now"}]

Events == {"connected", "poll", "rexmit", "acked", "newdata", "closed"}

\* A slot of uip_conns with its socket_state and its entry of sockarray.
Sockets == [tcp: {"closed", "syn", "established", "closing"},
            passive: BOOLEAN, nrtx: 0..UIP_MAXRTX,
            outstanding: Seq(Nat), arrived: BOOLEAN,
            magic: BOOLEAN, connected: BOOLEAN, accepted: BOOLEAN,
            closesock: BOOLEAN, stopped: BOOLEAN, recvthr: Nat,
            sending: BOOLEAN, senddata: Seq(Nat), sendamt: 0..MSS,
            transtimecount: 0..TRANS_TIMEOUT,
            alloc: BOOLEAN, fifosize: Nat, buf: Seq(Nat)]

-----------------------------------------------------------------------------
\* The receive FIFO and the fields of socket_state.

freesocketfifo(s) == [s EXCEPT !.alloc = FALSE, !.buf = <<>>]

\* malloc may fail: then buf stays NULL and fifosize what it was.
initsocketfifo(s, len, memory) ==
  IF memory THEN [s EXCEPT !.alloc = TRUE, !.fifosize = len, !.buf = <<>>]
            ELSE freesocketfifo(s)

\* One position of the ring stays free; a byte that does not fit is dropped.
putsocketfifo(s, bytes) ==
  LET room == s.fifosize - 1 - Len(s.buf)
  IN  IF s.alloc THEN [s EXCEPT !.buf = @ \o SubSeq(bytes, 1, IF Len(bytes) < room THEN Len(bytes) ELSE room)]
                 ELSE s

init_socket_conn(s) ==
  [s EXCEPT !.accepted = FALSE, !.connected = FALSE, !.sendamt = 0,
            !.senddata = <<>>, !.sending = FALSE, !.recvthr = 0,
            !.closesock = FALSE, !.stopped = FALSE, !.magic = TRUE]

get_sock(c) == sock[c].magic /\ sock[c].connected

-----------------------------------------------------------------------------
\* socket_appcall, in the order of its statements.  ev is what uip_flags says,
\* bytes the data of the segment; memory is the outcome of malloc.

\* Mutant: the threshold is the size, with no room for one more packet.
FaultyOpened(s, ev, memory) ==
  IF "connected" \notin ev THEN s
  ELSE LET t == [init_socket_conn(s) EXCEPT !.connected = TRUE, !.transtimecount = 0]
           u == IF t.alloc THEN t ELSE initsocketfifo(t, acceptlen, memory)
       IN  [u EXCEPT !.recvthr = u.fifosize]

Opened(s, ev, memory) ==
  IF "connected" \notin ev THEN s
  ELSE LET t == [init_socket_conn(s) EXCEPT !.connected = TRUE, !.transtimecount = 0]
           u == IF t.alloc THEN t ELSE initsocketfifo(t, acceptlen, memory)
       IN  [u EXCEPT !.recvthr = IF u.fifosize < UIP_BUFSIZE THEN 0
                                 ELSE u.fifosize - UIP_BUFSIZE]

Polled(s, ev) ==
  IF "poll" \in ev /\ s.transtimecount < TRANS_TIMEOUT
  THEN [s EXCEPT !.transtimecount = @ + 1] ELSE s

\* Mutant: the write counts as done at its first acknowledgement.
FaultyAcknowledged(s) ==
  [s EXCEPT !.senddata = <<>>, !.sendamt = 0, !.sending = FALSE]

Acknowledged(s) ==
  LET rest == SubSeq(s.senddata, s.sendamt + 1, Len(s.senddata))
  IN  [s EXCEPT !.senddata = rest, !.sendamt = 0, !.sending = rest # <<>>]

\* uip_send of the next part, if nothing is under way.
NextPart(s) ==
  LET n == IF Len(s.senddata) > MSS THEN MSS ELSE Len(s.senddata)
  IN  IF s.senddata # <<>> /\ s.sendamt = 0
      THEN [s EXCEPT !.sendamt = n, !.transtimecount = 0, !.arrived = FALSE,
                     !.outstanding = SubSeq(s.senddata, 1, n)]
      ELSE s

Sent(s, ev) ==
  IF ~s.sending THEN s
  ELSE IF "rexmit" \in ev
       THEN [s EXCEPT !.outstanding = SubSeq(s.senddata, 1, s.sendamt),
                      !.transtimecount = 0]
       ELSE NextPart(IF "acked" \in ev THEN Acknowledged(s) ELSE s)

Received(s, ev, bytes) ==
  IF "newdata" \notin ev THEN s
  ELSE LET t == putsocketfifo(s, bytes)
       IN  [t EXCEPT !.stopped = @ \/ Len(t.buf) >= t.recvthr]

\* Mutant: restarts only a connection it has something to send on.
FaultyResumed(s) ==
  [s EXCEPT !.stopped = @ /\ ~(s.sending /\ Len(s.buf) < s.recvthr)]

Resumed(s) == [s EXCEPT !.stopped = @ /\ ~(Len(s.buf) < s.recvthr)]

Ended(s, ev) ==
  IF "closed" \in ev
  THEN [s EXCEPT !.magic = FALSE, !.accepted = FALSE, !.connected = FALSE] ELSE s

Closing(s) == [s EXCEPT !.closesock = @ \/ ~s.alloc]

socket_appcall(s, ev, bytes, memory) ==
  LET o == Opened(s, ev, memory)
  IN  IF o.magic
      THEN Closing(Ended(Resumed(Received(Sent(Polled(o, ev), ev), ev, bytes)), ev))
      ELSE o

\* What uIP does after the call: a connection the application asked to close
\* sends a FIN in place of data, unless the call was for a retransmission,
\* after which uIP does not look; one that ended sends nothing.
Uip(s, ev) ==
  CASE s.tcp # "established" -> [s EXCEPT !.outstanding = <<>>]
    [] s.tcp = "established" /\ s.closesock /\ "rexmit" \notin ev ->
         [s EXCEPT !.tcp = "closing", !.outstanding = <<>>]
    [] OTHER -> s

-----------------------------------------------------------------------------
\* Events of uIP.  Event is one call of socket_appcall, s being the slot as uIP
\* left it before the call and n the number of bytes of new data.

Event(c, s, ev, n) ==
  LET bytes == [i \in 1..n |-> delivered[c] + i]
  IN  /\ \E memory \in BOOLEAN :
           sock' = [sock EXCEPT ![c] = Uip(socket_appcall(s, ev, bytes, memory), ev)]
      /\ delivered' = [delivered EXCEPT ![c] = @ + n]
      /\ carried' = IF "connected" \in ev THEN [carried EXCEPT ![c] = Len(sock[c].buf)]
                    ELSE carried
      /\ lastread' = [lastread EXCEPT ![c] =
                        IF ~sock[c].alloc \/ ("connected" \in ev /\ sock[c].buf = <<>>)
                        THEN delivered[c] ELSE @]

NewData(c, n) == n <= MSS /\ delivered[c] + n <= MaxIn
NewConnection(c) == /\ got' = [got EXCEPT ![c] = <<>>]
                    /\ wrote' = [wrote EXCEPT ![c] = 0]
                    /\ opens' = opens + 1
Fresh(c, state, passive) ==
  [sock[c] EXCEPT !.tcp = state, !.passive = passive, !.nrtx = 0,
                  !.outstanding = <<>>, !.arrived = FALSE]
Program == <<acceptlen, listening, call, owned, ends>>

\* A peer connects to the port the program listens on; data may come along.
PeerConnects(c) ==
  /\ sock[c].tcp = "closed" /\ listening /\ opens < MaxOpens
  /\ \E n \in 0..MSS :
       /\ NewData(c, n)
       /\ Event(c, Fresh(c, "established", TRUE),
                {"connected"} \cup (IF n > 0 THEN {"newdata"} ELSE {}), n)
  /\ NewConnection(c)
  /\ UNCHANGED Program

\* The SYN of SCCON is answered; uIP reports new data of length 0 with it.
PeerAnswers(c) ==
  /\ sock[c].tcp = "syn"
  /\ Event(c, Fresh(c, "established", FALSE), {"connected", "newdata"}, 0)
  /\ UNCHANGED <<Program, got, wrote, opens>>

\* A segment with an acknowledgement, data, a FIN, or several of them.  A
\* stopped connection accepts no data and no FIN; uIP ignores a FIN while data
\* of ours is unacknowledged.
Segment(c) ==
  \E ack, fin \in BOOLEAN, n \in 0..MSS :
    LET s == sock[c]
    IN  /\ s.tcp = "established" /\ (ack \/ fin \/ n > 0)
        /\ ack => s.outstanding # <<>> /\ s.arrived
        /\ fin \/ n > 0 => ~s.stopped
        /\ fin => ack \/ s.outstanding = <<>>
        /\ NewData(c, n)
        /\ Event(c, [s EXCEPT !.tcp = IF fin THEN "closed" ELSE @, !.nrtx = 0,
                              !.outstanding = IF ack THEN <<>> ELSE @,
                              !.arrived = @ /\ ~ack],
                 (IF ack THEN {"acked"} ELSE {}) \cup (IF fin THEN {"closed"} ELSE {})
                   \cup (IF n > 0 THEN {"newdata"} ELSE {}), n)
        /\ UNCHANGED <<Program, got, wrote, opens>>

\* The segment under way reaches the peer; its acknowledgement may be lost.
PeerGets(c) ==
  /\ sock[c].outstanding # <<>> /\ ~sock[c].arrived
  /\ sock' = [sock EXCEPT ![c].arrived = TRUE]
  /\ got' = [got EXCEPT ![c] = @ \o sock[c].outstanding]
  /\ UNCHANGED <<Program, opens, carried, delivered, lastread, wrote>>

\* The connection ends: a reset, the peer's FIN after ours, or a timeout that
\* uIP reports.
PeerEnds(c) ==
  /\ sock[c].tcp \in {"syn", "established", "closing"}
  /\ Event(c, [sock[c] EXCEPT !.tcp = "closed"], {"closed"}, 0)
  /\ UNCHANGED <<Program, got, wrote, opens>>

\* uip_periodic: retransmit, give up, or poll.
Timer(c) ==
  LET s == sock[c]
  IN  /\ s.tcp = "established"
      /\ IF s.outstanding = <<>> THEN Event(c, [s EXCEPT !.nrtx = 0], {"poll"}, 0)
         ELSE IF s.nrtx = UIP_MAXRTX THEN Event(c, [s EXCEPT !.tcp = "closed"], {"closed"}, 0)
         ELSE Event(c, [s EXCEPT !.nrtx = @ + 1], {"rexmit"}, 0)
      /\ UNCHANGED <<Program, got, wrote, opens>>

\* Our FIN was acknowledged and the peer's does not come: after a while uIP
\* frees the connection without telling the application.
FinWait2Expires(c) ==
  /\ sock[c].tcp = "closing"
  /\ sock' = [sock EXCEPT ![c].tcp = "closed"]
  /\ UNCHANGED <<Program, opens, history>>

-----------------------------------------------------------------------------
\* The BASIC commands.

\* SCACEPT: listen, run the network once, take the first unaccepted connection.
AcceptStarts ==
  /\ call = Idle
  /\ acceptlen' \in BufLens
  /\ listening' = TRUE
  /\ call' = [op |-> "accept"]
  /\ UNCHANGED <<sock, owned, opens, ends, history>>

Acceptable == {c \in Conns : get_sock(c) /\ ~sock[c].accepted /\ sock[c].passive}
socket_accept ==
  /\ call.op = "accept"
  /\ call' = Idle
  /\ IF Acceptable = {} THEN UNCHANGED <<sock, owned>>
     ELSE LET c == CHOOSE x \in Acceptable : \A y \in Acceptable : x <= y
          IN  /\ sock' = [sock EXCEPT ![c].accepted = TRUE]
              /\ owned' = owned \cup {c}
  /\ UNCHANGED <<acceptlen, listening, opens, ends, history>>

\* SCCON.
socket_connect(c) ==
  /\ call = Idle /\ sock[c].tcp = "closed" /\ opens < MaxOpens
  /\ \E len \in BufLens, memory \in BOOLEAN :
       sock' = [sock EXCEPT ![c] =
                  initsocketfifo(init_socket_conn(Fresh(c, "syn", FALSE)), len, memory)]
  /\ owned' = owned \cup {c}
  /\ lastread' = [lastread EXCEPT ![c] = delivered[c]]
  /\ NewConnection(c)
  /\ UNCHANGED <<acceptlen, listening, call, ends, carried, delivered>>

\* SCREAD$: empty the FIFO up to the length or the end character; when it runs
\* empty, wait or return what there is.
ReadStarts(c) ==
  /\ call = Idle /\ c \in owned
  /\ \E n \in ReadLens, e \in {"none", "byte", "now"} :
       call' = [op |-> "read", conn |-> c, left |-> n, endchar |-> e]
  /\ UNCHANGED <<sock, acceptlen, listening, owned, opens, ends, history>>

socket_read ==
  /\ call.op = "read"
  /\ LET c == call.conn
         b == sock[c].buf
         hits == {i \in 1..Len(b) : i = call.left \/ (call.endchar = "byte" /\ b[i] \in EndBytes)}
         n == IF hits = {} THEN Len(b) ELSE CHOOSE i \in hits : \A j \in hits : i <= j
         waits == hits = {} /\ call.endchar # "now" /\ get_sock(c)
     IN  /\ waits => n > 0
         /\ sock' = [sock EXCEPT ![c].buf = SubSeq(b, n + 1, Len(b))]
         /\ lastread' = [lastread EXCEPT ![c] = IF n > 0 THEN b[n] ELSE @]
         /\ call' = IF waits THEN [call EXCEPT !.left = @ - n] ELSE Idle
  /\ UNCHANGED <<acceptlen, listening, owned, opens, ends, carried, delivered, got, wrote>>

\* SCWRITE: hand the string to socket_appcall and wait until it is sent.
WriteStarts(c) ==
  /\ call = Idle /\ c \in owned /\ get_sock(c)
  /\ \E n \in WriteLens :
       /\ wrote[c] + n <= MaxOut
       /\ sock' = [sock EXCEPT ![c].senddata = [i \in 1..n |-> wrote[c] + i],
                               ![c].sending = TRUE, ![c].transtimecount = 0]
       /\ wrote' = [wrote EXCEPT ![c] = @ + n]
  /\ call' = [op |-> "write", conn |-> c]
  /\ UNCHANGED <<acceptlen, listening, owned, opens, ends, carried, delivered, lastread, got>>

\* Mutant: the wait has no timeout.
FaultyWrite ==
  /\ call.op = "write"
  /\ ~sock[call.conn].sending \/ ~get_sock(call.conn)
  /\ call' = Idle
  /\ UNCHANGED <<sock, acceptlen, listening, owned, opens, ends, history>>

socket_write ==
  /\ call.op = "write"
  /\ LET s == sock[call.conn]
     IN  ~s.sending \/ ~get_sock(call.conn) \/ s.transtimecount >= TRANS_TIMEOUT
  /\ call' = Idle
  /\ UNCHANGED <<sock, acceptlen, listening, owned, opens, ends, history>>

\* SCCLOSE; the network runs afterwards.
socket_close(c) ==
  /\ call = Idle /\ c \in owned
  /\ LET s == sock[c]
     IN  sock' = [sock EXCEPT ![c] = [freesocketfifo(s) EXCEPT !.closesock = s.closesock \/ get_sock(c)]]
  /\ owned' = owned \ {c}
  /\ UNCHANGED <<acceptlen, listening, call, opens, ends, history>>

\* A program ends: cleanup frees every FIFO.
socket_free ==
  /\ call = Idle /\ ends < MaxEnds
  /\ sock' = [c \in Conns |-> freesocketfifo(sock[c])]
  /\ owned' = {}
  /\ ends' = ends + 1
  /\ UNCHANGED <<acceptlen, listening, call, opens, history>>

-----------------------------------------------------------------------------
Init ==
  /\ sock = [c \in Conns |->
       [tcp |-> "closed", passive |-> FALSE, nrtx |-> 0, outstanding |-> <<>>,
        arrived |-> FALSE, magic |-> FALSE, connected |-> FALSE,
        accepted |-> FALSE, closesock |-> FALSE, stopped |-> FALSE,
        recvthr |-> 0, sending |-> FALSE, senddata |-> <<>>, sendamt |-> 0,
        transtimecount |-> 0, alloc |-> FALSE, fifosize |-> 0, buf |-> <<>>]]
  /\ acceptlen = 1 /\ listening = FALSE   \* 128: below any UIP_BUFSIZE in use
  /\ call = Idle /\ owned = {} /\ opens = 0 /\ ends = 0
  /\ carried = [c \in Conns |-> 0]
  /\ delivered = [c \in Conns |-> 0] /\ lastread = [c \in Conns |-> 0]
  /\ got = [c \in Conns |-> <<>>] /\ wrote = [c \in Conns |-> 0]

Network(c) == PeerConnects(c) \/ PeerAnswers(c) \/ Segment(c) \/ PeerGets(c)
              \/ PeerEnds(c) \/ Timer(c) \/ FinWait2Expires(c)
Commands == AcceptStarts \/ socket_accept \/ socket_read \/ socket_write \/ socket_free
            \/ \E c \in Conns : socket_connect(c) \/ ReadStarts(c) \/ WriteStarts(c) \/ socket_close(c)
Next == Commands \/ \E c \in Conns : Network(c)

\* Every waiting command turns netmainloop, which serves the periodic timer of
\* every connection 60 times a second; a command whose wait is over goes on.
Spec == Init /\ [][Next]_vars /\ WF_vars(socket_write)
             /\ \A c \in Conns : WF_vars(Timer(c))

-----------------------------------------------------------------------------
(* Types. *)
TypeOK ==
  /\ sock \in [Conns -> Sockets]
  /\ acceptlen \in BufLens \cup {1} /\ listening \in BOOLEAN
  /\ call \in Calls /\ owned \subseteq Conns
  /\ carried \in [Conns -> Nat] /\ delivered \in [Conns -> Nat]
  /\ lastread \in [Conns -> Nat]
  /\ got \in [Conns -> Seq(Nat)] /\ wrote \in [Conns -> Nat]

(* A FIFO at least as big as uip_buf that was empty when its connection opened
   holds exactly the bytes uIP has accepted and the program has not read, in
   order: uip_stop comes early enough that putsocketfifo never drops one.  *)
Holds(c) == sock[c].buf = [i \in 1..delivered[c] - lastread[c] |-> lastread[c] + i]
NothingLost ==
  \A c \in Conns :
    sock[c].alloc /\ sock[c].fifosize >= UIP_BUFSIZE /\ carried[c] = 0 => Holds(c)

(* What the peer has got is what the program wrote on this connection, in order
   and each byte once, whatever was retransmitted; and when no write is pending
   (SCWRITE returned 0) it has got all of it. *)
Written ==
  \A c \in Conns :
    /\ got[c] = [i \in 1..Len(got[c]) |-> i]
    /\ Len(got[c]) <= wrote[c]
    /\ ~sock[c].sending => Len(got[c]) = wrote[c]

(* The peer is not held back for ever by a FIFO the program has emptied, as long
   as the FIFO is bigger than uip_buf. *)
Flows ==
  \A c \in Conns :
    LET held == sock[c].tcp = "established" /\ sock[c].alloc
                /\ sock[c].stopped /\ sock[c].buf = <<>>
    IN  (held /\ sock[c].fifosize > UIP_BUFSIZE) ~> ~held

(* SCWRITE on a live connection returns, acknowledged or not: the empty string
   and the peer that has gone away included. *)
WriteReturns ==
  \A c \in Conns :
    LET writing == call.op = "write" /\ call.conn = c
    IN  (writing /\ sock[c].tcp = "established" /\ sock[c].alloc) ~> ~writing

=============================================================================
