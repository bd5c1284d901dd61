------------------------------ MODULE WebRelay ------------------------------
(* Pages written by a running BASIC program: the /bas requests of
   uip/apps/webserver/httpd.c and the commands WEBCON, WEBOUT and WEBPST$.  One
   connection at a time holds the relay; the others wait for it.  The program
   hands a string or a buffer to the relay and turns netmainloop until the
   connection has taken it, so httpd_appcall always runs inside a waiting
   command or between two commands.  One action per command, per turn of a
   blocking command and per event of uIP; uIP and the browser are external.

   Connections are known by their conn_id.  The bytes of a page are <<id, 0>>
   for the header and <<id, 1>>, <<id, 2>>, ... in the order the program writes
   them; the bytes of a posted form are 1, 2, ...  *)
EXTENDS Naturals, Sequences

CONSTANTS Slots,        \* the slots of uip_conns (UIP_CONNS)
          MSS,          \* initialmss of every connection
          Windows,      \* windows a browser announces with an acknowledgement
          BUF,          \* sizeof(inputbuf) - 1
          WaitPolls,    \* polls a request waits for the relay
          IdlePolls,    \* polls without traffic that abort a connection
          UIP_MAXRTX,   \* retransmissions before uIP gives up
          PasswordSet,  \* *auth_password
          OutLens,      \* lengths of the strings given to WEBOUT
          PostLens,     \* <numchars> of WEBPST$
          Forms,        \* per slot: values of content_length, 0 for a GET
          MaxBody,      \* bound: content_length
          MaxConns,     \* bound: connections made
          MaxOut,       \* bound: bytes written to one connection
          MaxRuns       \* bound: program starts

ASSUME SizeAssumption ==
  /\ MSS \in Nat \ {0} /\ Windows \subseteq 1..MSS
  /\ BUF \in Nat \ {0}
  /\ WaitPolls \in Nat /\ IdlePolls \in Nat /\ WaitPolls + 1 < IdlePolls
  /\ UIP_MAXRTX \in Nat /\ PasswordSet \in BOOLEAN
  /\ OutLens \subseteq Nat /\ PostLens \subseteq Nat \ {0}
  /\ Forms \in [Slots -> SUBSET (0..MaxBody)]
  /\ MaxBody \in Nat /\ MaxConns \in Nat /\ MaxOut \in Nat /\ MaxRuns \in Nat

VARIABLES conns,         \* per slot: uIP's connection and its httpd_state
          relay,         \* the basic_state_* statics
          cur_conn_id,
          basic_running,
          wc,            \* the connection number the program holds
          call,          \* the command under way
          runs           \* what MaxRuns counts

program == <<basic_running, wc, call, runs>>
vars == <<conns, relay, cur_conn_id, program>>

Ids == 1..MaxConns
NoConnection == 0     \* the -1 of WEBCON
Junk == 0             \* whatever uip_buf holds when it is read too late
PageBytes == Ids \X (0..MaxOut)
FormBytes == 0..MaxBody
Unasked == [asked |-> 0, got |-> <<>>]

Idle == [op |-> "none"]
Calls == {Idle} \cup [op: {"out"}, last: BOOLEAN] \cup [op: {"post"}, asked: PostLens]

\* left is what basic_state_data points to, <<>> when it is NULL; posting is
\* basic_state_post_data # NULL, got what lies before it in WEBPST$'s buffer.
Relays == [active: BOOLEAN, conn_id: 0..MaxConns, term: BOOLEAN,
           left: Seq(PageBytes), posting: BOOLEAN, room: Nat, got: Seq(FormBytes)]

\* uIP's part of a slot, then httpd_state.  input and output are the places
\* where its two protothreads wait; unread is what the protosocket has not read
\* of the last segment, blocked its STATE_BLOCKED_NEWDATA, inbuf what inputbuf
\* holds; slen is what psock_send has in flight of a string; unsent is what the
\* browser has not sent of its form.  page and wrote (bytes the browser got, bytes
\* the program wrote), form (its length), posted (the first WEBPST$ and its
\* answer) and waited (the relay was not free for the request) are history.
Slot ==
  [tcp: {"free", "open", "closing"}, nrtx: 0..UIP_MAXRTX, mss: 1..MSS,
   outstanding: Seq(PageBytes), arrived: BOOLEAN, unsent: 0..MaxBody,
   conn_id: 0..MaxConns, timer: 0..IdlePolls, content_length: 0..MaxBody,
   is_authorized: BOOLEAN, special: BOOLEAN, reply: {"200", "401", "503"},
   input: {"headers", "wait", "read", "hold", "done"},
   output: {"none", "begin", "header", "relay", "string"},
   unread: Seq(FormBytes), blocked: BOOLEAN, inbuf: Seq(FormBytes), slen: Nat,
   page: Seq(PageBytes), wrote: 0..MaxOut, form: 0..MaxBody,
   posted: [asked: PostLens \cup {0}, got: Seq(FormBytes)], waited: BOOLEAN]

FreeSlot ==
  [tcp |-> "free", nrtx |-> 0, mss |-> MSS, outstanding |-> <<>>,
   arrived |-> FALSE, unsent |-> 0, conn_id |-> 0, timer |-> 0,
   content_length |-> 0, is_authorized |-> FALSE, special |-> FALSE,
   reply |-> "200", input |-> "headers", output |-> "none", unread |-> <<>>,
   blocked |-> FALSE, inbuf |-> <<>>, slen |-> 0, page |-> <<>>, wrote |-> 0,
   form |-> 0, posted |-> Unasked, waited |-> FALSE]

Least(a, b) == IF a < b THEN a ELSE b
Drop(s, n) == SubSeq(s, n + 1, Len(s))

-----------------------------------------------------------------------------
(* handle_input.  x = [s |-> the slot, r |-> the relay, ev |-> what uip_flags
   says, new |-> the data of the segment, flag |-> what the application asks of
   uIP].  An operator maps such a record to the next, or to the set of records
   that can follow, which has one element.  *)

reset_basic_state(r) ==
  [r EXCEPT !.active = FALSE, !.term = FALSE, !.left = <<>>,
            !.posting = FALSE, !.room = 0, !.got = <<>>]

cleanup_special_state(x) ==
  [x EXCEPT !.r = IF x.s.special THEN reset_basic_state(@) ELSE @, !.s.special = FALSE]

\* The condition of PSOCK_WAIT_UNTIL, apart from the timer.
RelayFree(x) == ~x.r.active /\ basic_running

\* Mutant: a request that waited long enough takes the relay over.
FaultyAdmit(x) ==
  IF x.s.input # "wait" \/ ~(RelayFree(x) \/ x.s.timer > WaitPolls) THEN x
  ELSE [x EXCEPT !.s.input = "read", !.s.output = "begin", !.s.special = TRUE,
                 !.r = [reset_basic_state(@) EXCEPT !.active = TRUE,
                                                    !.conn_id = x.s.conn_id]]

\* The relay, or a refusal.
Admit(x) ==
  IF x.s.input # "wait" \/ ~(RelayFree(x) \/ x.s.timer > WaitPolls) THEN x
  ELSE LET y == [x EXCEPT !.s.input = "read", !.s.output = "begin"]
       IN  IF RelayFree(x)
           THEN [y EXCEPT !.s.special = TRUE,
                          !.r = [reset_basic_state(@) EXCEPT !.active = TRUE,
                                                             !.conn_id = x.s.conn_id]]
           ELSE [y EXCEPT !.s.reply = "503", !.s.content_length = 0]

\* psock_readbuf up to min(BUF, content_length) bytes.  psock_newdata looks at
\* the segment of this call only when an earlier call left it blocked.
ReadChunk(x) ==
  LET s == x.s
      data == IF s.unread = <<>> /\ s.blocked THEN x.new ELSE s.unread
      room == Least(BUF, s.content_length) - Len(s.inbuf)
  IN  IF Len(data) < room
      THEN [x EXCEPT !.s.inbuf = @ \o data, !.s.unread = <<>>,
                     !.s.blocked = TRUE, !.new = <<>>]
      ELSE [x EXCEPT !.s.inbuf = @ \o SubSeq(data, 1, room), !.s.unread = Drop(data, room),
                     !.s.blocked = FALSE, !.s.content_length = @ - Len(s.inbuf) - room,
                     !.s.input = "hold"]

\* Mutant: the whole chunk is copied, whatever room the buffer has.
FaultyGiveChunk(x) ==
  IF basic_running /\ ~x.r.term /\ x.r.posting
  THEN [x EXCEPT !.r.got = @ \o x.s.inbuf, !.r.room = 0, !.s.inbuf = <<>>,
                 !.s.input = "read", !.r.posting = x.s.content_length > 0]
  ELSE [x EXCEPT !.s.inbuf = <<>>, !.s.input = "read"]

\* The chunk is copied to the buffer of a waiting WEBPST$.
GiveChunk(x) ==
  LET fits == Len(x.s.inbuf) <= x.r.room
      y == [x EXCEPT !.s.inbuf = <<>>, !.s.input = "read",
                     !.s.content_length = IF fits THEN @ ELSE 0]
  IN  IF basic_running /\ ~x.r.term /\ x.r.posting
      THEN [y EXCEPT !.r.got = @ \o SubSeq(x.s.inbuf, 1, Least(Len(x.s.inbuf), x.r.room)),
                     !.r.room = IF fits THEN @ - Len(x.s.inbuf) ELSE 0,
                     !.r.posting = fits /\ x.s.content_length > 0]
      ELSE [x EXCEPT !.s.inbuf = <<>>, !.s.input = "read"]

\* The loop over the form, one turn; a turn that must wait changes nothing more.
Turn(x) ==
  CASE x.s.input = "read" /\ x.s.content_length = 0 -> [x EXCEPT !.s.input = "done"]
    [] x.s.input = "read" /\ x.s.content_length > 0 -> ReadChunk(x)
    [] x.s.input = "hold" /\ (~basic_running \/ x.r.term \/ x.r.posting) -> GiveChunk(x)
    [] OTHER -> x

handle_input(x) ==
  LET turns[n \in 0..(2 * MaxBody + 1)] == IF n = 0 THEN {Admit(x)} ELSE {Turn(y) : y \in turns[n - 1]}
  IN  turns[2 * MaxBody + 1]

-----------------------------------------------------------------------------
(* handle_output and psock_send.  An acknowledgement ends psock_send whatever
   is left: uip_acked() stays true for the whole call, so its loop runs through
   the rest, each uip_send replacing the one before and the last one sending
   nothing.  send_basic_packet goes on from the part that was acknowledged.  *)

psock_send(x, bytes, place) ==
  LET n == Least(Len(bytes), x.s.mss)
  IN  [x EXCEPT !.s.outstanding = SubSeq(bytes, 1, n), !.s.arrived = FALSE,
                !.s.slen = n, !.s.output = place]

PSOCK_CLOSE(x) == [x EXCEPT !.flag = "close"]

\* PT_WAIT_THREAD in send_basic_packet.
Relay(x) ==
  IF ~basic_running \/ x.r.term THEN PSOCK_CLOSE(cleanup_special_state(x))
  ELSE IF x.r.left # <<>> THEN psock_send(x, x.r.left, "string")
  ELSE [x EXCEPT !.s.output = "relay"]

\* Mutant: the string counts as taken when its last part is sent.
FaultyTaken(x) ==
  LET rest == Drop(x.r.left, x.s.slen)
      taken == Len(rest) <= x.s.mss
  IN  IF rest = <<>> THEN Relay([x EXCEPT !.r.left = <<>>])
      ELSE psock_send([x EXCEPT !.r.left = IF taken THEN <<>> ELSE rest], rest, "string")

\* Mutant: goes on by what the window allows now, not by what was sent.
FaultyPart(x) ==
  LET rest == Drop(x.r.left, Least(Len(x.r.left), x.s.mss))
  IN  IF rest # <<>> THEN psock_send([x EXCEPT !.r.left = rest], rest, "string")
      ELSE Relay([x EXCEPT !.r.left = <<>>])

send_basic_packet(x) ==
  LET rest == Drop(x.r.left, x.s.slen)
  IN  IF rest # <<>> THEN psock_send([x EXCEPT !.r.left = rest], rest, "string")
      ELSE Relay([x EXCEPT !.r.left = <<>>])

\* A refused password ends the request before anything else is looked at.
Header(x) ==
  psock_send([x EXCEPT !.s.reply = IF PasswordSet /\ ~x.s.is_authorized THEN "401" ELSE @],
             << <<x.s.conn_id, 0>> >>, "header")

handle_output(x) ==
  CASE x.s.output = "begin" -> Header(x)
    [] x.s.output = "header" /\ "acked" \in x.ev ->
         IF x.s.reply = "200" THEN Relay(x) ELSE PSOCK_CLOSE(x)
    [] x.s.output = "string" /\ "acked" \in x.ev -> send_basic_packet(x)
    [] x.s.output = "relay" -> Relay(x)
    [] OTHER -> x

handle_connection(x) == {handle_output(y) : y \in handle_input(x)}

\* Mutant: a connection that has the relay is never aborted.
FaultyPatience(x) ==
  LET t == x.s.timer + 1
  IN  IF t < IdlePolls THEN [x EXCEPT !.s.timer = t]
      ELSE IF x.s.special THEN x
      ELSE [x EXCEPT !.flag = "abort"]

\* Mutant: polls count only once there is something to send.
FaultyPolls(x) ==
  LET t == x.s.timer + 1
      y == [x EXCEPT !.s.timer = t]
  IN  IF x.s.output = "none" THEN x
      ELSE IF t < IdlePolls THEN y
      ELSE [cleanup_special_state(y) EXCEPT !.flag = "abort"]

\* Counts polls without traffic; the connection it aborts is still handled.
Polled(x) ==
  LET t == x.s.timer + 1
      y == [x EXCEPT !.s.timer = t]
  IN  IF t < IdlePolls THEN y
      ELSE [cleanup_special_state(y) EXCEPT !.flag = "abort"]

httpd_appcall(x) ==
  IF "closed" \in x.ev THEN {[cleanup_special_state(x) EXCEPT !.flag = "abort"]}
  ELSE UNION {handle_connection(y) :
                y \in {IF "poll" \in x.ev THEN Polled(x) ELSE [x EXCEPT !.s.timer = 0]}}

\* What uIP does with the connection after the call.
Uip(y) ==
  CASE y.flag = "none"  -> y.s
    [] y.flag = "abort" -> FreeSlot
    [] y.flag = "close" -> [FreeSlot EXCEPT !.tcp = "closing", !.conn_id = y.s.conn_id,
                                            !.special = y.s.special, !.form = y.s.form,
                                            !.posted = y.s.posted, !.waited = y.s.waited]

-----------------------------------------------------------------------------
(* Events.  s is the slot as uIP has it before the call; what an earlier call
   did not read of its segment is no longer in uip_buf.  *)

Called(c, s, ev, new) ==
  \E x \in {[s |-> s, r |-> relay, ev |-> ev, new |-> new, flag |-> "none"]} :
    \E y \in httpd_appcall(x) :
      /\ conns' = [conns EXCEPT ![c] = Uip(y)]
      /\ relay' = y.r

Event(c, s, ev, new) ==
  /\ Called(c, [s EXCEPT !.unread = [i \in DOMAIN @ |-> Junk]], ev, new)
  /\ UNCHANGED <<cur_conn_id, program>>

\* A browser connects.
Connect(c) ==
  /\ conns[c].tcp = "free" /\ cur_conn_id < MaxConns
  /\ cur_conn_id' = cur_conn_id + 1
  /\ conns' = [conns EXCEPT ![c] = [FreeSlot EXCEPT !.tcp = "open", !.conn_id = cur_conn_id']]
  /\ UNCHANGED <<relay, program>>

\* The headers of a /bas request, the last of them with n bytes of the form: a
\* GET or an empty POST has length 0.
Request(c) ==
  /\ conns[c].tcp = "open" /\ conns[c].input = "headers"
  /\ \E length \in Forms[c], authorized \in {TRUE, ~PasswordSet} : \E n \in 0..length :
       Called(c, [conns[c] EXCEPT !.input = "wait", !.is_authorized = authorized,
                                  !.content_length = length, !.unsent = length - n,
                                  !.unread = [i \in 1..n |-> i], !.form = length,
                                  !.waited = ~RelayFree([r |-> relay])],
              {"newdata"}, <<>>)
  /\ UNCHANGED <<cur_conn_id, program>>

\* Another segment of the form, an acknowledgement, or both.  A browser does not
\* take back a window that data is under way for.
Segment(c) ==
  \E ack \in BOOLEAN, n \in 0..MaxBody, w \in Windows :
    LET s == conns[c]
    IN  /\ s.tcp = "open" /\ (ack \/ n > 0) /\ n <= s.unsent
        /\ ack => s.outstanding # <<>> /\ s.arrived
        /\ ~ack => w = s.mss
        /\ Event(c, [s EXCEPT !.mss = w, !.nrtx = 0, !.unsent = @ - n,
                              !.outstanding = IF ack THEN <<>> ELSE @,
                              !.arrived = @ /\ ~ack],
                 (IF ack THEN {"acked"} ELSE {}) \cup (IF n > 0 THEN {"newdata"} ELSE {}),
                 [i \in 1..n |-> s.form - s.unsent + i])

\* The segment under way reaches the browser; its acknowledgement may be lost.
Arrives(c) ==
  /\ conns[c].outstanding # <<>> /\ ~conns[c].arrived
  /\ conns' = [conns EXCEPT ![c].arrived = TRUE, ![c].page = @ \o conns[c].outstanding]
  /\ UNCHANGED <<relay, cur_conn_id, program>>

\* The browser closes or resets the connection, or answers our FIN.
Ends(c) ==
  /\ conns[c].tcp # "free"
  /\ Event(c, conns[c], {"closed"}, <<>>)

\* uip_periodic: poll, retransmit what is under way, or give up.
Timer(c) ==
  LET s == conns[c]
  IN  /\ s.tcp = "open"
      /\ IF s.outstanding = <<>> THEN Event(c, [s EXCEPT !.nrtx = 0], {"poll"}, <<>>)
         ELSE IF s.nrtx = UIP_MAXRTX THEN Event(c, s, {"closed"}, <<>>)
         ELSE Event(c, [s EXCEPT !.nrtx = @ + 1], {"rexmit"}, <<>>)

\* Our FIN was acknowledged and the browser's does not come: after a while uIP
\* frees the connection without a call.
FinWait2Expires(c) ==
  /\ conns[c].tcp = "closing"
  /\ conns' = [conns EXCEPT ![c] = FreeSlot]
  /\ UNCHANGED <<relay, cur_conn_id, program>>

-----------------------------------------------------------------------------
\* The program.

RunStarts ==
  /\ ~basic_running /\ runs < MaxRuns
  /\ basic_running' = TRUE /\ wc' = NoConnection /\ runs' = runs + 1
  /\ UNCHANGED <<conns, relay, cur_conn_id, call>>

RunEnds ==
  /\ basic_running /\ call = Idle
  /\ basic_running' = FALSE
  /\ UNCHANGED <<conns, relay, cur_conn_id, wc, call, runs>>

\* WEBCON: the network runs once, then the number is read.
httpd_basic_connection ==
  /\ basic_running /\ call = Idle
  /\ wc' = IF relay.active /\ ~relay.term THEN relay.conn_id ELSE NoConnection
  /\ UNCHANGED <<conns, relay, cur_conn_id, basic_running, call, runs>>

\* WEBOUT and WEBPST$ on any other connection return at once.
Named == relay.active /\ ~relay.term /\ wc = relay.conn_id

\* WEBOUT with a string of n bytes; last is <status> < 0.  at is how much its
\* connection was written before.
httpd_relay_html(n, last) ==
  /\ basic_running /\ call = Idle /\ Named
  /\ \E at \in 0..MaxOut :
       /\ at + n <= MaxOut /\ \A c \in Slots : conns[c].conn_id = wc => conns[c].wrote = at
       /\ IF n > 0
          THEN /\ relay' = [relay EXCEPT !.left = [i \in 1..n |-> <<wc, at + i>>]]
               /\ call' = [op |-> "out", last |-> last]
          ELSE relay' = [relay EXCEPT !.term = last] /\ UNCHANGED call
       /\ conns' = [c \in Slots |-> IF conns[c].conn_id = wc
                                    THEN [conns[c] EXCEPT !.wrote = at + n] ELSE conns[c]]
  /\ UNCHANGED <<cur_conn_id, basic_running, wc, runs>>

\* The string has been taken; the call with NULL that ends the page follows.
WeboutReturns ==
  /\ call.op = "out"
  /\ relay.left = <<>> \/ ~relay.active \/ wc # relay.conn_id
  /\ relay' = [relay EXCEPT !.term = @ \/ (call.last /\ Named)]
  /\ call' = Idle
  /\ UNCHANGED <<conns, cur_conn_id, basic_running, wc, runs>>

\* WEBPST$ with room for n characters.
httpd_get_post(n) ==
  /\ basic_running /\ call = Idle /\ Named
  /\ relay' = [relay EXCEPT !.posting = TRUE, !.room = n, !.got = <<>>]
  /\ call' = [op |-> "post", asked |-> n]
  /\ UNCHANGED <<conns, cur_conn_id, basic_running, wc, runs>>

WebpstReturns ==
  /\ call.op = "post"
  /\ ~relay.posting \/ ~relay.active \/ wc # relay.conn_id
  /\ conns' = [c \in Slots |->
                 IF conns[c].conn_id = wc /\ conns[c].posted = Unasked
                 THEN [conns[c] EXCEPT !.posted = [asked |-> call.asked, got |-> relay.got]]
                 ELSE conns[c]]
  /\ call' = Idle
  /\ UNCHANGED <<relay, cur_conn_id, basic_running, wc, runs>>

-----------------------------------------------------------------------------
Init ==
  /\ conns = [c \in Slots |-> FreeSlot]
  /\ relay = [active |-> FALSE, conn_id |-> 0, term |-> FALSE, left |-> <<>>,
              posting |-> FALSE, room |-> 0, got |-> <<>>]
  /\ cur_conn_id = 0
  /\ basic_running = FALSE /\ wc = NoConnection /\ call = Idle /\ runs = 0

Network(c) == Connect(c) \/ Request(c) \/ Segment(c) \/ Arrives(c) \/ Ends(c)
              \/ Timer(c) \/ FinWait2Expires(c)
Program == RunStarts \/ RunEnds \/ httpd_basic_connection \/ WeboutReturns \/ WebpstReturns
           \/ (\E n \in OutLens, last \in BOOLEAN : httpd_relay_html(n, last))
           \/ (\E n \in PostLens : httpd_get_post(n))
Next == Program \/ \E c \in Slots : Network(c)

\* netmainloop, which every waiting command turns, polls each connection 60
\* times a second; a command whose wait is over goes on.
Spec == Init /\ [][Next]_vars
FairSpec == Spec /\ WF_vars(WeboutReturns) /\ WF_vars(WebpstReturns)
                 /\ \A c \in Slots : WF_vars(Timer(c))

-----------------------------------------------------------------------------
TypeOK ==
  /\ conns \in [Slots -> Slot] /\ relay \in Relays
  /\ cur_conn_id \in 0..MaxConns /\ basic_running \in BOOLEAN
  /\ wc \in Ids \cup {NoConnection} /\ call \in Calls /\ runs \in 0..MaxRuns

(* The relay is held exactly while one connection has it, and it names that
   connection: httpd_basic_connection never hands out a number that nobody
   answers to.  *)
OneHolder ==
  LET holders == {c \in Slots : conns[c].special}
  IN  IF relay.active
      THEN \E c \in holders : holders = {c} /\ conns[c].conn_id = relay.conn_id
      ELSE holders = {}

(* Nothing refers to memory of a command that has returned: neither the relay
   nor a protosocket holds a pointer into WEBOUT's string, which is freed, or
   into WEBPST$'s buffer, which is resized.  *)
NothingDangles ==
  /\ relay.left # <<>> => call.op = "out"
  /\ \A c \in Slots : conns[c].output = "string" => call.op = "out" /\ conns[c].special
  /\ relay.posting => call.op = "post"

(* The browser gets the header and then what the program wrote to its
   connection, in order and each byte once, strings longer than a segment and
   windows that change included; and when the connection waits for the next
   string it has got every one before.  *)
PageAsWritten ==
  \A c \in Slots :
    LET s == conns[c]
    IN  /\ s.page = [i \in 1..Len(s.page) |-> <<s.conn_id, i - 1>>]
        /\ Len(s.page) <= s.wrote + 1
        /\ s.output = "relay" /\ call.op # "out" => Len(s.page) = s.wrote + 1

(* A form that fits inputbuf is what the first WEBPST$ on its connection
   answers, up to the length asked for, if the relay was free for the request;
   when the connection ends first the answer is empty.  *)
FormAsPosted ==
  \A c \in Slots :
    LET s == conns[c]
    IN  s.posted.asked > 0 /\ s.form <= BUF /\ ~s.waited =>
          s.posted.got \in {<<>>, [i \in 1..Least(s.form, s.posted.asked) |-> i]}

(* WEBOUT and WEBPST$ return, whether the browser answers, falls silent or
   goes away, and whether or not there is a form to be had.  *)
CommandsReturn == (call # Idle) ~> (call = Idle)

(* A request is given the relay or refused, whatever the program and the
   connection that has the relay do.  *)
RequestsAnswered ==
  \A c \in Slots : (conns[c].input = "wait") ~> (conns[c].input # "wait")

=============================================================================
