# Jumentum-SOC: specification and proofs

Jumentum-SOC is a BASIC system in one microcontroller (LPC1768 or LPC21xx): a
BASIC interpreter whose programs live in flash, a console on a serial line and
on telnet, a web server that uploads, lists, runs and stops programs and serves
pages a program writes, TCP sockets for programs, and a FAT file system on an SD
card. This directory holds TLA+ models of its control logic, the TLC
configurations that check them and proofs checked by TLAPS.

Paths below are relative to `src/Jumentum-src/`.

## 1. The system

There is one thread. `main.c` loops over a menu; a key starts an operation that
runs to its end. Two things interrupt that:

* the **network**: `netmainloop` is called wherever the console waits for a key
  (`inkey` -> `idle` -> `casualnetmainloop`), at each turn of the run loop, in
  BASIC's network commands, and by telnet output when the send FIFO is full. It
  runs uIP, which calls the application of each connection for one event at a time.
* **interrupts** of the UART, of the clock and, while a program samples, of the
  analog converter.

So the concurrency is that of coroutines: nothing is preempted by the network,
but every wait is a place where another user of the same variables runs.

### Components

| Component | State | Operations | Talks to | What is hard | What makes it correct |
|---|---|---|---|---|---|
| **Program control** (`main.c`, `httpd.c`, `httpd-cgi.c`) | `program_space`, its reader/writer, `basic_running`, `run_basic`, `pause_basic`, `cur_flash_bank_number`, `script`; per connection the protothreads and `is_special_server` | menu keys P E K L O S B R, run loop; `/prg`, `/cnf`, list, configuration, run, stop, pause, bank and reset pages; ends of connections | every console wait runs the web server | check and use are separated by waits; a page decides before it is sent and acts after the ACK; the peer may vanish at any step; nothing is locked but by one pointer | only the holder frees the space; a program does not run while it is changed; banks do not change under a user; the space is always given back; a stop is honoured |
| **Flash writer** (`lpc1700/iap.c`, `lpc1700/flashbanks.c`) | page buffer, write address, last erased sector, flash | `initiapaddbuf`, `addchar`, the IAP commands | fed by the tokenizer | uploads longer than the area, a partial last page, IAP errors that do not stop the upload | other areas keep their contents; an upload without an error is stored |
| **Tokenizer and line buffer** (`main.c` `retokenize`, `doprogram`; `basic.c` `tokenizeline`, `untokenizecode`) | line buffer, quote and word state between calls, XOFF | a character, a pause, the end | console, upload, file, editor in; `addchar` out | where the buffer is cut; XON/XOFF thresholds | cuts do not show; a listing is the text; the loop cannot wedge |
| **BASIC sockets** (`uip/apps/socket/socket.c`) | per slot: receive FIFO, pending write, stop flag, `magic`, `connected`, `accepted`; `acceptlen` | SCACEPT, SCCON, SCREAD$, SCWRITE, SCCLOSE, end of a program; `socket_appcall` | program on one side, uIP events on the other | flow control with `uip_stop`, retransmission, slots reused, connections freed without a call | bytes neither lost, repeated nor reordered; a stopped peer is restarted; writes return |
| **Web relay** (`httpd.c`, /bas requests) | `basic_state`, `basic_state_data`, POST buffer | WEBCON, WEBOUT, WEBPST$ of a program against a browser's request | program and one connection | the program replaces data a connection still sends; the connection ends in between | a page gets what the program wrote for it, once |
| **Telnet console** (`uip/apps/telnetd/telnetd.c`) | send ring with three pointers, receive ring, login state | console output, `telnetd_appcall`, a second session | console, program control (output runs the network) | pointers stepped back for retransmission across the end of the ring; waits inside output | output arrives once and in order; output never waits for ever |
| **Serial console** (`lpc1700/serial.c`) | the UART's FIFO, receive ring | UART interrupt, `getkey_serial0`, SERINIT | console | an interrupt between any two accesses; none while flash is written | keys arrive in order, a full ring loses only the newest |
| **BASIC interpreter** (`basic.c`) | control stacks, error registers, variables and arrays, strings, open files, the line being typed | statements, functions | every device | GOTO and ONERROR out of nested blocks, stacks at their limit, an INPUT given up half way; addresses held while an expression is evaluated, malloc failing inside one | a RETURN, NEXT or UNTIL finds the frame that belongs to it; INPUT stores what was typed; every string has one owner and is a value |
| **uIP: TCP** (`uip/uip/uip.c`) | per connection: state, sequence numbers, bytes under way, timer | `uip_process` for a segment or a tick, `uip_connect`; calls the application | every network application | lost, repeated, delayed and reordered segments; FINs that cross; a FIN or reset while data is under way | both streams arrive in order and once; the application is called in the order it is written for; nothing waits for ever |
| **Screen editor** (`editor.c`) | text buffer | keys | the program space, as a console user | - | covered as a console user of program control |
| **Network main loop and configuration** (`net.c`) | timers, addresses | `netmainloop` | uIP | when it runs | enters the models above as "the network runs" |
| The rest of uIP, ARP, DHCP, resolver; FAT file system and SD card; heap; mail and web client; board support; other ports; number and string library, ROM images, flash programmer, USB | - | - | - | - | vendored, sample or register-level code: see section 6 |

`PROJECT.json` lists, under `hazards`, each thing in this code that is hard to
test, at its line, with the properties that would catch it.

## 2. Modules

| Module | What it is | Lines it models |
|---|---|---|
| `ProgramStore` | abstract: idle, running, or in one user's hands | the promise of `../Introduction.md:71` |
| `ProgramControl` | program control in full | `main.c`, `httpd.c`, `httpd-cgi.c` |
| `ProgramControlProofs` | its theorems | |
| `FlashWriter` | an upload on its way to flash | `lpc1700/iap.c`, `lpc1700/flashbanks.c` |
| `Retoken` | text on its way to tokens and back | `main.c`, `basic.c` |
| `SerialRing` | the receive queue of a serial port | `lpc1700/serial.c` |
| `SerialProgram` | composes the two: a program sent over the line to P of the menu | `main.c` `doprogram` |
| `UploadProofs` | theorems about an upload: `SerialRing`, `FlashWriter`, `Retoken`, `SerialProgram` | |
| `SocketApp` | the sockets of BASIC programs | `uip/apps/socket/socket.c` |
| `SocketAppProofs` | its theorems | |
| `TelnetSession` | the console on telnet | `uip/apps/telnetd/telnetd.c` |
| `TelnetSessionProofs` | its theorems | |
| `WebRelay` | pages written by a running program | `uip/apps/webserver/httpd.c`, `basic.c` |
| `WebRelayProofs` | its theorems | |
| `UipEvents` | abstract: what an application may rely on when uIP calls it | the promise of `uip/uip/uip.h` |
| `UipTcp` | one TCP connection of uIP | `uip/uip/uip.c` |
| `UipTcpProofs` | its theorems | |
| `BasicControl` | the control of a running program | `basic.c` |
| `BasicControlProofs` | its theorems | |
| `BasicVariables` | abstract: which strings a step may change | |
| `BasicMemory` | tables, strings and buffers of a running program | `basic.c` |
| `BasicMemoryProofs` | its theorems | |
| `MC...` | constants of the TLC runs | |

Operators whose names begin with `Faulty` are used by no specification: each is
a plausible bug of the definition it stands next to, and `PROJECT.json`
(`mutants`) names the property that breaks when it takes that definition's place.

### ProgramControl

A control point of the console (`console`) is a place where `main.c` may be
waiting, and an action is the code between two of them. The action of a
connection is one call of `httpd_appcall`.

| Model | Code |
|---|---|
| `program_space` | the pointer: who it was allocated for, or `NoOwner` for NULL |
| `area` | what the space's reader or writer was aimed at by `initretoken` or `inituntoken`: a bank, the configuration space, nothing yet |
| `script` | the bank `script` and `endscript` point into |
| `console = "held"` | P, E, K, L, O or S at work; `"prompt"` is L, O, S between the allocation and the aim |
| `console = "starting"`, `"refused"`, `"ended"` | inside the writes of `main.c` around a run: the network runs here only if output can run it (`OutputYields`) |
| `console = "running"`, `"statement"` | the top of the run loop, where `netmainloop` is called, and inside a statement |
| `tcp[c]` | uIP's state of a connection; `"closing"` is our FIN sent and not answered |
| `step[c]` | where the protothreads of `httpd.c` wait: a page name is data outstanding before the script function decides, `granted_x` the wait between the decision and the flag |
| `special[c]` | `is_special_server`: `"prg"` an upload, `"untok"` a listing |
| `OutputYields` | a telnet session is attached, so a console write runs the network when the session's FIFO is nearly full (`telnetd_addsendfifo`) |
| `Reboot` | `force_reboot`, from the menu or the reset page: RAM is lost, the bank is taken from the configuration again |

A failing malloc is the refusal of an allocation, always possible. Left out are
the bytes of programs and pages, /bas requests (they never touch this state) and
requests pipelined on one connection.

`ProgramStore` is what a user may rely on; `Store` in `ProgramControl` maps the
pointer and the flag to it: held by the owner of `program_space`, else running
if `basic_running`, else idle.

### FlashWriter

`AddByte` is `addchar(c)`, `AddLast` is `addchar(-1)`, `initiapaddbuf` starts an
upload, also after one that was abandoned. Addresses count pages. A byte of
flash names the upload and position it came from, so that a stale byte is
visible; programming over an unerased byte gives `Mixed`. The IAP commands
return the set of devices they may leave: prepared sectors are locked again by
each erase and write, and up to `MaxFaults` commands fail for reasons of the
hardware. `doiap` prints such a failure (`reported`) and the upload goes on, as
in the code. The flash table is a constant (`SectorEnd`), the areas are
`Areas`; the named assumption `SeparateAssumption` - no two areas share a
sector - is what `flashbanks.c` provides.

### Retoken

`Store`, `StoreHalf` and `StoreRest` are `retokenize` with a character, with -2
and with -1; `Input`, `InputEnds` and `Pause` are the callers, P's loop of
`doprogram` when `autostore` is false. `Turn` is one turn of the C loop of
`tokenizeline`, on a buffer that may be read beyond the part to be tokenized
(`Stale` is what lies there), and `tokenizeline` a recursive function of the number of
turns; a turn moves on by a character at least, so that as many turns as there are
characters are enough. Characters are classes: two letters, a space, the quote, a
newline; keywords are one that must be a whole word and one that need not.

### SerialRing and SerialProgram

`getkey_serial0` is two accesses after its test: `Fetch` reads the character and
`Advance` moves `extract_idx`, in either order, since neither is volatile and the
compiler may swap them; the last of the two is `Return`. `Interrupt` is one turn
of the handler's loop and may come between any two of them; `Reinit` is SERINIT
of a program. `accepted` and `taken` are history.

`SerialProgram` puts this queue under the loop of `doprogram`: `Poll` and
`KeyInput` are `inkey`, `KeyInput` is also the rest of the turn (`Input` or
`InputEnds` of `Retoken` and the XOFF of the next turn), `StartStore` to
`EndStore` is `retokenize(-2)`, in which the IAP commands keep the interrupt off.
The sender is external: it hears the signals late and sends up to `Lag`
characters after an XOFF. Two assumptions about time are guards with a name:
`KeepsUp` (while keys are polled the handler has run, and the ring has room, when
the next character comes) and `Settled` (a pause of 300000 polls is longer than
the sender needs to hear an XOFF). Every step is one of `Retoken` or leaves its
variables alone. Left out is a key from telnet, which `inkey` asks after the ring.

### SocketApp

`socket_appcall` is the C function, statement group by statement group in its
order (`Opened`, `Polled`, `Sent`, `Received`, `Resumed`, `Ended`, `Closing`);
the commands are one action each, or one for the start and one for each turn of
a wait. uIP and the peer are external: an event is what uIP's source lets reach
the application - data and FIN only when not stopped, at most one segment
outstanding, a periodic call that polls, retransmits or gives up, and the silent
end of FIN_WAIT_2. LAST_ACK, CLOSING and TIME_WAIT are folded into `"closed"`
and `"closing"`: uIP calls the application once more at their end, but then
`magic` is clear and `socket_appcall` does nothing.

Received bytes are numbered over all connections of a slot, written bytes anew
on each, so loss, repetition and reordering show. `delivered`, `lastread`,
`got`, `wrote` and `carried` are history: what uIP took over from the peer, the
last byte the program read, what the peer has, what the program wrote, and how
many bytes of an earlier connection a slot still held when a new one opened. The
read timeout is left out: `socket_read` tests `recvtimeout != 0`, which is never
false, before it counts, and so a read never times out.

### TelnetSession

| Model | Code |
|---|---|
| `sendfifo`, `recvfifo` | `struct telnetfifo` with `fifohead`, `fifotail` and `fifoaheadtail`, moved modulo `FIFOSIZE` as in the C |
| `conn[c]` | uIP's state of a connection and its `telnetd_state` |
| `connected`, `authenticated` | the statics of `telnetd.c` |
| `"lastack"`, `"timewait"` | after the peer's FIN: uIP calls the application a second time when the connection is over, and that call clears `connected`, a new session's too |
| `telnetd_appcall` | the C function, statement group by statement group in its order (`w1` to `w4`, then `senddata`); `flags` is `uip_flags`, which `uip_close` and `uip_abort` replace, so that the tests after them read what the C reads |
| `Text` | the lengths of option replies, the prompt and "accepted", which telnetd puts into the same ring |
| `Segments` | what a peer sends, by the classes of byte `newdata` tells apart |
| `console = "waiting"` | the loop in `telnetd_addsendfifo`. `netmainloop` takes one packet or serves the timers in a call, and the loop looks at its condition after each: no event happens once the wait is over (`NetRuns`) |

Bytes are numbered as they are offered to a ring, so a byte dropped, repeated or
out of order shows. `first`, `got`, `options` and `intruded` are history: the
number before a session's first byte, what its peer has, how many bytes of option
replies and prompts it was sent, and whether the last connection made found
`connected` set. Left out are `TELNETFIFOFLOW`, which is not defined,
`STATE_CLOSE`, which is never set, and console output made from inside the
network (the messages of `doiap` during an upload), which would nest
`netmainloop` in itself.

### WebRelay

| Model | Code |
|---|---|
| `relay` | `basic_state_active`, `_conn_id`, `_terminate`, `_data`, `_post_data` and what surrounds them |
| `conns[c]` | uIP's state of a connection, its protosocket and its `httpd_state`; `input` and `output` are where its two protothreads wait |
| `wc` | the number WEBCON gave the program, which it may keep past the end of the connection |
| `call` | the command that turns `netmainloop` until the connection has taken its string, or filled its buffer |
| `httpd_appcall` | both protothreads, then polls and ends, in the order of the C |

A string is the list of its bytes, each with the connection it was written for,
so that a page shows bytes of another. A form is its bytes in segments of any
cut. The browser takes a segment, acknowledges it with any window, falls silent
or goes. Bytes left in a string that WEBOUT has freed would be `Junk`.

### UipTcp and UipEvents

One action is one call of `uip_process`: a segment (`Arrives`, `found_listen`,
`Reset`), or a tick of the periodic timer (`Retransmits`, `Polls`,
`WaitExpires`); and `uip_connect`. `found`, `Answered`, `appsend` and the rest
are the labels of the C and the stretches between them; `UIP_APPCALL` is one call
of the application, which is *any* application that keeps to the manual in
`uip.h`: it sends when nothing of its own is under way, sends the same again when
asked, and stops, restarts, closes or aborts as it likes.

The network loses, repeats, delays and reorders. Any segment the peer has had
reason to send may arrive at any later time, any number of times, so no queue is
kept; what uIP sends stays in `sent` for ever. Sequence numbers are positions in
a stream modulo `W`. `hasty` is history: the application closed with bytes of its
own under way, after which uIP's FIN takes their number. Left out are windows,
urgent data, the estimate of the round trip (so a tick may retransmit whenever
bytes are under way), the choice of a slot, a second connection, and that the
initial sequence number grows.

`UipEvents` is what `SocketApp`, `TelnetSession` and `WebRelay` take from uIP,
stated as a specification of its own: the phases of a connection, which events
come in each, what an acknowledgement is of, which bytes are heard. Its variables
are functions of `conn` and `app`.

### BasicControl

One action is one call of `mainloop`: the statement at `curoffset` and what
follows it - going where it said, a trapped error, the end. A program is a
sequence of statements, one a line; an offset is a line, `Len(program) + 1` the
NUL. An expression is its value, left open where no loop depends on it, and its
error. LET, `x = INPLEN(n)`, `x = ERR(n)`, FOR, NEXT and DOLINE assign numbers.
`Doline` runs its inner line, which may assign too and in which the statements of
control, another DOLINE among them, are a syntax error, and then assigns the
number of the error. `InputKey` is one call of
`input_handler` with a key; INPUT runs again from its beginning for every key, as
in the C, and is of a string: INPUT of a number is left out. `typed` is history.

### BasicMemory and BasicVariables

The interpreter evaluates while it parses, so the C stack holds strings between
any two allocations. `stack` is that C stack: a frame for each statement or
function that waits for a part of its expression, with the strings it holds; the
next token is left open, so that every expression that fits into `MaxDepth` frames
is met. One action is the code between two such points.

| Model | Code |
|---|---|
| `heap` | the blocks in use and what each holds; `malloc` and `realloc` may fail, move or stay, and hand out a freed block that something still points to |
| `variables`, `vartable`, `dimvariables`, `dimtable` | `Svariables` and `Sdimvariables`, their contents and the blocks they are in |
| `f.at`, `f.old` | the address and the old string a statement took before it evaluated |
| `"$"`, `"#"` | a function that answers with a string or a number; which one is decided when it has its strings |
| `outcome = "wild"` | after `DIM A$(0)="x"`, which writes past a block of no size, and after an assignment to a string name of more than 7 characters (`longname`): `getid` goes on with 7, without the `$`, `lvalue` takes a number's cell for a string, and LET frees the number; nothing is claimed from there |
| `lost` | history: the strings SEROUT and SERBNG leave behind after an error |

`BasicVariables` knows no memory: a string is a value, and a step changes at most
the variable or element the statement under way names, or the size of one array,
which keeps what fits. It says which strings may change and not what to: that the
named one gets the value of the expression is not stated. Elements of numeric arrays and numbers are left out.

## 3. What is checked

| Run | Question | Bounds | Result |
|---|---|---|---|
| `yields` | in the least protected mode (telnet attached, password set): does anybody free or re-aim what another holds, does a bank change under a user or a run? | 2 connections, 2 banks, 1 reset | holds, 162,896 states |
| `quiet` | without telnet and password: does the firmware implement `ProgramStore`, does every page give the space back, is every stop honoured? | the same | holds, 89,048 states |
| `exclusion` | the same promise with telnet attached | 1 bank, no reset | violated: finding 1 |
| `flash` | is an upload that reported no error in flash, and every other area untouched? | 2 uploads of up to 11 bytes, pages of 2, a bank of two sectors, one of one, a configuration of half a sector, 1 failing command | holds |
| `retoken` | does it show where the line buffer was cut; is every character of a sender in the listing, once; can P's loop wedge? | all texts of up to 7 characters uploaded, of up to 8 (3 different ones) typed; buffer 9, threshold 5, half 2; ring 3, FIFO 1, 1 character after XOFF | holds, 4,453,435 states |
| `sockets` | are bytes kept, in order and once, is a stopped peer resumed, does a write return? | 1 slot, 2 connections and one program end, 4 bytes in, 3 out, uip_buf 3, segment 2, 1 retransmission | holds, 219,122 states |
| `telnet` | does a session get the console's output once, in order and complete, wherever its ring wraps; are keys kept while there is room; does output return? | 1 connection at a time, 2 of them, ring 6, threshold 1, segment 2, 1 retransmission, 5 bytes out, 3 segments in | holds, 89,829 states |
| `telnet_second` | does the session mirror the console when another connection is made? | 2 connections, 2 bytes out | violated: finding 2 |
| `relay` | does a browser get the program's page and the program its form; does anything point into memory of a command that returned; do commands and requests come to an end? | 2 slots, 2 connections, segments of 2 and windows of 1 or 2, 3 bytes out, forms of 0 or 2 bytes, buffer of 2, 1 retransmission, no password | holds, 302,886 states |
| `tcp` | are both streams whole and in order, is the application called as `UipEvents` says, does everything settle? | numbers modulo 8 from 6 and 5, segments of 2, 2 retransmissions (1 of a SYN), 3 bytes in, 5 out | holds, 23,984 states |
| `basic` | does control stay with the text: frames, blocks, DOLINE, INPUT, the end of loops? | every program of 3 lines over 17 statements, of 4 over their core of 12, 14 longer ones; stacks of 2, numbers -4 to 3, input of 2 characters, 3 keys | holds, 526,208 states |
| `memory` | is every block owned once, does an address outlive an expression, does a step change only the string it names? | 5 blocks, 3 variables in chunks of 2, 1 array of up to 2 strings, 1 file, 2 frames (3 in a DOLINE) | holds, 299,991 states |

**ProgramControl.** `Ownership`: whoever believes it holds the space is the one
it was allocated to. This is what would fail if a cleanup, an abort, or a close
of a connection that was refused or has finished freed the pointer.
`AreaIsSelected` and `RunningScriptStable`: the bank somebody edits or executes
stays selected. `Exclusion`: no program runs while the space is held.
`SpaceReturned`: a connection that holds the space gives it up, whatever its
peer does. `StopHonoured`: once `run_basic` is cleared in a run, the run ends,
paused or not, unless a new run is asked for. One connection can hold the space,
one be refused or act on a flag: a third would only repeat the second's part,
since nothing counts connections. Two banks are enough to tell the selected one
from another; more differ by name only, and the proofs hold for any number.

**FlashWriter.** `Stored` and `OthersKept` meet every boundary: a page full and
half full, the end of a sector in the middle of an area, the last page of an
area and the bytes beyond it, an area that ends inside a sector. The second
upload finds what the first left.

**Retoken, SerialProgram.** `CutsDoNotShow` compares what reaches flash with the
tokens of the whole text in one piece; `ListsAsSent` lists it and compares with
what was uploaded or sent over the line: whenever the queue is empty, what was
sent has been read, all of it. The constants keep the relation the code's have (a
keyword is shorter than threshold minus half, half a buffer does not pass the
threshold), which `BufferAssumption` states; `TokenAssumption` says that a token is no
character and belongs to one keyword; a
text of seven characters holds two cuts. `SenderAssumption` says how late a sender
may stop: what is in the ring when XOFF goes out, and `Lag` characters more, fit
into the rest of the line buffer and the FIFO. With the code's sizes (512, 272,
128, 16) that is 127 characters. The bound is met exactly in the run, and with one
character more, which the assumption forbids, TLC finds one lost.

**SocketApp.** `NothingLost`, claimed for a connection that did not inherit the
bytes of the one before (`carried`), and for buffers above one packet: a FIFO at least as big as uip_buf holds exactly
the bytes accepted and unread - `uip_stop` comes in time for the packet that
makes it necessary. `Written`: what the peer has got is a prefix of what was
written, and all of it when no write is pending. `Flows` and `WriteReturns` are
liveness. One slot is modelled: slots share only `acceptlen` and the search of
SCACEPT and SCCON for a slot. Buffers hold one byte more than uip_buf, the
smallest size for which `Flows` is to hold. Deadlock is not checked in this
module: a read on a slot uIP has freed silently does wait for ever.

**TelnetSession.** `MirrorsAlone`: the peer has a prefix of what was put into the
ring, and all of it once the ring is empty - so `senddata` steps back by exactly
what `acked` has not moved past, across the end of the ring too, and the
threshold leaves room for a newline. It is claimed only while option replies fit
into what the threshold keeps free (`Spare`; 61 bytes in the code, 2 here): with
more of them output is dropped, which is a hazard of the code and no broken
promise. `RoomForKeys`: the second tail, which nobody reads in the receive ring,
never makes it full early. Seven bytes out go once round a ring of six places,
and two segments of keys overfill one of five usable places. A second connection
at the same time only matters for `Mirrors`, which fails with it (finding 2), so the passing
run has one. Deadlock is not checked: a free console at its bound, with no
connection, stops.

**WebRelay.** `OneHolder`: WEBCON never names a connection that is not there,
and two never hold the relay. `NothingDangles`: neither the relay nor a
protosocket points into a string or buffer whose command has returned. Two slots
are the holder and one that waits, is refused, or takes over. A string of two
bytes is one segment or, at a window of one, two; a form comes in up to three.
Deadlock is not checked: when the bounds are used up, nothing happens.

**UipTcp.** `StreamIn` and `StreamOut` are the two streams. What uIP acknowledges
is what the application heard while the connection is established, and when it
answers the FIN; after a close by the application uIP acknowledges data and
throws them away. `Contract` is the order of the calls, `Settles` the answer to every SYN, segment and FIN. Both streams
wrap around `W` in the run. `StreamOut` promises the end of the stream only when
the application did not close with bytes under way.

**BasicControl.** Errors, ONERROR and jumps may leave a block at any line and
come back at any other; `FramesFollowTheirStatements` says a frame still leads
behind a statement of its kind, and `FramesAreBlocks` that without jumps the
stacks are exactly the blocks written around the line. `InputIsAsTyped` and
`InputStoresTheLine`: nothing of an INPUT that failed or was stopped shows in the
next. Counters wrap at both ends in some of the programs. `Finite`, under which
`LoopsEnd` is claimed, excludes a step of 0, a limit whose overrun is no number,
and every other assignment of the counter - by LET, INPLEN, ERR, by the answer of
DOLINE or by the line it runs: those loops need not end in the code either
(`FOR I=0 TO 1 : DOLINE "..",I : NEXT I` never does).

**BasicMemory.** `OneOwner` is memory safety: no leak, no second free and no
pointer to what was freed, whatever fails on the way. It is exact - the places
that hold a pointer and the blocks in use are the same - with three exceptions.
The strings SEROUT and SERBNG leave behind after an error are counted in `lost`.
While a DIM evaluates an initialiser, the element it is for - never more than one -
points to a string already freed (basic.c:1634), and `DIM A$(2)=A$(1)` or the
variables page may read it; in the model such a read finds anything. And nothing is claimed of a run
that is `"wild"`. `AddressesHold` is the rule on which LET, MID$, INPUT and DIM rely: no
expression adds a variable. Five blocks are both tables, an array, its element and
one string more, so memory runs out at every place. One array and three names in chunks of two move a table, insert
in front of an entry a statement could hold, and use a chunk to its end. One text
is enough: which string stands where shows in the pointers. States that differ
only in which block is which are one (`View`); the property does not name blocks.
Deadlock is not checked: `"wild"` is an end.

The type invariants of `ProgramControl`, `FlashWriter` and `BasicControl` are
proved, and not repeated by a run; those of the other modules document the
state.

### Fairness

* `ProgramControl` (`FairSpec`): weak fairness of the console's writes and of
  the run loop - the single thread goes on; a statement of a program is assumed
  to end, so `StopHonoured` says nothing of a statement that does not. Strong
  fairness of each connection's `Serve \/ PeerGone \/ TimerAbort`: the network
  does not run during the console's writes, but between two of them the console
  is in `inkey`, whose `idle` calls `casualnetmainloop` whenever no key is waiting
  (we assume that a user does not type without ever a pause); every connection
  with data outstanding is acknowledged, retransmitted and at last given up by
  uIP, and one that waits for its peer is ended by the 1500 polls of
  `httpd_appcall`. No fairness for what a peer or a user chooses to do.
* `SocketApp`: weak fairness of the periodic `Timer` of each connection, since
  every waiting command turns `netmainloop`, and of the return of a write whose
  wait is over. None for the peer, for acknowledgements or for reads.
* `TelnetSession`: weak fairness of each connection's `Timer` and of the end of
  the output wait, whose loop turns `netmainloop`. None for the peer: a silent
  one is given up after the retransmissions. What a peer sends is bounded by
  `MaxIn`, so `OutputReturns` says nothing of one that keeps the ring from ever
  being empty with an unending stream of option requests.
* `WebRelay`: weak fairness of each slot's `Timer` and of the return of WEBOUT
  and WEBPST$ once their wait is over: both turn `netmainloop`. None for the
  browser.
* `UipTcp`: weak fairness of `Retransmits` and `WaitExpires`, the periodic timer.
  `net.c:259,293` serves it in a call of `netmainloop` that finds no frame, so we
  assume the wire is not busy for ever; `MaxIn` being finite matters, since each
  acknowledgement counts the retransmissions anew (`uip.c:1799`).
* `BasicControl`: weak fairness of `mainloop`, which the run loop of `main.c` calls
  again and again.

### Findings

1. **A program runs while it is being changed** (`exclusion`, `main.c:885-892`).
   The console checks `program_space`, writes "Start program", and only then
   sets `basic_running`. With a telnet session attached the write runs the
   network when the session's FIFO is nearly full; an upload takes the space in
   between and rewrites the bank the interpreter executes.
   `../Introduction.md:71`: "the program can not be changed".
2. **A second telnet connection disturbs the session** (`telnet_second`,
   `telnetd.c:352-357`): before it is aborted it empties both rings and resets
   the login of the open session. What was not sent is lost, a retransmission
   steps back into the emptied ring, and the next acknowledgement moves
   `fifotail` past `fifohead`. `../Introduction.md:24`: "The TELNET connection
   and serial port mirror each other".

Other places where the code is weaker than its text are hazards in
`PROJECT.json`, and the properties are stated so as to exclude them: a socket
buffer of one packet stops for ever (`socket.c:107-108`,
`../basic-commands.md:479` allows it), a socket inherits the bytes of the one
before (`socket.c:105`), SCACEPT returns a connection that is gone
(`socket.c:260`), a request refused with 401 keeps the relay
(`httpd.c:437-443`), the search of FOR for its NEXT clears an error
(`basic.c:1795`, `../basic-commands.md:221`).

## 4. What is proved

TLAPS checks these for every value of the constants (any number of connections,
banks, resets, bytes, areas; any flash table), from the named assumptions of the
modules only. All are safety properties.

| Theorem | Says |
|---|---|
| `ProgramControlProofs!TypeCorrect` | `TypeOK`; the selected bank exists even if a URL or the configuration names another |
| `OwnershipSafe` | `Ownership`, in every mode |
| `AreaSafe`, `ScriptSafe` | `AreaIsSelected`, `RunningScriptStable`, in every mode |
| `ExclusionQuiet` | `Exclusion` when output does not run the network |
| `RefinementQuiet` | `ProgramControl` implements `ProgramStore` in the same mode |
| `UploadProofs!TypeCorrect` | `FlashTypeOK`; the write address stays in its area |
| `OthersSafe` | `OthersKept`, for uploads of any length and any failures |
| `StoredSafe` | `Stored`, for uploads of any length, whatever was there before |
| `SpecQueue` | the receive ring is a queue (`Queue`), for every size and wherever the interrupt falls |
| `TextTypeOK` | `TypeOK` of `Retoken`: flash receives characters and tokens, never what malloc left in the line buffer |
| `OnePiece` | `CutsDoNotShow`, for every text, keyword table and size of the line buffer |
| `Unwedged` | `NeverStuck`: P's loop refuses keys only of a sender that was told to stop |
| `ProgramIsRetoken`, `ProgramIsRing` | `SerialProgram` implements `Retoken` and `SerialRing` |
| `NothingLostOnTheLine` | `ListsAsSent`: nothing is lost between the sender and the listing, for every ring, FIFO and delay of the sender |
| `SocketAppProofs!SpecTypeOK` | `TypeOK`; a waiting read still wants a byte, a part sent fits a segment |
| `SpecNothingLost` | `NothingLost`, for every buffer at least as big as `uip_buf` |
| `SpecWritten` | `Written`, whatever is retransmitted, partly acknowledged or given up |
| `UipTcpProofs!SpecInv` | the inductive invariant `Inv` of a connection |
| `SpecStreamIn` | `StreamIn`: the application has got what the peer sent, in order and once, and while established that is what was acknowledged, whatever the network does |
| `SpecContract` | `UipTcp` implements `UipEvents`: the calls come in the order applications are written for |
| `SpecOutInv` | the inductive invariant `OutInv` of what is sent |
| `SpecStreamOut` | `StreamOut`: the peer gets what the application sent, in order and once, whatever is lost, repeated or late |
| `TelnetSessionProofs!SpecTypeOK` | `TypeOK`; the three pointers of a ring stay inside it |
| `SpecMirrorsAlone` | `MirrorsAlone`, for every ring, segment and loss |
| `SpecRoomForKeys` | `RoomForKeys`: only a full ring loses a key, whoever connects |
| `WebRelayProofs!SpecTypeOK` | `TypeOK`, for every length of strings, forms and windows |
| `SpecNothingDangles` | `NothingDangles`: nobody refers to memory of a command that has returned |
| `SpecPageAsWritten` | `PageAsWritten`: the browser gets what the program wrote, in order and once |
| `SpecOneHolder` | `OneHolder` when no password is set |
| `SpecFormAsPosted` | `FormAsPosted`: a short form reaches the first WEBPST$ whole or not at all |
| `BasicControlProofs!SpecTypeOK` | `TypeOK`; no stack passes its limit |
| `SpecFrames` | `FramesFollowTheirStatements`, for every program, with jumps and ONERROR |
| `SpecNoStrayLine` | `mainloop` never reaches "line not found from" |
| `SpecDoline` | a line run by DOLINE changes no stack, no ONERROR label and no jump |
| `SpecInput`, `SpecStores` | `InputIsAsTyped`, `InputStoresTheLine`, for every program and every key |
| `SpecBlocks` | `FramesAreBlocks`, for programs of blocks of any size and depth |
| `BasicMemoryProofs!BlocksHaveOneOwner` | `OneOwner`: for any names, arrays, depth of calls and number of blocks, whatever fails on the way, with the exceptions of section 3 |
| `AddressesStayGood` | `AddressesHold`: an address taken before an expression is good after it |
| `TablesStaySorted` | `TablesHold`: `findvariable` finds what is there, and a table fits its block |
| `StringsAreValues` | `Values`: `BasicMemory` implements `BasicVariables`: a step changes no string but the one its statement names |

* **Ownership** is inductive with `TypeOK`. The step that matters is
  `cleanup_special_state`: it frees only for a connection that holds, and then
  no other owner holds, because the pointer has one value (`CleanupOwnership`).
* **AreaSafe** and **ScriptSafe** follow from one fact about every step
  (`SpaceStep`): a step that changes `script` starts with the space free and no
  program running, or is a reset; a step that takes or aims the space aims it at
  `script` or at the configuration.
* **Exclusion** is not inductive: nothing in it excludes an upload between the
  check and the flag. `QuietInv` adds that from `"starting"` to the end of the
  run the space is free, which holds since the network does not run in
  `"starting"` (`~OutputYields`) and refuses the space once `basic_running` is
  set, and that `basic_running` is set exactly while the console is in the run
  loop (`"running"`, `"statement"`, `"finished"`). `NetStep` says what a connection's step may do to this, once for all of
  them. With a telnet session the strengthening fails, which is finding 1.
* **Refinement**: `AllocateAcquires`, `DeallocateReleases`, `SelectSelects` and
  `RebootResets` map the shared operations to the abstract ones; each action is
  then one of them or a stutter, under `QuietInv`.
* **Flash**: `PrepareKeeps`, `EraseKeeps` and `WriteKeeps` bound what an IAP
  command does to pages outside its sector, `FlushKeeps` composes them for a
  page, and `SeparateAssumption` turns "outside the sector" into "outside the area".
  `Stored` rests on `Adding(f)`: after f flushes the next goes to page f of the area,
  the buffer holds the bytes since, every page flushed (but a last one written twice)
  holds what was sent, and the pages ahead in the current sector are erased. A sector
  is an interval of pages (`SectorsAreIntervals`), so that erasing a new one cannot
  reach a page already written, and a page is erased before it is written.
* **Sockets of BASIC**: neither claim is inductive. `Inv` adds, for each slot, how
  uIP's connection and `socket_state` fit (`Link`: a connection that is open has
  been announced to the application, one asked for has sent nothing); that a FIFO
  either has `UIP_BUFSIZE` bytes free, is empty, or has stopped the connection
  (`RxGood`), so that the next segment fits; that what is left in `senddata` is
  the end of what was written and the peer has all before it, plus the part under
  way if that has arrived (`Pending`); and that a string not yet sent is still
  waited for (`Waits`), so that the next SCWRITE finds nothing to overwrite. One
  lemma for each stage of `socket_appcall` says what it does to these; `Called`
  composes them, and each event and command is one case.
* **Streams and calls of uIP**: `Inv` says what kinds of peer there are, that nothing
  was heard or called before the one connection, and `Good`: connection and
  application fit each other (what is under way is what the application waits
  for; a connection that can receive has an application that can be told).
  `NextStretch` and `StretchHeard` show that a segment in sequence carries just the
  next positions of the stream, modulo `W`; then one lemma for each label of
  `uip_process` says that it keeps `Good`, and that the calls it makes are steps of
  `UipEvents`. The theorems are one case for each action.
* **The stream out**: `OutInv` says where the connection stands (`Place`: `snd_nxt`
  is the position after what is acknowledged), that every segment ever sent is the
  SYN, the FIN after what was acknowledged, or data that is either wholly
  acknowledged or all that is under way (`OfStream`), and that the peer has what is
  acknowledged and perhaps what is under way, or a FIN in its place (`Received`).
  So one segment only fits the position the peer waits for, and an acknowledgement
  that counts means that the peer has everything (`AckMeans`, `AckWhole`). `Ended`
  covers an application that closes with bytes under way.
* **The console on telnet**: the ring is a window on all that was ever offered to it.
  `Ordered` says that the second tail lies between the tail and the head, `Holds`
  that the places from the tail on are the last bytes offered, none missing, and
  `Session` that what is under way is the oldest of them and that the peer has
  exactly what came before, and the segment under way once it has arrived. Nothing
  is dropped because the ring never passes `FIFOACTIONTHRESHOLD` by more than two
  characters and the answers to options, and `Spare` is the room above; the console
  waits until the ring is back at the threshold before it writes again.
  `OneSession` is what `connected` gives as long as nobody else connects. The rings
  of the code are arithmetic modulo `FIFOSIZE`, and the four lemmas at the top
  (`Distance`, `Onward`, `Backward`, `ModIsSlot`) turn it into comparisons. Loops
  over a string or a segment are recursive functions: `Turns` carries a property of
  each turn to the end by the smallest turn that would break it.
* **The relay**: neither property is inductive. `Inv` lays out a page as a stretch
  of bytes (`Stretch`): the browser has it from byte 0, what is under way begins
  where the acknowledged part ends (`Base`), and what is left in the relay runs from
  there to what the program wrote (`LeftOK`), for the connection that has the
  relay and no other (`Owner`). `RequestIn` ties the two protothreads of a
  connection together - who waits for the relay has sent nothing, who has been
  refused has no form to read - and `RelayOK` says that a pointer in the relay
  belongs to the command under way on that connection. Then a string in
  `psock_send` means that something is left, so that the command still waits; and a
  connection at `PT_WAIT_THREAD` between commands has had everything. A call is
  taken apart at its stages (`Going`: under way, `Done`: over, `Aborting`: handled
  although a timeout has given it up), one lemma for each: `Admit`, the loop of
  `handle_input`, `psock_send`, `send_basic_packet`, the timer, what uIP does
  afterwards. `Frame` says what such a call may not do to another connection's
  relay, and `CalledInv` puts the stages together. `OneHolder` needs that a
  connection never closes with the relay held; with a password set a 401 does, and
  the theorem assumes `~PasswordSet`. The others hold with a password too.
* **The form**: `FormInv` rests on `Inv` and follows a form that fits `inputbuf`, of
  a request that did not wait for the relay. As long as some of it is missing,
  `inputbuf` holds all that came and the protosocket is blocked with nothing unread
  (`ReadOK`), so that no byte of an earlier segment is read from `uip_buf` when it
  is too late; one chunk is then the whole form, and one copy all that WEBPST$ gets
  (`GotOK`). `GotFree` is the other half: when the connection WEBPST$ waits for has
  lost the relay its buffer is empty, whoever has the relay by then. `FormIn` and
  `FormOut` are this before and after a call, `TurnForm` a turn of the loop and
  `OutputForm` the rest. `posted` must outlive the close of a connection for that:
  a refused request that closes with the relay held has a number WEBCON may give
  out, and WEBPST$ may still answer for it.
* **The receive ring**: `RingInv` lays out what was accepted: what was taken, then
  the character in hand if `extract_idx` was moved before it was fetched, then the
  ring, place by place (`Waiting`). The handler keeps one place free, and that is
  what makes the order of the two accesses of no account: the place just behind
  `extract_idx` is never written (`InterruptKeeps`).
* **The tokenizer**: `Leads(s, e, r0, r)` says that turns from before `e` lead from
  one state of the loop to another: the second is in every set that has the first
  and is closed under turns. This stands for induction, which the prover has not:
  ways can be joined (`LeadsOn`), moved to a text that looks the same (`LeadsAlike`)
  and are unique once over (`OneWay`), and `tokenizeline` goes such a way
  (`TokenizeLeads`; `StepByStep` takes the least number of turns that would not).
  What a turn asks of the text lies within `Ahead` places, and a match cannot pass the
  final zero (`Alike`, `AlikeInside`, `AlikeAtEnd`). A listing spells each token, and
  the tokens so far spell the text so far (`ListedBack`).
* **The line buffer**: `CutsDoNotShow` speaks of the end only. `TextInv` says of every
  state that the buffer is the end of what was passed to `retokenize` (`EndOf`), and
  that the tokenizer is where it would be had it gone over the whole text from the
  beginning (`Reached`), by turns that began at least `Ahead` places before its end, so
  that a character more does not change them (`TextGrows`). A turn that begins in the
  first half of a buffer filled to the threshold sees the same in the buffer as in the
  text (`HalfKeeps`), and ends before the buffer does (`HalfEnds`). `Room` bounds the
  buffer and says that at the keyboard the sender has been told exactly when the
  threshold was passed.
* **A program over the line**: `LineInv` joins `RingInv` with what the sender knows.
  XOFF and XON take turns on their way (`Alternating`), so that their number tells how
  many XOFFs are still to be heard, and each of them allows `Lag` characters. What may
  still come (`ToCome`) fits into the ring before the sender is asked; once it is, what the
  line buffer has taken beyond the threshold counts as well, and when flash is
  written it fits into the FIFO (`Bounded`). That is what
  `SenderAssumption` is for. So the FIFO and the ring are never full when a character comes
  (`Arrived`).
* **Frames of BASIC**: `FramesFollowTheirStatements` is inductive with `TypeOK`: a
  frame is only pushed by the statement it names, and every other statement
  leaves the stacks or shortens them. One step for each statement.
* **INPUT**: `TypingOK` adds that outside an INPUT nothing is typed and no buffer
  exists, so that the next INPUT starts from nothing, and that between two keys
  `Edited` turns the text of the keys so far into the text of one more (`OneKeyMore`).
* **Blocks**: a pairing of the loops of the text (`Pairs`) is fixed once, and the
  lines around a line (`Around`) are followed from each line to the next: a
  statement that is no bracket leaves them, FOR and REPEAT add the innermost, NEXT
  and UNTIL remove it or go back behind their partner, and the search for the NEXT
  of an empty range ends at the partner because the blocks in between are whole.
  `BlocksOK` adds that no ONERROR label is set, which would be a jump.
* **Variables and strings of BASIC**: `Held` gives every place that can hold a pointer
  (a frame's strings, a variable, a table, an element, an array, a file, the buffer of
  INPUT, what an error leaves behind) the block it holds, and `Own` says that this is
  one to one onto the blocks in use. An operation is then a set of places that
  change their block, and its lemma says which. `OneOwner` says nothing of the rest of
  `Sound`, but needs it: the tables are sorted and fit their blocks (`Tabled`), so
  that an insertion stays in the block and a search finds what a waiting frame's
  address is of (`Aimed`); the frames stand on each other as a
  statement stands below its expression (`Shaped`). `findvariable` is a recursion over pairs of
  bounds. It halves a table that is sorted, and a function that obeys its equation
  is unique up to any length of the stretch, by the least one on which two differ
  (`OneSearch`); so it has the value that the place of the name has (`Found`).
* **Strings are values**: `Shown` carries what the program sees beside the state: a
  block that holds a text shows it, whichever block that is. Each operation keeps
  what is shown but for the element it stores. The one place where the memory and
  the promise do not step together is DIM with an initialiser: the element that waits
  for its string is in an array of the table already, and holds nothing (`Unborn`).
  A step shows what it did not show before only when nothing is unborn.

### Model-checked only

* liveness (`SpaceReturned`, `StopHonoured`, `Flows`, `WriteReturns`, `OutputReturns`,
  `CommandsReturn`, `RequestsAnswered`, `Settles`, `LoopsEnd`): fairness is outside the
  prover's reach;
* nothing else. Every invariant, and every property that is no liveness property, of a
  run that holds is stated by a theorem. The library's induction theorems cannot be
  used; where a loop goes over data (`tokenizeline`, `findvariable`, `handle_input`, the
  rings of telnet), the least number of turns at which the claim would fail serves in
  their place.

## 5. Plan

Done, in this order: `ProgramStore` and `ProgramControl` with their proofs,
`FlashWriter` with its proofs, `Retoken`, `SocketApp`, `TelnetSession`,
`BasicControl` with its proofs, `WebRelay`, `UipEvents` and `UipTcp` with their
proofs, `BasicVariables` and `BasicMemory`, `SocketAppProofs`, the stream out of uIP,
`SerialRing` with its proof and `SerialProgram`, `TelnetSessionProofs`, blocks and
INPUT of BASIC, `WebRelayProofs`, `BasicMemoryProofs`, the tokenizer and a program over
the line in `UploadProofs`.

Next:

1. The composition of `UipTcp` with one application in place of any: `SocketApp`
   under it, so that its external events become uIP's own.
2. Sampling (`lpc1700/io.c`): the converter's interrupt and the two rings of ADREAD
   and ADWRITE, in the way of `SerialRing`.
3. `Editor`, the DHCP client and the ARP table.

Each new module gets one passing run, with all of its properties; a claim of the
documentation gets a run of its own only where the code breaks it.

## 6. Not modelled

* **The rest of uIP** (IP, ICMP, UDP, reassembly), **ARP, DHCP client, resolver,
  protosockets**: vendored; what reaches TCP and the applications is an event of
  the modules that receive it.
* **FAT file system, SD card, heap**: vendored; a failing malloc is an outcome
  wherever the code looks at the result.
* **Mail and web client**: uIP's samples; the web client is not linked.
* **Screen editor**: a sequential text buffer; a console user of `ProgramControl`.
* **BASIC**: what functions compute, numbers and their conversion, the layout of
  PRINT, device commands. A numeric array is a block like
  another; that an assignment behind its last element writes past the block is
  not in the model.
* **Board support** (clock, pins, ADC, I2C, SPI, MAC, video, keyboard): register
  programming and timing.
* **LPC21xx port and simulators**: the same logic on other hardware. One
  difference is left out with it: on the LPC2148 the configuration space ends a
  page beyond the last sector of the table.
* **Reset during an upload**: the code keeps no marker of a complete program, so
  there is no promise to check; it is a hazard without a property.
