---------------------------- MODULE ProgramControl ----------------------------
(***************************************************************************)
(* Who may use the BASIC program in flash: the console menu of main.c, the *)
(* pages of the web server (httpd.c, httpd-cgi.c) and the run loop share   *)
(* one program space, three flags and the selected bank.                   *)
(*                                                                         *)
(* The firmware has one thread.  The network runs only inside netmainloop, *)
(* which the console side calls wherever it waits for a key (idle), at     *)
(* every turn of the run loop, in the network commands of BASIC, and, when *)
(* a telnet session is attached, in every console write that fills the     *)
(* session's send FIFO (telnetd_addsendfifo).  A control point of the      *)
(* console is therefore a place where it may be waiting, an action is the  *)
(* code between two of them, and an action of a connection is one call of  *)
(* httpd_appcall.                                                          *)
(*                                                                         *)
(* Left out: the bytes of programs and pages, /bas requests (they never    *)
(* touch this state) and requests pipelined on one connection.             *)
(***************************************************************************)
EXTENDS Integers

CONSTANTS
  Conns,          \* TCP connections that can reach the web server
  Console,        \* the console as an owner of the program space
  NoOwner,        \* program_space == NULL
  NumBanks,       \* num_flashbanks()
  OutputYields,   \* a telnet session is attached: console output runs the network
  PasswordSet,    \* auth_password is not empty
  MaxBoots        \* bound on the resets a behaviour may contain

ASSUME BanksAssumption == NumBanks \in Nat \ {0}
ASSUME OwnersAssumption ==
  Console \notin Conns /\ NoOwner \notin Conns /\ Console # NoOwner
ASSUME BootsAssumption == MaxBoots \in Nat
ASSUME ModeAssumption == OutputYields \in BOOLEAN /\ PasswordSet \in BOOLEAN

VARIABLES
  program_space,          \* owner of the allocated space, or NoOwner
  area,                   \* what the space's reader or writer addresses
  basic_running,
  run_basic,
  pause_basic,
  cur_flash_bank_number,
  script,                 \* the bank script/endscript point into
  console,                \* control point of the console
  tcp,                    \* what the stack makes of each connection
  step,                   \* where each connection's protothreads wait
  special,                \* is_special_server of each connection
  boots                   \* resets so far

flags == <<basic_running, run_basic, pause_basic>>
banks == <<cur_flash_bank_number, script>>
space == <<program_space, area>>
net == <<tcp, step, special>>
vars == <<program_space, area, basic_running, run_basic, pause_basic,
          cur_flash_bank_number, script, console, tcp, step, special, boots>>

Bank == 0 .. NumBanks - 1
Owner == Conns \union {Console}

(* The space addresses a bank, the configuration space, or nothing yet.    *)
ConfigurationSpace == NumBanks
NoArea == -1
Area == Bank \union {ConfigurationSpace, NoArea}

ConsolePoint ==
  {"menu", "prompt", "held", "refused", "starting", "running", "statement",
   "finished", "ended"}
ConnState == {"closed", "handshake", "open", "closing"}
Page == {"list", "conf", "run", "stop", "pause", "bank", "reset"}
Granted == {"granted_run", "granted_resume", "granted_stop", "granted_pause"}
Step ==
  Page \union Granted \union
  {"request", "upload", "nobody", "redirect", "listing", "message", "over"}
Special == {"not", "prg", "untok"}
Holding == {"prg", "untok"}

(* Points where the console is inside a write to the console, not a wait.  *)
Writing == {"refused", "starting", "ended"}

NetRuns == console \notin Writing \/ OutputYields

-------------------------------------------------------------------------------
(* The operations main.c and httpd.c share.  Definitions whose names begin *)
(* with Faulty are no part of the model: each is the definition below it   *)
(* with a plausible bug, and PROJECT.json names the property it breaks.    *)

(* allocate_program_space, returning a space; the caller then points the   *)
(* space's reader or writer at area a.  The NULL return leaves everything  *)
(* alone and is always possible: malloc may fail.                          *)
FaultyAllocateIgnoresRun(owner, a) ==
  /\ program_space = NoOwner
  /\ program_space' = owner
  /\ area' = a

allocate_program_space(owner, a) ==
  /\ ~basic_running
  /\ program_space = NoOwner
  /\ program_space' = owner
  /\ area' = a

allocate_refused == UNCHANGED space

deallocate_program_space ==
  /\ program_space' = NoOwner
  /\ area' = NoArea

FaultyCanSelectWhileRunning == program_space = NoOwner

CanSelect == ~basic_running /\ program_space = NoOwner

FaultySelectWhileHeld(bank, shown) ==
  LET b == IF bank \in Bank THEN bank ELSE 0
  IN  IF ~basic_running THEN cur_flash_bank_number' = b /\ script' = b
                        ELSE cur_flash_bank_number' = shown /\ UNCHANGED script

(* shown is the value cur_flash_bank_number has when the call is made.     *)
select_bank_number(bank, shown) ==
  LET b == IF bank \in Bank THEN bank ELSE 0
  IN  IF CanSelect THEN cur_flash_bank_number' = b /\ script' = b
                   ELSE cur_flash_bank_number' = shown /\ UNCHANGED script

(* cleanup_special_state: the /bas half of it belongs to WebRelay.         *)
FaultyCleanupAlwaysFrees(c) ==
  /\ deallocate_program_space
  /\ special' = [special EXCEPT ![c] = "not"]

cleanup_special_state(c) ==
  /\ IF special[c] \in Holding THEN deallocate_program_space
                               ELSE UNCHANGED space
  /\ special' = [special EXCEPT ![c] = "not"]

-------------------------------------------------------------------------------
(* Init: main up to the menu, with BANK taken from the configuration.      *)

Init ==
  /\ boots = 0
  /\ program_space = NoOwner
  /\ area = NoArea
  /\ basic_running = FALSE
  /\ run_basic = FALSE
  /\ pause_basic = FALSE
  /\ cur_flash_bank_number \in Bank
  /\ script = cur_flash_bank_number
  /\ console = "menu"
  /\ tcp = [c \in Conns |-> "closed"]
  /\ step = [c \in Conns |-> "over"]
  /\ special = [c \in Conns |-> "not"]

(* force_reboot, from the menu's CTRL-Q or the reset page.                 *)
Reboot ==
  /\ boots < MaxBoots
  /\ boots' = boots + 1
  /\ deallocate_program_space
  /\ basic_running' = FALSE
  /\ run_basic' = FALSE
  /\ pause_basic' = FALSE
  /\ cur_flash_bank_number' \in Bank
  /\ script' = cur_flash_bank_number'
  /\ console' = "menu"
  /\ tcp' = [c \in Conns |-> "closed"]
  /\ step' = [c \in Conns |-> "over"]
  /\ special' = [c \in Conns |-> "not"]

-------------------------------------------------------------------------------
(* The console menu.                                                       *)

(* P, E and K: the space is allocated and aimed before the first wait.     *)
ConsoleOpen(a) ==
  /\ console = "menu"
  /\ a \in {script, ConfigurationSpace}
  /\ allocate_program_space(Console, a)
  /\ console' = "held"
  /\ UNCHANGED <<flags, banks, net, boots>>

(* L, O and S allocate, then write or ask for a file name, then aim it.    *)
ConsolePrompt ==
  /\ console = "menu"
  /\ allocate_program_space(Console, NoArea)
  /\ console' = "prompt"
  /\ UNCHANGED <<flags, banks, net, boots>>

ConsoleAim ==
  /\ console = "prompt"
  /\ area' = script
  /\ console' = "held"
  /\ UNCHANGED <<program_space, flags, banks, net, boots>>

ConsoleClose ==
  /\ console \in {"prompt", "held"}
  /\ deallocate_program_space
  /\ console' = "menu"
  /\ UNCHANGED <<flags, banks, net, boots>>

(* B: changebank stores the digit before select_bank_number may refuse it. *)
ChangeBank(bank) ==
  /\ console = "menu"
  /\ select_bank_number(bank, bank)
  /\ UNCHANGED <<space, flags, console, net, boots>>

ConsoleReboot == console = "menu" /\ Reboot

FaultyRunUnchecked ==
  /\ console = "menu"
  /\ console' = "starting"
  /\ UNCHANGED <<space, flags, banks, net, boots>>

(* R, the start-up timer, or run_basic set by the run page.                *)
RunRequested ==
  /\ console = "menu"
  /\ console' = IF program_space # NoOwner THEN "refused" ELSE "starting"
  /\ UNCHANGED <<space, flags, banks, net, boots>>

RunRefused ==
  /\ console = "refused"
  /\ run_basic' = FALSE
  /\ console' = "menu"
  /\ UNCHANGED <<space, basic_running, pause_basic, banks, net, boots>>

(* After "Start program" is written: program_space is not looked at again. *)
StartRun ==
  /\ console = "starting"
  /\ run_basic' = TRUE
  /\ pause_basic' = FALSE
  /\ basic_running' = TRUE
  /\ console' = "running"
  /\ UNCHANGED <<space, banks, net, boots>>

(* The bank is empty, or setup runs out of memory.                         *)
StartFails ==
  /\ console = "starting"
  /\ console' = "ended"
  /\ UNCHANGED <<space, flags, banks, net, boots>>

BeginStatement ==
  /\ console = "running"
  /\ run_basic
  /\ ~pause_basic
  /\ console' = "statement"
  /\ UNCHANGED <<space, flags, banks, net, boots>>

EndStatement ==
  /\ console = "statement"
  /\ console' = "running"
  /\ UNCHANGED <<space, flags, banks, net, boots>>

(* mainloop reports the end of the program; a stop that came meanwhile     *)
(* skips the wait for CTRL-D.                                              *)
ProgramEnds ==
  /\ console = "statement"
  /\ IF run_basic
       THEN console' = "finished" /\ UNCHANGED basic_running
       ELSE console' = "ended" /\ basic_running' = FALSE
  /\ UNCHANGED <<space, run_basic, pause_basic, banks, net, boots>>

FaultyStopWaitsForResume ==
  /\ console = "running"
  /\ ~run_basic
  /\ ~pause_basic
  /\ basic_running' = FALSE
  /\ console' = "ended"
  /\ UNCHANGED <<space, run_basic, pause_basic, banks, net, boots>>

RunStopped ==
  /\ console = "running"
  /\ ~run_basic
  /\ basic_running' = FALSE
  /\ console' = "ended"
  /\ UNCHANGED <<space, run_basic, pause_basic, banks, net, boots>>

(* CTRL-D, a stop, or the wait after "Program Ended" has run out.          *)
FinishWaitOver ==
  /\ console = "finished"
  /\ basic_running' = FALSE
  /\ console' = "ended"
  /\ UNCHANGED <<space, run_basic, pause_basic, banks, net, boots>>

RunOver ==
  /\ console = "ended"
  /\ run_basic' = FALSE
  /\ console' = "menu"
  /\ UNCHANGED <<space, basic_running, pause_basic, banks, net, boots>>

-------------------------------------------------------------------------------
(* The stack's side of a connection.  A slot keeps its application state   *)
(* until the next connection on it is established.                         *)

Syn(c) ==
  /\ NetRuns
  /\ tcp[c] = "closed"
  /\ tcp' = [tcp EXCEPT ![c] = "handshake"]
  /\ UNCHANGED <<space, flags, banks, console, step, special, boots>>

Connected(c) ==
  /\ NetRuns
  /\ tcp[c] = "handshake"
  /\ tcp' = [tcp EXCEPT ![c] = "open"]
  /\ step' = [step EXCEPT ![c] = "request"]
  /\ special' = [special EXCEPT ![c] = "not"]
  /\ UNCHANGED <<space, flags, banks, console, boots>>

(* uip_closed, uip_aborted or uip_timedout: the peer's FIN or RST, or the  *)
(* retransmissions are used up.                                            *)
PeerGone(c) ==
  /\ NetRuns
  /\ tcp[c] # "closed"
  /\ cleanup_special_state(c)
  /\ tcp' = [tcp EXCEPT ![c] = "closed"]
  /\ step' = [step EXCEPT ![c] = "over"]
  /\ UNCHANGED <<flags, banks, console, boots>>

(* In FIN_WAIT_2 the stack frees the slot without calling the application. *)
SilentClose(c) ==
  /\ NetRuns
  /\ tcp[c] = "closing"
  /\ tcp' = [tcp EXCEPT ![c] = "closed"]
  /\ UNCHANGED <<space, flags, banks, console, step, special, boots>>

FaultyAbortKeepsSpace(c) ==
  /\ NetRuns
  /\ tcp[c] = "open"
  /\ step[c] \in {"request", "upload", "nobody"}
  /\ tcp' = [tcp EXCEPT ![c] = "closed"]
  /\ step' = [step EXCEPT ![c] = "over"]
  /\ UNCHANGED <<space, special, flags, banks, console, boots>>

(* 1500 polls in a row without an event.  Polls come only while nothing    *)
(* is outstanding, that is while the server waits for the peer.            *)
TimerAbort(c) ==
  /\ NetRuns
  /\ tcp[c] = "open"
  /\ step[c] \in {"request", "upload", "nobody"}
  /\ cleanup_special_state(c)
  /\ tcp' = [tcp EXCEPT ![c] = "closed"]
  /\ step' = [step EXCEPT ![c] = "over"]
  /\ UNCHANGED <<flags, banks, console, boots>>

-------------------------------------------------------------------------------
(* The web server.  A connection whose step is a page or a granted request *)
(* has data outstanding; the action of that step is the call that follows  *)
(* the peer's ACK.                                                         *)

At(c, s) == NetRuns /\ tcp[c] = "open" /\ step[c] = s

Goto(c, s) == step' = [step EXCEPT ![c] = s]

(* The end of the headers of /prg or /cnf.  Without the password the 401   *)
(* page is sent, but the space has been allocated by then.                 *)
RequestUpload(c, a, body, denied) ==
  /\ At(c, "request")
  /\ denied => PasswordSet
  /\ a \in {script, ConfigurationSpace}
  /\ allocate_program_space(c, a)
  /\ special' = [special EXCEPT ![c] = "prg"]
  /\ Goto(c, IF denied THEN "message" ELSE IF body THEN "upload" ELSE "nobody")
  /\ UNCHANGED <<flags, banks, console, tcp, boots>>

RequestUploadRefused(c) ==
  /\ At(c, "request")
  /\ allocate_refused
  /\ Goto(c, "message")
  /\ UNCHANGED <<space, flags, banks, console, tcp, special, boots>>

(* Any other page; a plain file or the 401 page goes straight to "message".*)
RequestPage(c, page) ==
  /\ At(c, "request")
  /\ Goto(c, page)
  /\ UNCHANGED <<space, flags, banks, console, tcp, special, boots>>

(* content_length reaches zero: the last page is flushed, count == 4.      *)
UploadDone(c) ==
  /\ At(c, "upload")
  /\ Goto(c, "redirect")
  /\ UNCHANGED <<space, flags, banks, console, tcp, special, boots>>

RedirectSent(c) ==
  /\ At(c, "redirect")
  /\ cleanup_special_state(c)
  /\ tcp' = [tcp EXCEPT ![c] = "closing"]
  /\ Goto(c, "over")
  /\ UNCHANGED <<flags, banks, console, boots>>

(* program_basic and conf_basic hold the space over every packet they send.*)
ListStarts(c) ==
  /\ \/ At(c, "list") /\ allocate_program_space(c, script)
     \/ At(c, "conf") /\ allocate_program_space(c, ConfigurationSpace)
  /\ special' = [special EXCEPT ![c] = "untok"]
  /\ Goto(c, "listing")
  /\ UNCHANGED <<flags, banks, console, tcp, boots>>

ListRefused(c) ==
  /\ At(c, "list") \/ At(c, "conf")
  /\ allocate_refused
  /\ Goto(c, "message")
  /\ UNCHANGED <<space, flags, banks, console, tcp, special, boots>>

ListDone(c) ==
  /\ At(c, "listing")
  /\ cleanup_special_state(c)
  /\ Goto(c, "message")
  /\ UNCHANGED <<flags, banks, console, tcp, boots>>

(* run_basic_prg, stop_basic_prg and pause_basic_prg decide, send the page *)
(* and act on the decision only when the page has been acknowledged.       *)
RunPage(c) ==
  /\ At(c, "run")
  /\ Goto(c, IF ~basic_running /\ program_space = NoOwner THEN "granted_run"
             ELSE IF basic_running /\ program_space = NoOwner /\ pause_basic
                  THEN "granted_resume" ELSE "message")
  /\ UNCHANGED <<space, flags, banks, console, tcp, special, boots>>

StopPage(c) ==
  /\ At(c, "stop")
  /\ Goto(c, IF basic_running /\ program_space = NoOwner THEN "granted_stop"
                                                         ELSE "message")
  /\ UNCHANGED <<space, flags, banks, console, tcp, special, boots>>

PausePage(c) ==
  /\ At(c, "pause")
  /\ Goto(c, IF basic_running /\ program_space = NoOwner /\ ~pause_basic
               THEN "granted_pause" ELSE "message")
  /\ UNCHANGED <<space, flags, banks, console, tcp, special, boots>>

RunGranted(c) ==
  /\ At(c, "granted_run")
  /\ run_basic' = TRUE
  /\ Goto(c, "message")
  /\ UNCHANGED <<space, basic_running, pause_basic, banks, console, tcp, special, boots>>

ResumeGranted(c) ==
  /\ At(c, "granted_resume")
  /\ pause_basic' = FALSE
  /\ Goto(c, "message")
  /\ UNCHANGED <<space, basic_running, run_basic, banks, console, tcp, special, boots>>

StopGranted(c) ==
  /\ At(c, "granted_stop")
  /\ run_basic' = FALSE
  /\ Goto(c, "message")
  /\ UNCHANGED <<space, basic_running, pause_basic, banks, console, tcp, special, boots>>

PauseGranted(c) ==
  /\ At(c, "granted_pause")
  /\ pause_basic' = TRUE
  /\ Goto(c, "message")
  /\ UNCHANGED <<space, basic_running, run_basic, banks, console, tcp, special, boots>>

(* bank_sw; the digit of the URL may be out of range.                      *)
BankPage(c, bank) ==
  /\ At(c, "bank")
  /\ IF CanSelect THEN select_bank_number(bank, cur_flash_bank_number)
                  ELSE UNCHANGED banks
  /\ Goto(c, "message")
  /\ UNCHANGED <<space, flags, console, tcp, special, boots>>

ResetPage(c) == At(c, "reset") /\ Reboot

(* The last data is acknowledged: PSOCK_CLOSE, and no cleanup.             *)
PageSent(c) ==
  /\ At(c, "message")
  /\ tcp' = [tcp EXCEPT ![c] = "closing"]
  /\ Goto(c, "over")
  /\ UNCHANGED <<space, flags, banks, console, special, boots>>

-------------------------------------------------------------------------------
Loop == BeginStatement \/ EndStatement \/ ProgramEnds \/ RunStopped

ConsoleNext ==
  \/ \E a \in Area : ConsoleOpen(a)
  \/ ConsolePrompt
  \/ ConsoleAim
  \/ ConsoleClose
  \/ \E bank \in Bank : ChangeBank(bank)
  \/ ConsoleReboot
  \/ RunRequested
  \/ RunRefused
  \/ StartRun
  \/ StartFails
  \/ Loop
  \/ FinishWaitOver
  \/ RunOver

Stack(c) == Syn(c) \/ Connected(c) \/ PeerGone(c) \/ SilentClose(c) \/ TimerAbort(c)

Request(c) ==
  \/ \E a \in Area, body, denied \in BOOLEAN : RequestUpload(c, a, body, denied)
  \/ RequestUploadRefused(c)
  \/ \E page \in Page \union {"message"} : RequestPage(c, page)

(* What the server does next once its outstanding data is acknowledged.    *)
Serve(c) ==
  \/ UploadDone(c)
  \/ RedirectSent(c)
  \/ ListStarts(c)
  \/ ListRefused(c)
  \/ ListDone(c)
  \/ RunPage(c)
  \/ StopPage(c)
  \/ PausePage(c)
  \/ RunGranted(c)
  \/ ResumeGranted(c)
  \/ StopGranted(c)
  \/ PauseGranted(c)
  \/ \E bank \in Bank \union {-1, NumBanks} : BankPage(c, bank)
  \/ ResetPage(c)
  \/ PageSent(c)

Next ==
  \/ ConsoleNext
  \/ \E c \in Conns : Stack(c) \/ Request(c) \/ Serve(c)

Spec == Init /\ [][Next]_vars

-------------------------------------------------------------------------------
(* Fairness.  The console finishes what it writes and a running program    *)
(* finishes its statements.  The network part is strong: between two of    *)
(* its writes the console waits in inkey, whose idle always runs the       *)
(* network, so a due event or timer of a connection is always served.      *)

Fairness ==
  /\ WF_vars(RunRefused \/ StartRun \/ StartFails \/ RunOver \/ FinishWaitOver)
  /\ WF_vars(Loop)
  /\ \A c \in Conns : SF_vars(Serve(c) \/ PeerGone(c) \/ TimerAbort(c))

FairSpec == Spec /\ Fairness

-------------------------------------------------------------------------------
(* The values the state can take; the bank is always one that exists, even *)
(* when the configuration file or a URL names another.                     *)
TypeOK ==
  /\ program_space \in Owner \union {NoOwner}
  /\ area \in Area
  /\ basic_running \in BOOLEAN
  /\ run_basic \in BOOLEAN
  /\ pause_basic \in BOOLEAN
  /\ cur_flash_bank_number \in Bank
  /\ script \in Bank
  /\ console \in ConsolePoint
  /\ tcp \in [Conns -> ConnState]
  /\ step \in [Conns -> Step]
  /\ special \in [Conns -> Special]
  /\ boots \in Nat

HoldsSpace(owner) ==
  IF owner = Console THEN console \in {"prompt", "held"}
                     ELSE special[owner] \in Holding

(* Whoever believes it holds the program space is the one it was allocated *)
(* to: a cleanup, abort or close never frees what another user works in.   *)
Ownership == \A owner \in Owner : HoldsSpace(owner) => program_space = owner

(* While somebody reads or rewrites a bank it stays the selected one, so   *)
(* an upload ends in the bank its user saw when it began.                  *)
AreaIsSelected == program_space # NoOwner /\ area \in Bank => area = script

(* The code a running program executes is never switched under it.         *)
RunningScriptStable == [][basic_running /\ basic_running' => script' = script]_vars

(* Introduction.md:71: while a program runs nobody holds the program space.*)
Exclusion == basic_running => program_space = NoOwner

(* The abstract store: what a user may rely on.                            *)
Store ==
  INSTANCE ProgramStore WITH
    Users <- Owner, Idle <- NoOwner, Running <- "running", NumBanks <- NumBanks,
    store <- IF program_space # NoOwner THEN program_space
             ELSE IF basic_running THEN "running" ELSE NoOwner,
    bank <- script, boots <- boots

StoreSpec == Store!Spec

(* A web page or upload gives the program space back, whatever its peer    *)
(* does.                                                                   *)
SpaceReturned == \A c \in Conns : (program_space = c) ~> (program_space # c)

(* A stop takes effect, paused or not, unless a run is asked for meanwhile.*)
StopHonoured == (basic_running /\ ~run_basic) ~> (~basic_running \/ run_basic)
===============================================================================
