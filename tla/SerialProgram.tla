----------------------------- MODULE SerialProgram -----------------------------
(***************************************************************************)
(* P on the menu with a sender at the serial port: doprogram (main.c)      *)
(* takes keys from SerialRing into the line buffer of Retoken and asks the *)
(* sender to stop (XOFF) before it writes flash, since an IAP command runs *)
(* with the interrupts off and leaves to the UART's FIFO what arrives.     *)
(* Uploads from a page or a file pass their text directly.                 *)
(*                                                                         *)
(* The line is slower than doprogram's loop, and a pause (300000 polls)    *)
(* longer than the sender needs to hear an XOFF: KeepsUp and Settled say   *)
(* so.  After an XOFF was sent up to Lag characters still come.            *)
(***************************************************************************)
EXTENDS Retoken, SerialRing

CONSTANTS
  Typed,        \* the characters that are sent over the line
  Lag,          \* most characters the sender sends after an XOFF
  MaxUploaded   \* bound: characters of a text that is not typed

EndKey == "ctrl-d"      \* ENDPROGCHAR

(* If the ring is full when XOFF goes out and the sender then sends Lag    *)
(* characters, the line buffer and the FIFO have room for all of them.     *)
ASSUME SenderAssumption ==
  /\ Typed \subseteq Char
  /\ Typed \union {EndKey} \subseteq Keys
  /\ Lag \in Nat
  /\ Lag + RX_BUFFER_SIZE - 1 <= LINEBUFLEN - 2 - LINEBUFTHRESHOLD + FIFO_SIZE
  /\ FIFO_SIZE < RX_BUFFER_SIZE

VARIABLES
  sent,         \* what the sender has sent
  stopped,      \* it has heard an XOFF and no XON since
  signals,      \* XOFFs and XONs it has not heard yet
  late,         \* characters sent since the oldest of those XOFFs
  storing       \* doprogram is in retokenize(-2)

textvars == <<autostore, text, buf, ln, tk, out, xoff, stage>>
sendervars == <<sent, stopped, signals, late>>
allvars == <<textvars, ringvars, sendervars, storing>>

ProgramInit ==
  /\ Init
  /\ RingInit
  /\ rx_buffer = [i \in Slots |-> EndKey] /\ key = EndKey
  /\ sent = <<>>
  /\ stopped = FALSE
  /\ signals = <<>>
  /\ late = 0
  /\ storing = FALSE

-------------------------------------------------------------------------------
(* The sender.                                                             *)

Unheard == "XOFF" \in Range(signals)

(* The handler has run and the ring has room when the next one comes.      *)
KeepsUp == ~storing => fifo = <<>> /\ Unread < RX_BUFFER_SIZE - 1

Send(c) ==
  /\ ~autostore /\ stage = "loop"
  /\ EndKey \notin Range(sent)
  /\ c # EndKey => Len(sent) < MaxChars
  /\ ~stopped
  /\ Unheard => late < Lag
  /\ KeepsUp
  /\ Arrive(c)
  /\ sent' = Append(sent, c)
  /\ late' = IF Unheard THEN late + 1 ELSE 0
  /\ UNCHANGED <<stopped, signals, storing, textvars>>

Hear ==
  /\ signals # <<>>
  /\ stopped' = (Head(signals) = "XOFF")
  /\ signals' = Tail(signals)
  /\ late' = 0
  /\ UNCHANGED <<sent, storing, textvars, ringvars>>

(* The handler runs at once, but while flash is written only between two   *)
(* IAP commands.                                                           *)
Handler ==
  /\ Interrupt
  /\ UNCHANGED <<sendervars, storing, textvars>>

Served == fifo = <<>>

-------------------------------------------------------------------------------
(* doprogram.                                                              *)

(* The XOFF with which a turn begins.                                      *)
AskToStop == IF stage' = "loop" /\ ln' = LINEBUFTHRESHOLD THEN <<"XOFF">> ELSE <<>>

(* inkey, up to the last access.                                           *)
Poll ==
  /\ ~autostore /\ stage = "loop"
  /\ ~NearlyFull /\ ~storing /\ Served
  /\ Look \/ Fetch \/ Advance
  /\ UNCHANGED <<sendervars, storing, textvars>>

(* inkey returns a character, and the turn goes on to its end.             *)
KeyInput(c) ==
  /\ Served
  /\ Return(c)
  /\ IF c = EndKey THEN InputEnds ELSE Input(c)
  /\ signals' = signals \o AskToStop
  /\ UNCHANGED <<sent, stopped, late, storing>>

(* No key for a while: by then the sender has heard the XOFF.              *)
Settled == signals = <<>> /\ insert_idx = extract_idx

StartStore ==
  /\ ~autostore /\ stage = "loop"
  /\ ~storing /\ Served /\ reader = "idle"
  /\ xoff \/ ln = LINEBUFTHRESHOLD
  /\ NearlyFull \/ Settled
  /\ storing' = TRUE
  /\ UNCHANGED <<sendervars, textvars, ringvars>>

EndStore ==
  /\ storing
  /\ Pause
  /\ storing' = FALSE
  /\ signals' = signals \o <<"XON">> \o AskToStop
  /\ UNCHANGED <<sent, stopped, late, ringvars>>

EndTyped ==
  /\ ~autostore
  /\ Finish
  /\ UNCHANGED <<sendervars, storing, ringvars>>

-------------------------------------------------------------------------------
(* A text from a page, a file or the editor.                               *)
Upload ==
  /\ autostore
  /\ \/ Len(text) < MaxUploaded /\ \E c \in Char : Input(c)
     \/ InputEnds
     \/ Finish
  /\ UNCHANGED <<sendervars, storing, ringvars>>

ProgramNext ==
  \/ \E c \in Typed \union {EndKey} : Send(c)
  \/ Hear
  \/ Handler
  \/ Poll
  \/ \E c \in Typed \union {EndKey} : KeyInput(c)
  \/ StartStore
  \/ EndStore
  \/ EndTyped
  \/ Upload

ProgramSpec == ProgramInit /\ [][ProgramNext]_allvars

-------------------------------------------------------------------------------
AllRead == fifo = <<>> /\ insert_idx = extract_idx /\ reader = "idle"

(* A listing gives back what was sent, whether it came from a page or over *)
(* the line: the UART, the ring and the line buffer lose nothing, repeat   *)
(* nothing and reorder nothing, though nothing is read while flash is      *)
(* written and the sender stops late.                                      *)
ListsAsSent ==
  /\ ~autostore /\ AllRead =>
       sent = IF stage = "loop" THEN text ELSE Append(text, EndKey)
  /\ stage = "done" => Listed(out) = Append(text, Zero)
===============================================================================
