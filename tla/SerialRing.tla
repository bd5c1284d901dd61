------------------------------ MODULE SerialRing ------------------------------
(***************************************************************************)
(* The receive queue of a serial port: the UART's own FIFO, the ring the   *)
(* interrupt handler moves its characters into, and getkey_serial0, which  *)
(* the console, INKEY and SERINP$ poll.  The handler runs between any two  *)
(* accesses of getkey_serial0, and nothing locks the ring.  Its indices    *)
(* are not volatile, so the compiler may let getkey_serial0 fetch the      *)
(* character before or after it moves extract_idx; both orders are here.   *)
(***************************************************************************)
EXTENDS Integers, Sequences

CONSTANTS
  RX_BUFFER_SIZE,
  FIFO_SIZE,        \* characters the UART holds itself
  Keys              \* what the line can bring

ASSUME RingAssumption ==
  /\ RX_BUFFER_SIZE \in Nat /\ RX_BUFFER_SIZE >= 2
  /\ FIFO_SIZE \in Nat \ {0}

VARIABLES
  fifo,         \* the UART's
  rx_buffer, insert_idx, extract_idx,
  reader,       \* how far getkey_serial0 is: "idle", "found", "fetched", "advanced"
  slot, key,    \* its position and, if fetched, its character
  accepted,     \* history: the characters the ring took since it was set up,
  taken         \* and those getkey_serial0 has returned

uartvars == <<fifo, rx_buffer, insert_idx, extract_idx, accepted>>
readervars == <<reader, slot, key>>
ringvars == <<uartvars, readervars, taken>>

Slots == 0 .. RX_BUFFER_SIZE - 1

Bump(i) == IF i + 1 >= RX_BUFFER_SIZE THEN 0 ELSE i + 1

(* Characters in the ring.                                                 *)
Unread ==
  IF insert_idx >= extract_idx THEN insert_idx - extract_idx
                               ELSE RX_BUFFER_SIZE - (extract_idx - insert_idx)

(* init_serial0.  What memory holds before is of no account.               *)
RingInit ==
  /\ fifo = <<>>
  /\ rx_buffer \in [Slots -> Keys]
  /\ insert_idx = 0
  /\ extract_idx = 0
  /\ reader = "idle"
  /\ slot = 0
  /\ key \in Keys
  /\ accepted = <<>>
  /\ taken = <<>>

(* A character on the line; a full FIFO loses it.                          *)
Arrive(c) ==
  /\ fifo' = IF Len(fifo) < FIFO_SIZE THEN Append(fifo, c) ELSE fifo
  /\ UNCHANGED <<rx_buffer, insert_idx, extract_idx, accepted, taken, readervars>>

FaultyInterrupt ==
  /\ fifo # <<>>
  /\ fifo' = Tail(fifo)
  /\ IF Bump(insert_idx) # extract_idx
       THEN /\ rx_buffer' = [rx_buffer EXCEPT ![Bump(insert_idx)] = Head(fifo)]
            /\ insert_idx' = Bump(insert_idx)
            /\ accepted' = Append(accepted, Head(fifo))
       ELSE UNCHANGED <<rx_buffer, insert_idx, accepted>>
  /\ UNCHANGED <<extract_idx, taken, readervars>>

(* One turn of the handler's loop; a full ring loses the character.        *)
Interrupt ==
  /\ fifo # <<>>
  /\ fifo' = Tail(fifo)
  /\ IF Bump(insert_idx) # extract_idx
       THEN /\ rx_buffer' = [rx_buffer EXCEPT ![insert_idx] = Head(fifo)]
            /\ insert_idx' = Bump(insert_idx)
            /\ accepted' = Append(accepted, Head(fifo))
       ELSE UNCHANGED <<rx_buffer, insert_idx, accepted>>
  /\ UNCHANGED <<extract_idx, taken, readervars>>

-------------------------------------------------------------------------------
(* getkey_serial0.  It returns -1, and changes nothing, if the ring is     *)
(* empty.                                                                  *)

Look ==
  /\ reader = "idle"
  /\ insert_idx # extract_idx
  /\ reader' = "found"
  /\ slot' = extract_idx
  /\ UNCHANGED <<key, uartvars, taken>>

Fetch ==
  /\ reader = "found"
  /\ reader' = "fetched"
  /\ key' = rx_buffer[slot]
  /\ UNCHANGED <<slot, uartvars, taken>>

Advance ==
  /\ reader = "found"
  /\ reader' = "advanced"
  /\ extract_idx' = Bump(slot)
  /\ UNCHANGED <<slot, key, fifo, rx_buffer, insert_idx, accepted, taken>>

(* The other access, and the character it returns.                         *)
Return(c) ==
  /\ \/ /\ reader = "fetched"
        /\ c = key
        /\ extract_idx' = Bump(slot)
     \/ /\ reader = "advanced"
        /\ c = rx_buffer[slot]
        /\ UNCHANGED extract_idx
  /\ reader' = "idle"
  /\ taken' = Append(taken, c)
  /\ UNCHANGED <<slot, key, fifo, rx_buffer, insert_idx, accepted>>

(* SERINIT of a program sets the port up again, with its interrupts off;   *)
(* what was waiting is gone.                                               *)
Reinit ==
  /\ reader = "idle"
  /\ fifo' = <<>>
  /\ insert_idx' = 0
  /\ extract_idx' = 0
  /\ accepted' = taken
  /\ UNCHANGED <<rx_buffer, taken, readervars>>

RingNext ==
  \/ \E c \in Keys : Arrive(c)
  \/ Interrupt
  \/ Look
  \/ Fetch
  \/ Advance
  \/ \E c \in Keys : Return(c)
  \/ Reinit

RingSpec == RingInit /\ [][RingNext]_ringvars

-------------------------------------------------------------------------------
(* The values the state can take.                                          *)
RingTypeOK ==
  /\ fifo \in Seq(Keys)
  /\ rx_buffer \in [Slots -> Keys]
  /\ insert_idx \in Slots
  /\ extract_idx \in Slots
  /\ reader \in {"idle", "found", "fetched", "advanced"}
  /\ slot \in Slots
  /\ key \in Keys
  /\ accepted \in Seq(Keys)
  /\ taken \in Seq(Keys)

(* Whatever the interrupt does between two accesses, and in whichever      *)
(* order they come, getkey_serial0 returns the characters the ring took,   *)
(* in order and each once, and reports an empty ring only when it has      *)
(* returned them all.                                                      *)
Queue ==
  /\ Len(taken) <= Len(accepted)
  /\ \A n \in 1 .. Len(taken) : taken[n] = accepted[n]
  /\ reader = "idle" /\ insert_idx = extract_idx => taken = accepted
===============================================================================
