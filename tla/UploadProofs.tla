----------------------------- MODULE UploadProofs -----------------------------
(***************************************************************************)
(* Theorems about an upload, from the line to flash.  SerialRing: the      *)
(* receive ring is a queue for every size of the ring and of the UART's    *)
(* FIFO, wherever the interrupt falls.  FlashWriter, for any flash table   *)
(* whose areas lie in sectors of their own: first what each IAP command    *)
(* leaves as it was, then what one flush of the page buffer does, then the *)
(* steps; last, what an upload that reports no error has put into flash.   *)
(* Retoken: tokenizeline turn by turn, what a listing of tokens gives      *)
(* back, and why the cuts of the line buffer do not show.  SerialProgram:  *)
(* the sender, the ring and the line buffer together lose nothing.         *)
(***************************************************************************)
EXTENDS SerialProgram, FlashWriter, SequenceTheorems, WellFoundedInduction, TLAPS

-------------------------------------------------------------------------------
(* The ring                                                                *)

(* The position n places behind i.                                         *)
Wrap(i) == IF i >= RX_BUFFER_SIZE THEN i - RX_BUFFER_SIZE ELSE i

(* Characters getkey_serial0 has passed over but not yet returned.         *)
InHand == IF reader = "advanced" THEN 1 ELSE 0

(* Where getkey_serial0 stands.  When it has advanced without having       *)
(* fetched, its slot is the one the ring keeps free.                       *)
ReaderAt ==
  /\ reader \in {"found", "fetched"} => slot = extract_idx /\ Unread > 0
  /\ reader = "fetched" => key = rx_buffer[slot]
  /\ reader = "advanced" =>
       /\ extract_idx = Bump(slot)
       /\ Len(taken) < Len(accepted)
       /\ rx_buffer[slot] = accepted[Len(taken) + 1]

(* What was accepted is what was taken, then what is in hand, then the     *)
(* ring.                                                                   *)
Lengths == Len(accepted) = Len(taken) + InHand + Unread
Returned == \A n \in 1 .. Len(taken) : taken[n] = accepted[n]
Waiting ==
  \A n \in 0 .. Unread - 1 :
    rx_buffer[Wrap(extract_idx + n)] = accepted[Len(taken) + InHand + 1 + n]

RingInv == RingTypeOK /\ ReaderAt /\ Lengths /\ Returned /\ Waiting

LEMMA UnreadFits == RingTypeOK => Unread \in 0 .. RX_BUFFER_SIZE - 1
BY RingAssumption DEF RingTypeOK, Unread, Slots

LEMMA UnreadFitsNext == RingTypeOK' => Unread' \in 0 .. RX_BUFFER_SIZE - 1
<1>1. \A i, j \in Slots : (IF i >= j THEN i - j ELSE RX_BUFFER_SIZE - (j - i)) \in 0 .. RX_BUFFER_SIZE - 1
  BY RingAssumption DEF Slots
<1> QED BY <1>1 DEF RingTypeOK, Unread

(* The line and SERINIT.                                                   *)
LEMMA ArriveKeeps ==
  ASSUME RingInv, NEW c \in Keys, Arrive(c) PROVE RingInv'
<1>1. fifo' \in Seq(Keys)
  BY DEF RingInv, RingTypeOK, Arrive
<1>2. /\ UNCHANGED <<rx_buffer, insert_idx, extract_idx, accepted, taken, reader, slot, key>>
      /\ UNCHANGED Unread /\ UNCHANGED InHand
  BY DEF Arrive, readervars, Unread, InHand
<1>3. RingTypeOK'
  BY <1>1, <1>2 DEF RingInv, RingTypeOK
<1>4. (ReaderAt /\ Lengths /\ Returned /\ Waiting)'
  BY <1>2 DEF RingInv, ReaderAt, Lengths, Returned, Waiting
<1> QED BY <1>3, <1>4 DEF RingInv

LEMMA ReinitKeeps == ASSUME RingInv, Reinit PROVE RingInv'
<1>1. RingTypeOK'
  BY RingAssumption DEF RingInv, RingTypeOK, Reinit, readervars, Slots
<1>2. Unread' = 0 /\ InHand' = 0 /\ reader' = "idle" /\ taken' = taken /\ accepted' = taken
  BY RingAssumption DEF Reinit, readervars, Unread, InHand
<1>3. (ReaderAt /\ Lengths /\ Returned /\ Waiting)'
  BY <1>1, <1>2 DEF ReaderAt, Lengths, Returned, Waiting, RingTypeOK
<1> QED BY <1>1, <1>3 DEF RingInv

(* The handler.  It never writes a slot that is still to be read, nor the  *)
(* one behind extract_idx.                                                 *)
LEMMA InterruptKeeps == ASSUME RingInv, Interrupt PROVE RingInv'
<1> USE RingAssumption
<1>0. /\ RingTypeOK /\ Unread \in 0 .. RX_BUFFER_SIZE - 1 /\ InHand \in {0, 1}
      /\ Len(taken) \in Nat /\ Len(accepted) \in Nat
  BY UnreadFits DEF RingInv, InHand, RingTypeOK
<1>1. fifo' \in Seq(Keys) /\ Head(fifo) \in Keys
  BY <1>0 DEF RingTypeOK, Interrupt
<1>2. UNCHANGED <<extract_idx, taken, reader, slot, key>> /\ UNCHANGED InHand
  BY DEF Interrupt, readervars, InHand
<1>3. CASE Bump(insert_idx) = extract_idx
  <2>1. UNCHANGED <<rx_buffer, insert_idx, accepted>> /\ UNCHANGED Unread
    BY <1>2, <1>3 DEF Interrupt, Unread
  <2>2. RingTypeOK'
    BY <1>0, <1>1, <1>2, <2>1 DEF RingTypeOK
  <2>3. (ReaderAt /\ Lengths /\ Returned /\ Waiting)'
    BY <1>2, <2>1 DEF RingInv, ReaderAt, Lengths, Returned, Waiting
  <2> QED BY <2>2, <2>3 DEF RingInv
<1>4. CASE Bump(insert_idx) # extract_idx
  <2>1. /\ rx_buffer' = [rx_buffer EXCEPT ![insert_idx] = Head(fifo)]
        /\ insert_idx' = Bump(insert_idx)
        /\ accepted' = Append(accepted, Head(fifo))
    BY <1>4 DEF Interrupt
  <2>2. RingTypeOK'
    BY <1>0, <1>1, <1>2, <2>1 DEF RingTypeOK, Bump, Slots
  <2>3. Unread' = Unread + 1
    BY <1>0, <1>2, <1>4, <2>1 DEF Unread, Bump, RingTypeOK, Slots
  <2>4. /\ Len(accepted') = Len(accepted) + 1
        /\ accepted'[Len(accepted) + 1] = Head(fifo)
        /\ \A n \in 1 .. Len(accepted) : accepted'[n] = accepted[n]
    BY <1>0, <1>1, <2>1 DEF RingTypeOK
  <2>5. \A i \in Slots : i # insert_idx => rx_buffer'[i] = rx_buffer[i]
    BY <1>0, <2>1 DEF RingTypeOK
  <2>6. rx_buffer'[insert_idx] = Head(fifo)
    BY <1>0, <2>1 DEF RingTypeOK
  <2>7. ReaderAt'
    <3>1. reader = "advanced" => slot # insert_idx
      BY <1>4 DEF RingInv, ReaderAt
    <3>2. reader \in {"found", "fetched"} => slot # insert_idx
      BY <1>0 DEF RingInv, ReaderAt, Unread, RingTypeOK, Slots
    <3>3. reader # "idle" => rx_buffer'[slot] = rx_buffer[slot]
      BY <1>0, <2>5, <3>1, <3>2 DEF RingTypeOK
    <3>4. reader = "advanced" => accepted'[Len(taken) + 1] = accepted[Len(taken) + 1]
      BY <1>0, <2>4 DEF RingInv, ReaderAt
    <3>5. Unread \in Nat /\ Unread' > 0
      BY <1>0, <2>3
    <3> QED BY <1>0, <1>2, <2>4, <3>3, <3>4, <3>5 DEF RingInv, ReaderAt
  <2>8. Lengths'
    BY <1>0, <1>2, <2>3, <2>4 DEF RingInv, Lengths
  <2>9. Returned'
    BY <1>0, <1>2, <2>4 DEF RingInv, Lengths, Returned
  <2>10. Waiting'
    <3> SUFFICES ASSUME NEW n \in 0 .. Unread
                 PROVE  rx_buffer'[Wrap(extract_idx + n)]
                          = accepted'[Len(taken) + InHand + 1 + n]
      BY <1>0, <1>2, <2>3 DEF Waiting, Wrap
    <3>1. CASE n = Unread
      <4>1. Wrap(extract_idx + n) = insert_idx
        BY <1>0, <3>1 DEF Wrap, Unread, RingTypeOK, Slots
      <4>2. Len(taken) + InHand + 1 + n = Len(accepted) + 1
        BY <1>0, <3>1 DEF RingInv, Lengths
      <4> QED BY <4>1, <4>2, <2>4, <2>6
    <3>2. CASE n < Unread
      <4>1. Wrap(extract_idx + n) \in Slots /\ Wrap(extract_idx + n) # insert_idx
        BY <1>0, <3>2 DEF Wrap, Unread, RingTypeOK, Slots
      <4>2. Len(taken) + InHand + 1 + n \in 1 .. Len(accepted)
        BY <1>0, <3>2 DEF RingInv, Lengths
      <4>3. rx_buffer[Wrap(extract_idx + n)] = accepted[Len(taken) + InHand + 1 + n]
        BY <1>0, <3>2 DEF RingInv, Waiting
      <4> QED BY <4>1, <4>2, <4>3, <2>4, <2>5
    <3> QED BY <1>0, <3>1, <3>2
  <2> QED BY <2>2, <2>7, <2>8, <2>9, <2>10 DEF RingInv
<1> QED BY <1>3, <1>4

(* getkey_serial0, up to its last access.                                  *)
LEMMA LookKeeps == ASSUME RingInv, Look \/ Fetch PROVE RingInv'
<1>1. /\ UNCHANGED <<fifo, rx_buffer, insert_idx, extract_idx, accepted, taken>>
      /\ reader' \in {"found", "fetched"} /\ reader # "advanced"
      /\ UNCHANGED Unread
  BY DEF Look, Fetch, uartvars, Unread
<1>2. UNCHANGED InHand
  BY <1>1 DEF InHand
<1>3. RingTypeOK'
  BY <1>1 DEF RingInv, RingTypeOK, Look, Fetch
<1>4. (Lengths /\ Returned /\ Waiting)'
  BY <1>1, <1>2 DEF RingInv, Lengths, Returned, Waiting
<1>5. ReaderAt'
  BY <1>1, RingAssumption DEF RingInv, RingTypeOK, ReaderAt, Look, Fetch, Unread, Slots
<1> QED BY <1>3, <1>4, <1>5 DEF RingInv

(* Moving extract_idx on: one character less waits.                        *)
LEMMA Moved ==
  ASSUME RingInv, Unread > 0, extract_idx' = Bump(extract_idx), UNCHANGED insert_idx
  PROVE  /\ Unread' = Unread - 1
         /\ extract_idx' \in Slots
         /\ \A n \in 0 .. Unread - 2 : Wrap(extract_idx' + n) = Wrap(extract_idx + n + 1)
         /\ Wrap(extract_idx + 0) = extract_idx
BY RingAssumption DEF RingInv, RingTypeOK, Unread, Bump, Wrap, Slots

LEMMA AdvanceKeeps == ASSUME RingInv, Advance PROVE RingInv'
<1> USE RingAssumption
<1>0. /\ RingTypeOK /\ Unread \in 0 .. RX_BUFFER_SIZE - 1 /\ Unread > 0
      /\ Len(taken) \in Nat /\ Len(accepted) \in Nat /\ InHand = 0
      /\ slot = extract_idx
  BY UnreadFits DEF RingInv, ReaderAt, InHand, RingTypeOK, Advance
<1>1. UNCHANGED <<fifo, rx_buffer, insert_idx, accepted, taken, slot, key>>
  BY DEF Advance
<1>2. reader' = "advanced" /\ InHand' = 1 /\ extract_idx' = Bump(extract_idx)
  BY <1>0 DEF Advance, InHand
<1>3. /\ Unread' = Unread - 1
      /\ extract_idx' \in Slots
      /\ \A n \in 0 .. Unread - 2 : Wrap(extract_idx' + n) = Wrap(extract_idx + n + 1)
      /\ Wrap(extract_idx + 0) = extract_idx
  BY <1>0, <1>1, <1>2, Moved
<1>4. RingTypeOK'
  BY <1>0, <1>1, <1>2, <1>3 DEF RingTypeOK
<1>5. rx_buffer[extract_idx] = accepted[Len(taken) + 1]
  <2>1. rx_buffer[Wrap(extract_idx + 0)] = accepted[Len(taken) + InHand + 1 + 0]
    BY <1>0 DEF RingInv, Waiting
  <2> QED BY <2>1, <1>0, <1>3
<1>6. ReaderAt'
  BY <1>0, <1>1, <1>2, <1>5 DEF ReaderAt, RingInv, Lengths, Bump
<1>7. (Lengths /\ Returned)'
  BY <1>0, <1>1, <1>2, <1>3 DEF RingInv, Lengths, Returned
<1>8. Waiting'
  <2> SUFFICES ASSUME NEW n \in 0 .. Unread - 2
               PROVE  rx_buffer[Wrap(extract_idx' + n)] = accepted[Len(taken) + 2 + n]
    BY <1>0, <1>1, <1>2, <1>3 DEF Waiting, Wrap
  <2>1. rx_buffer[Wrap(extract_idx + (n + 1))] = accepted[Len(taken) + InHand + 1 + (n + 1)]
    BY <1>0 DEF RingInv, Waiting
  <2>2. Len(taken) + InHand + 1 + (n + 1) = Len(taken) + 2 + n
    BY <1>0
  <2>3. Wrap(extract_idx' + n) = Wrap(extract_idx + (n + 1))
    BY <1>0, <1>3 DEF RingTypeOK, Slots
  <2> QED BY <2>1, <2>2, <2>3
<1> QED BY <1>4, <1>6, <1>7, <1>8 DEF RingInv

(* Its end, with one more character returned.                              *)
LEMMA ReturnKeeps == ASSUME RingInv, NEW c \in Keys, Return(c) PROVE RingInv'
<1> USE RingAssumption
<1>0. /\ RingTypeOK /\ Unread \in 0 .. RX_BUFFER_SIZE - 1 /\ InHand \in {0, 1}
      /\ Len(taken) \in Nat /\ Len(accepted) \in Nat
  BY UnreadFits DEF RingInv, InHand, RingTypeOK
<1>1. /\ UNCHANGED <<fifo, rx_buffer, insert_idx, accepted, slot, key>>
      /\ reader' = "idle" /\ InHand' = 0 /\ taken' = Append(taken, c)
  BY DEF Return, InHand
<1>2. /\ Len(taken') = Len(taken) + 1
      /\ taken'[Len(taken) + 1] = c
      /\ \A n \in 1 .. Len(taken) : taken'[n] = taken[n]
  BY <1>0, <1>1 DEF RingTypeOK
<1>3. /\ c = accepted[Len(taken) + 1]
      /\ extract_idx' \in Slots
      /\ Unread' = Len(accepted) - Len(taken) - 1
      /\ \A n \in 0 .. Unread' - 1 :
           rx_buffer[Wrap(extract_idx' + n)] = accepted[Len(taken) + 2 + n]
  <2>1. CASE reader = "fetched"
    <3>1. /\ c = rx_buffer[extract_idx] /\ Unread > 0 /\ InHand = 0
          /\ extract_idx' = Bump(extract_idx)
      BY <2>1 DEF Return, RingInv, ReaderAt, InHand
    <3>2. /\ Unread' = Unread - 1
          /\ extract_idx' \in Slots
          /\ \A n \in 0 .. Unread - 2 : Wrap(extract_idx' + n) = Wrap(extract_idx + n + 1)
          /\ Wrap(extract_idx + 0) = extract_idx
      BY <1>1, <3>1, Moved
    <3>3. rx_buffer[Wrap(extract_idx + 0)] = accepted[Len(taken) + InHand + 1 + 0]
      BY <1>0, <3>1 DEF RingInv, Waiting
    <3>4. ASSUME NEW n \in 0 .. Unread' - 1
          PROVE  rx_buffer[Wrap(extract_idx' + n)] = accepted[Len(taken) + 2 + n]
      <4>1. rx_buffer[Wrap(extract_idx + (n + 1))]
              = accepted[Len(taken) + InHand + 1 + (n + 1)]
        BY <1>0, <3>2 DEF RingInv, Waiting
      <4>2. Len(taken) + InHand + 1 + (n + 1) = Len(taken) + 2 + n
        BY <1>0, <3>1
      <4>3. Wrap(extract_idx' + n) = Wrap(extract_idx + (n + 1))
        BY <1>0, <3>2 DEF RingTypeOK, Slots
      <4> QED BY <4>1, <4>2, <4>3
    <3>5. c = accepted[Len(taken) + 1]
      BY <1>0, <3>1, <3>2, <3>3
    <3>6. Unread' = Len(accepted) - Len(taken) - 1
      BY <1>0, <3>1, <3>2 DEF RingInv, Lengths
    <3> QED BY <3>2, <3>4, <3>5, <3>6
  <2>2. CASE reader = "advanced"
    <3>1. /\ c = rx_buffer[slot] /\ UNCHANGED extract_idx /\ InHand = 1
          /\ c = accepted[Len(taken) + 1] /\ UNCHANGED Unread
      BY <1>1, <2>2 DEF Return, RingInv, ReaderAt, InHand, Unread
    <3>2. ASSUME NEW n \in 0 .. Unread - 1
          PROVE  rx_buffer[Wrap(extract_idx + n)] = accepted[Len(taken) + 2 + n]
      <4>1. rx_buffer[Wrap(extract_idx + n)] = accepted[Len(taken) + InHand + 1 + n]
        BY DEF RingInv, Waiting
      <4>2. Len(taken) + InHand + 1 + n = Len(taken) + 2 + n
        BY <1>0, <3>1
      <4> QED BY <4>1, <4>2
    <3>3. extract_idx \in Slots /\ Unread = Len(accepted) - Len(taken) - 1
      BY <1>0, <3>1 DEF RingTypeOK, RingInv, Lengths
    <3> QED BY <3>1, <3>2, <3>3
  <2> QED BY <2>1, <2>2 DEF Return
<1>4. RingTypeOK'
  BY <1>0, <1>1, <1>3 DEF RingTypeOK
<1>5. ReaderAt'
  BY <1>1 DEF ReaderAt
<1>6. Lengths'
  BY <1>0, <1>1, <1>2, <1>3 DEF Lengths
<1>7. Returned'
  BY <1>0, <1>1, <1>2, <1>3 DEF RingInv, Returned
<1>8. Waiting'
  <2> SUFFICES ASSUME NEW n \in 0 .. Unread' - 1
               PROVE  rx_buffer'[Wrap(extract_idx' + n)]
                        = accepted'[Len(taken') + InHand' + 1 + n]
    BY DEF Waiting, Wrap
  <2>1. Len(taken') + InHand' + 1 + n = Len(taken) + 2 + n
    BY <1>0, <1>1, <1>2
  <2> QED BY <1>1, <1>3, <2>1
<1> QED BY <1>4, <1>5, <1>6, <1>7, <1>8 DEF RingInv

LEMMA QueueFollows == RingInv => Queue
<1> SUFFICES ASSUME RingInv PROVE Queue
  OBVIOUS
<1>1. /\ taken \in Seq(Keys) /\ accepted \in Seq(Keys)
      /\ Unread \in 0 .. RX_BUFFER_SIZE - 1 /\ InHand \in {0, 1}
      /\ Len(accepted) = Len(taken) + InHand + Unread
      /\ \A n \in 1 .. Len(taken) : taken[n] = accepted[n]
  BY UnreadFits DEF RingInv, RingTypeOK, InHand, Lengths, Returned
<1>2. Len(taken) <= Len(accepted)
  BY <1>1
<1>3. ASSUME reader = "idle", insert_idx = extract_idx PROVE taken = accepted
  <2>1. Len(taken) = Len(accepted)
    BY <1>1, <1>3 DEF InHand, Unread, RingInv, RingTypeOK, Slots
  <2> QED BY <1>1, <2>1
<1> QED BY <1>1, <1>2, <1>3 DEF Queue

(* The ring is a queue: whatever the interrupt does between two accesses   *)
(* of getkey_serial0, in whichever order they come, the characters the     *)
(* ring took are returned in order and each once, and the ring is reported *)
(* empty only when all have been.                                          *)
THEOREM SpecQueue == RingSpec => []Queue
<1>1. RingInit => RingInv
  BY RingAssumption
  DEF RingInit, RingInv, RingTypeOK, ReaderAt, Lengths, Returned, Waiting, InHand, Unread, Slots
<1>2. RingInv /\ [RingNext]_ringvars => RingInv'
  <2> SUFFICES ASSUME RingInv, [RingNext]_ringvars PROVE RingInv'
    OBVIOUS
  <2>1. CASE UNCHANGED ringvars
    BY <2>1 DEF ringvars, uartvars, readervars, RingInv, RingTypeOK, ReaderAt, Lengths,
                Returned, Waiting, InHand, Unread
  <2>2. CASE RingNext
    BY <2>2, ArriveKeeps, InterruptKeeps, LookKeeps, AdvanceKeeps, ReturnKeeps, ReinitKeeps
    DEF RingNext
  <2> QED BY <2>1, <2>2
<1> QED BY <1>1, <1>2, QueueFollows, PTL DEF RingSpec

-------------------------------------------------------------------------------
(* The flash writer                                                        *)

USE PageAssumption, SectorAssumption, AreaAssumption, BoundAssumption

(* A sector number is one of the table, or -1.                             *)
LEMMA SectorType == ASSUME NEW a PROVE iapAddressToSector(a) \in Sectors \union {-1}
BY DEF iapAddressToSector

(* A command that fails leaves the contents of flash alone.                *)
LEMMA FailureKeeps ==
  ASSUME NEW d \in Device, NEW e \in Faulted(d) \union Fails(d)
  PROVE  e \in Device /\ e.flash = d.flash
<1>1. CASE e \in Faulted(d)
  <2>1. d.faults \in 0 .. MaxFaults /\ d.faults < MaxFaults
    BY <1>1 DEF Faulted, Device
  <2>2. e = [d EXCEPT !.reported = TRUE, !.faults = d.faults + 1]
    BY <1>1 DEF Faulted
  <2>3. d.faults + 1 \in 0 .. MaxFaults
    BY <2>1
  <2> QED
    BY <2>2, <2>3 DEF Device
<1>2. CASE e \in Fails(d)
  BY <1>2 DEF Fails, Device
<1> QED
  BY <1>1, <1>2

(* A preparation leaves the contents of flash alone.                       *)
LEMMA PrepareKeeps ==
  ASSUME NEW d \in Device, NEW sec, NEW e \in iapPrepareSectors(d, sec)
  PROVE  e \in Device /\ e.flash = d.flash
<1>1. CASE e \in Faulted(d) \union Fails(d)
  BY <1>1, FailureKeeps
<1>2. CASE sec \in Sectors /\ e = [d EXCEPT !.prepared = d.prepared \union {sec}]
  BY <1>2 DEF Device
<1> QED
  BY <1>1, <1>2 DEF iapPrepareSectors

(* An erase changes the pages of its sector only.                          *)
LEMMA EraseKeeps ==
  ASSUME NEW d \in Device, NEW sec, NEW e \in iapEraseSectors(d, sec)
  PROVE  /\ e \in Device
         /\ \A p \in Pages : iapAddressToSector(p) # sec => e.flash[p] = d.flash[p]
<1> DEFINE blank == [k \in Offset |-> Erased]
           erase(m) == [p \in DOMAIN m |-> IF iapAddressToSector(p) = sec THEN blank ELSE m[p]]
<1>1. PICK f \in iapPrepareSectors(d, sec) :
        e \in IF sec \in f.prepared
                THEN {[f EXCEPT !.prepared = {}, !.flash = erase(f.flash)]} \union Faulted(f)
                ELSE Fails(f)
  BY DEF iapEraseSectors
<1>2. f \in Device /\ f.flash = d.flash
  BY PrepareKeeps
<1>3. CASE e \in Faulted(f) \union Fails(f)
  BY <1>2, <1>3, FailureKeeps
<1>4. CASE e = [f EXCEPT !.prepared = {}, !.flash = erase(f.flash)]
  <2>1. blank \in [Offset -> Cell]
    BY DEF Cell
  <2>2. f.flash \in Memory
    BY <1>2 DEF Device
  <2> HIDE DEF blank
  <2>3. erase(f.flash) \in Memory
    BY <2>1, <2>2 DEF Memory
  <2>4. \A p \in Pages : iapAddressToSector(p) # sec => erase(f.flash)[p] = d.flash[p]
    BY <1>2, <2>2 DEF Memory
  <2> HIDE DEF erase
  <2>5. e.flash = erase(f.flash)
    BY <1>2, <1>4 DEF Device
  <2>6. e \in Device
    BY <1>2, <1>4, <2>3 DEF Device
  <2> QED
    BY <2>4, <2>5, <2>6
<1> QED
  BY <1>1, <1>3, <1>4

(* A write changes one page only.                                          *)
LEMMA WriteKeeps ==
  ASSUME NEW d \in Device, NEW a \in Pages, NEW page \in [Offset -> Cell],
         NEW e \in iapWriteSectors(d, a, page)
  PROVE  e \in Device /\ \A p \in Pages : p # a => e.flash[p] = d.flash[p]
<1> DEFINE written == [k \in Offset |-> Programmed(d.flash[a][k], page[k])]
           memory == [d.flash EXCEPT ![a] = written]
<1>1. CASE e \in Faulted(d) \union Fails(d)
  BY <1>1, FailureKeeps
<1>2. CASE e = [d EXCEPT !.prepared = {}, !.flash = memory]
  <2>1. d.flash \in Memory
    BY DEF Device
  <2>2. \A old, new \in Cell : Programmed(old, new) \in Cell
    BY DEF Programmed, Cell
  <2>3. \A k \in Offset : d.flash[a][k] \in Cell /\ page[k] \in Cell
    BY <2>1 DEF Memory
  <2>4. written \in [Offset -> Cell]
    BY <2>2, <2>3
  <2> HIDE DEF written
  <2>5. memory \in Memory /\ \A p \in Pages : p # a => memory[p] = d.flash[p]
    BY <2>1, <2>4 DEF Memory
  <2> HIDE DEF memory
  <2>6. e.flash = memory /\ e \in Device
    BY <1>2, <2>5 DEF Device
  <2> QED
    BY <2>5, <2>6
<1>3. e \in IF iapAddressToSector(a) \in d.prepared
             THEN {[d EXCEPT !.prepared = {}, !.flash = memory]} \union Faulted(d)
             ELSE Fails(d)
  BY DEF iapWriteSectors, Device
<1> QED
  BY <1>1, <1>2, <1>3

(* A flush keeps the address in the area and changes no page outside the   *)
(* sector of the page it writes.                                           *)
LEMMA FlushKeeps ==
  ASSUME FlashTypeOK, NEW page \in [Offset -> Byte], Flush(page)
  PROVE  /\ device' \in Device
         /\ lastsec' \in Sectors \union {-1}
         /\ address' \in start .. endaddress
         /\ \A p \in Pages : iapAddressToSector(p) # iapAddressToSector(address)
                               => device'.flash[p] = device.flash[p]
<1> DEFINE sec == iapAddressToSector(address)
           Same(d) == \A p \in Pages : iapAddressToSector(p) # sec
                                         => d.flash[p] = device.flash[p]
           erased == IF NewSector(sec)
                       THEN UNION {iapEraseSectors(d, sec) : d \in iapPrepareSectors(device, sec)}
                       ELSE {device}
           ready == UNION {iapPrepareSectors(d, sec) : d \in erased}
<1>1. target \in Areas /\ address \in target[1] .. target[2] /\ device \in Device
  BY DEF FlashTypeOK, start, endaddress
<1>2. target[1] \in Nat /\ target[2] \in Nat /\ target[1] <= target[2]
  BY <1>1
<1>3. address \in Pages
  BY <1>1 DEF Pages
<1>4. \A d \in erased : d \in Device /\ Same(d)
  <2>1. CASE NewSector(sec)
    <3> SUFFICES ASSUME NEW d \in erased PROVE d \in Device /\ Same(d)
      OBVIOUS
    <3>1. PICK e \in iapPrepareSectors(device, sec) : d \in iapEraseSectors(e, sec)
      BY <2>1
    <3>2. e \in Device /\ e.flash = device.flash
      BY <1>1, <3>1, PrepareKeeps
    <3> HIDE DEF sec
    <3> QED
      BY <3>1, <3>2, EraseKeeps
  <2>2. CASE ~NewSector(sec)
    BY <1>1, <2>2
  <2> QED
    BY <2>1, <2>2
<1>5. \A d \in ready : d \in Device /\ Same(d)
  <2> SUFFICES ASSUME NEW d \in ready PROVE d \in Device /\ Same(d)
    OBVIOUS
  <2>1. PICK e \in erased : d \in iapPrepareSectors(e, sec)
    OBVIOUS
  <2>2. e \in Device /\ Same(e)
    BY <1>4, <2>1
  <2>3. d \in Device /\ d.flash = e.flash
    BY <2>1, <2>2, PrepareKeeps
  <2> QED
    BY <2>2, <2>3
<1>6. PICK d \in ready : device' \in iapWriteSectors(d, address, page)
  BY DEF Flush
<1>7. page \in [Offset -> Cell]
  BY DEF Cell
<1>8. device' \in Device /\ \A p \in Pages : p # address => device'.flash[p] = d.flash[p]
  BY <1>3, <1>5, <1>6, <1>7, WriteKeeps
<1>9. Same(device')
  BY <1>5, <1>6, <1>8
<1>10. lastsec' \in Sectors \union {-1}
  BY SectorType DEF Flush
<1>11. address' \in start .. endaddress
  BY <1>1, <1>2 DEF Flush, NextPage, start, endaddress
<1> QED
  BY <1>8, <1>9, <1>10, <1>11

(* The types, with the bounds of the page buffer and of the address.       *)
THEOREM TypeCorrect == FlashSpec => []FlashTypeOK
<1>1. FlashInit => FlashTypeOK
  <2> SUFFICES ASSUME FlashInit PROVE FlashTypeOK
    OBVIOUS
  <2>1. target[1] \in Nat /\ target[2] \in Nat /\ target[1] <= target[2]
    BY DEF FlashInit
  <2>2. address \in start .. endaddress
    BY <2>1 DEF FlashInit, start, endaddress
  <2>3. pagebuf \in [Offset -> Byte]
    BY DEF FlashInit, Byte
  <2>4. [p \in Pages |-> [k \in Offset |-> Erased]] \in Memory
    BY DEF Memory, Cell
  <2>5. device \in Device
    BY <2>4 DEF FlashInit, Device
  <2>6. /\ target \in Areas /\ phase \in {"idle", "adding", "done"}
        /\ upload \in 0 .. MaxUploads /\ passed \in 0 .. MaxBytes
        /\ lastsec \in Sectors \union {-1}
    BY DEF FlashInit
  <2>7. ct \in Offset
    BY DEF FlashInit, Offset
  <2> QED
    BY <2>2, <2>3, <2>5, <2>6, <2>7 DEF FlashTypeOK
<1>2. ASSUME FlashTypeOK, NEW r \in Areas, initiapaddbuf(r) PROVE FlashTypeOK'
  <2>1. r[1] \in Nat /\ r[2] \in Nat /\ r[1] <= r[2]
    OBVIOUS
  <2>2. upload' \in 0 .. MaxUploads
    BY <1>2 DEF FlashTypeOK, initiapaddbuf
  <2>3. device' \in Device
    BY <1>2 DEF FlashTypeOK, initiapaddbuf, Device
  <2>4. pagebuf' \in [Offset -> Byte]
    BY <1>2, <2>2 DEF initiapaddbuf, Byte
  <2>5. (address \in start .. endaddress)'
    BY <1>2, <2>1 DEF initiapaddbuf, start, endaddress
  <2>6. (/\ target \in Areas /\ phase \in {"idle", "adding", "done"}
         /\ passed \in 0 .. MaxBytes
         /\ lastsec \in Sectors \union {-1})'
    BY <1>2 DEF initiapaddbuf
  <2>7. ct' \in Offset
    BY <1>2 DEF initiapaddbuf, Offset
  <2> QED
    BY <2>2, <2>3, <2>4, <2>5, <2>6, <2>7 DEF FlashTypeOK
<1>3. ASSUME FlashTypeOK, AddByte PROVE FlashTypeOK'
  <2> DEFINE page == [pagebuf EXCEPT ![ct] = <<upload, passed + 1>>]
  <2>1. passed + 1 \in 0 .. MaxBytes
    BY <1>3 DEF FlashTypeOK, AddByte
  <2>2. page \in [Offset -> Byte]
    <3>1. <<upload, passed + 1>> \in Byte
      BY <1>3, <2>1 DEF FlashTypeOK, Byte
    <3>2. pagebuf \in [Offset -> Byte]
      BY <1>3 DEF FlashTypeOK
    <3> QED
      BY <3>1, <3>2
  <2> HIDE DEF page
  <2>3. /\ device' \in Device
        /\ lastsec' \in Sectors \union {-1}
        /\ address' \in start .. endaddress
        /\ ct' \in Offset
    <3>1. CASE ct + 1 = IAPBUFLEN
      <4>1. Flush(page) /\ ct' = 0
        BY <1>3, <3>1 DEF AddByte, page
      <4> QED
        BY <1>3, <2>2, <4>1, FlushKeeps DEF Offset
    <3>2. CASE ct + 1 # IAPBUFLEN
      <4>1. ct' = ct + 1 /\ UNCHANGED <<address, lastsec, device>>
        BY <1>3, <3>2 DEF AddByte
      <4>2. ct \in 0 .. IAPBUFLEN - 1
        BY <1>3 DEF FlashTypeOK, Offset
      <4>3. ct' \in Offset
        BY <3>2, <4>1, <4>2 DEF Offset
      <4> QED
        BY <1>3, <4>1, <4>3 DEF FlashTypeOK, start, endaddress
    <3> QED
      BY <3>1, <3>2
  <2>4. /\ passed' = passed + 1 /\ pagebuf' = page
        /\ UNCHANGED <<target, phase, upload>>
    BY <1>3 DEF AddByte, page
  <2> QED
    BY <1>3, <2>1, <2>2, <2>3, <2>4 DEF FlashTypeOK, start, endaddress
<1>4. ASSUME FlashTypeOK, AddLast PROVE FlashTypeOK'
  <2>1. /\ device' \in Device
        /\ lastsec' \in Sectors \union {-1}
        /\ address' \in start .. endaddress
        /\ ct' \in Offset
    <3>1. CASE ct > 0
      <4>1. Flush(pagebuf) /\ ct' = 0
        BY <1>4, <3>1 DEF AddLast
      <4> QED
        BY <1>4, <4>1, FlushKeeps DEF Offset, FlashTypeOK
    <3>2. CASE ~(ct > 0)
      BY <1>4, <3>2 DEF AddLast, FlashTypeOK
    <3> QED
      BY <3>1, <3>2
  <2> QED
    BY <1>4, <2>1 DEF FlashTypeOK, AddLast, start, endaddress
<1>5. FlashTypeOK /\ UNCHANGED flashvars => FlashTypeOK'
  BY DEF FlashTypeOK, flashvars, start, endaddress
<1>6. FlashTypeOK /\ [FlashNext]_flashvars => FlashTypeOK'
  BY <1>2, <1>3, <1>4, <1>5 DEF FlashNext
<1> QED
  BY <1>1, <1>6, PTL DEF FlashSpec

(* An upload changes no other bank and not the configuration, however long *)
(* it is and whatever fails.                                               *)
THEOREM OthersSafe == FlashSpec => OthersKept
<1> DEFINE Kept == \A r \in Areas \ {target} : \A p \in r[1] .. r[2] :
                     device'.flash[p] = device.flash[p]
<1>1. ASSUME FlashTypeOK, NEW page \in [Offset -> Byte], Flush(page) PROVE Kept
  <2> SUFFICES ASSUME NEW r \in Areas \ {target}, NEW p \in r[1] .. r[2]
               PROVE  device'.flash[p] = device.flash[p]
    OBVIOUS
  <2>1. p \in Pages
    BY DEF Pages
  <2>2. address \in target[1] .. target[2] /\ target \in Areas
    BY <1>1 DEF FlashTypeOK, start, endaddress
  <2>3. iapAddressToSector(p) # iapAddressToSector(address)
    BY <2>2, SeparateAssumption
  <2> QED
    BY <1>1, <2>1, <2>3, FlushKeeps
<1>2. ASSUME FlashTypeOK, NEW r \in Areas, initiapaddbuf(r) PROVE Kept
  BY <1>2 DEF initiapaddbuf, FlashTypeOK, Device
<1>3. ASSUME FlashTypeOK, AddByte PROVE Kept
  <2>1. [pagebuf EXCEPT ![ct] = <<upload, passed + 1>>] \in [Offset -> Byte]
    BY <1>3 DEF FlashTypeOK, AddByte, Byte
  <2>2. Flush([pagebuf EXCEPT ![ct] = <<upload, passed + 1>>]) \/ UNCHANGED device
    BY <1>3 DEF AddByte
  <2> QED
    BY <1>1, <1>3, <2>1, <2>2
<1>4. ASSUME FlashTypeOK, AddLast PROVE Kept
  <2>1. pagebuf \in [Offset -> Byte]
    BY <1>4 DEF FlashTypeOK
  <2>2. Flush(pagebuf) \/ UNCHANGED device
    BY <1>4 DEF AddLast
  <2> QED
    BY <1>1, <1>4, <2>1, <2>2
<1>5. FlashTypeOK /\ [FlashNext]_flashvars => [Kept]_flashvars
  BY <1>2, <1>3, <1>4 DEF FlashNext
<1> QED
  BY <1>5, TypeCorrect, PTL DEF FlashSpec, OthersKept

-------------------------------------------------------------------------------
(* What an upload without an error message leaves behind.                  *)

Blank == [k \in Offset |-> Erased]

LEMMA FailureReports ==
  ASSUME NEW d \in Device, NEW e \in Faulted(d) \union Fails(d)
  PROVE  e.reported
<1>1. CASE e \in Faulted(d)
  BY <1>1 DEF Faulted, Device
<1>2. CASE e \in Fails(d)
  BY <1>2 DEF Fails, Device
<1> QED
  BY <1>1, <1>2

LEMMA PrepareSucceeds ==
  ASSUME NEW d \in Device, NEW sec, NEW e \in iapPrepareSectors(d, sec), ~e.reported
  PROVE  e \in Device /\ e.flash = d.flash /\ ~d.reported /\ sec \in Sectors
<1>1. e \notin Faulted(d) \union Fails(d)
  BY FailureReports
<1>2. sec \in Sectors /\ e = [d EXCEPT !.prepared = d.prepared \union {sec}]
  BY <1>1 DEF iapPrepareSectors
<1> QED
  BY <1>2, PrepareKeeps DEF Device

LEMMA EraseSucceeds ==
  ASSUME NEW d \in Device, NEW sec, NEW e \in iapEraseSectors(d, sec), ~e.reported
  PROVE  /\ e \in Device /\ ~d.reported
         /\ \A p \in Pages :
              e.flash[p] = IF iapAddressToSector(p) = sec THEN Blank ELSE d.flash[p]
<1> DEFINE erase(m) == [p \in DOMAIN m |-> IF iapAddressToSector(p) = sec THEN Blank ELSE m[p]]
<1>1. PICK f \in iapPrepareSectors(d, sec) :
        e \in IF sec \in f.prepared
                THEN {[f EXCEPT !.prepared = {}, !.flash = erase(f.flash)]} \union Faulted(f)
                ELSE Fails(f)
  BY DEF iapEraseSectors, Blank
<1>2. f \in Device
  BY PrepareKeeps
<1>3. e \notin Faulted(f) \union Fails(f)
  BY <1>2, FailureReports
<1>4. e = [f EXCEPT !.prepared = {}, !.flash = erase(f.flash)]
  BY <1>1, <1>3
<1>5. f.flash \in Memory
  BY <1>2 DEF Device
<1>6. \A p \in Pages :
        erase(f.flash)[p] = IF iapAddressToSector(p) = sec THEN Blank ELSE f.flash[p]
  BY <1>5 DEF Memory
<1> HIDE DEF erase
<1>7. e.flash = erase(f.flash) /\ e.reported = f.reported
  BY <1>2, <1>4 DEF Device
<1>8. f.flash = d.flash /\ ~d.reported
  BY <1>7, PrepareSucceeds
<1>9. e \in Device
  BY EraseKeeps
<1> QED
  BY <1>6, <1>7, <1>8, <1>9

LEMMA WriteSucceeds ==
  ASSUME NEW d \in Device, NEW a \in Pages, NEW page \in [Offset -> Cell],
         NEW e \in iapWriteSectors(d, a, page), ~e.reported
  PROVE  /\ ~d.reported
         /\ e.flash = [d.flash EXCEPT ![a] = [k \in Offset |-> Programmed(d.flash[a][k], page[k])]]
<1> DEFINE memory == [d.flash EXCEPT ![a] = [k \in Offset |-> Programmed(d.flash[a][k], page[k])]]
<1>1. e \notin Faulted(d) \union Fails(d)
  BY FailureReports
<1>2. d.flash \in Memory
  BY DEF Device
<1>3. e \in IF iapAddressToSector(a) \in d.prepared
             THEN {[d EXCEPT !.prepared = {}, !.flash = memory]} \union Faulted(d)
             ELSE Fails(d)
  BY DEF iapWriteSectors, Device
<1> HIDE DEF memory
<1>4. e = [d EXCEPT !.prepared = {}, !.flash = memory]
  BY <1>1, <1>3
<1>5. e.flash = memory /\ e.reported = d.reported
  BY <1>4 DEF Device
<1> QED
  BY <1>5 DEF memory

(* A page of flash before the write of a flush.                            *)
Readied(p) ==
  IF /\ NewSector(iapAddressToSector(address))
     /\ iapAddressToSector(p) = iapAddressToSector(address)
    THEN Blank ELSE device.flash[p]

(* A flush that reports nothing has done all it should.                    *)
LEMMA FlushSucceeds ==
  ASSUME FlashTypeOK, NEW page \in [Offset -> Byte], Flush(page), ~device'.reported
  PROVE  /\ ~device.reported /\ iapAddressToSector(address) \in Sectors
         /\ lastsec' = iapAddressToSector(address) /\ address' = NextPage(address)
         /\ \A p \in Pages :
              device'.flash[p] =
                IF p = address THEN [k \in Offset |-> Programmed(Readied(p)[k], page[k])]
                ELSE Readied(p)
<1> DEFINE sec == iapAddressToSector(address)
           erased == IF NewSector(sec)
                       THEN UNION {iapEraseSectors(d, sec) : d \in iapPrepareSectors(device, sec)}
                       ELSE {device}
           ready == UNION {iapPrepareSectors(d, sec) : d \in erased}
<1>1. target \in Areas /\ address \in target[1] .. target[2] /\ device \in Device
  BY DEF FlashTypeOK, start, endaddress
<1>2. address \in Pages
  BY <1>1 DEF Pages
<1>3. PICK d \in ready : device' \in iapWriteSectors(d, address, page)
  BY DEF Flush
<1>4. PICK e \in erased : d \in iapPrepareSectors(e, sec)
  OBVIOUS
<1>5. e \in Device
  <2>1. CASE NewSector(sec)
    <3>1. PICK f \in iapPrepareSectors(device, sec) : e \in iapEraseSectors(f, sec)
      BY <2>1
    <3> QED
      BY <1>1, <3>1, PrepareKeeps, EraseKeeps
  <2>2. CASE ~NewSector(sec)
    BY <1>1, <2>2
  <2> QED
    BY <2>1, <2>2
<1> HIDE DEF sec
<1>6. d \in Device
  BY <1>4, <1>5, PrepareKeeps
<1>7. page \in [Offset -> Cell]
  BY DEF Cell
<1>8. /\ ~d.reported
      /\ device'.flash = [d.flash EXCEPT ![address] =
                            [k \in Offset |-> Programmed(d.flash[address][k], page[k])]]
  BY <1>2, <1>3, <1>6, <1>7, WriteSucceeds
<1>9. ~e.reported /\ d.flash = e.flash /\ sec \in Sectors
  BY <1>4, <1>5, <1>8, PrepareSucceeds
<1>10. ~device.reported /\ \A p \in Pages : e.flash[p] = Readied(p)
  <2>1. CASE NewSector(sec)
    <3>1. PICK f \in iapPrepareSectors(device, sec) : e \in iapEraseSectors(f, sec)
      BY <2>1
    <3>2. f \in Device
      BY <1>1, <3>1, PrepareKeeps
    <3>3. /\ ~f.reported
          /\ \A p \in Pages :
               e.flash[p] = IF iapAddressToSector(p) = sec THEN Blank ELSE f.flash[p]
      BY <1>9, <3>1, <3>2, EraseSucceeds
    <3>4. ~device.reported /\ f.flash = device.flash
      BY <1>1, <3>1, <3>3, PrepareSucceeds
    <3> QED
      BY <2>1, <3>3, <3>4 DEF Readied, sec
  <2>2. CASE ~NewSector(sec)
    BY <1>9, <2>2 DEF Readied, sec
  <2> QED
    BY <2>1, <2>2
<1>11. d.flash \in Memory
  BY <1>6 DEF Device
<1>12. ASSUME NEW p \in Pages
       PROVE  device'.flash[p] =
                IF p = address THEN [k \in Offset |-> Programmed(Readied(p)[k], page[k])]
                ELSE Readied(p)
  <2>1. d.flash[p] = Readied(p)
    BY <1>9, <1>10
  <2>2. CASE p = address
    BY <1>8, <1>11, <2>1, <2>2 DEF Memory
  <2>3. CASE p # address
    BY <1>8, <1>11, <2>1, <2>3 DEF Memory
  <2> QED
    BY <2>2, <2>3
<1>13. lastsec' = sec /\ address' = NextPage(address)
  BY DEF Flush, sec
<1> QED
  BY <1>9, <1>10, <1>12, <1>13 DEF sec

(* The pages of a sector have no others between them.                      *)
LEMMA SectorsAreIntervals ==
  ASSUME NEW p \in Nat, NEW q \in Nat, NEW a \in Nat, p <= q, q <= a,
         iapAddressToSector(p) = iapAddressToSector(a), iapAddressToSector(a) \in Sectors
  PROVE  iapAddressToSector(q) = iapAddressToSector(a)
<1> DEFINE s == iapAddressToSector(a)
<1>1. \A b : iapAddressToSector(b) \in Sectors => Within(b, iapAddressToSector(b))
  <2> SUFFICES ASSUME NEW b, iapAddressToSector(b) \in Sectors
               PROVE  Within(b, iapAddressToSector(b))
    OBVIOUS
  <2>1. \E i \in Sectors : Within(b, i)
    BY DEF iapAddressToSector
  <2> QED
    BY <2>1 DEF iapAddressToSector
<1>2. Within(a, s) /\ Within(p, s) /\ s \in Sectors
  BY <1>1
<1> HIDE DEF s
<1>3. SectorEnd[s] \in Nat /\ \A j \in Sectors : SectorEnd[j] \in Nat
  BY <1>2
<1>4. Within(q, s)
  <2>1. q < SectorEnd[s]
    BY <1>2, <1>3 DEF Within
  <2>2. ASSUME NEW j \in Sectors, q < SectorEnd[j] PROVE s <= j
    <3>1. p < SectorEnd[j]
      BY <1>3, <2>2
    <3> QED
      BY <1>2, <3>1 DEF Within
  <2> QED
    BY <2>1, <2>2 DEF Within
<1>5. ASSUME NEW i \in Sectors, Within(q, i) PROVE i = s
  <2>1. i <= s /\ s <= i
    BY <1>2, <1>4, <1>5 DEF Within
  <2> QED
    BY <1>2, <2>1
<1>6. iapAddressToSector(q) = s
  BY <1>2, <1>4, <1>5 DEF iapAddressToSector
<1> QED
  BY <1>6 DEF s

-------------------------------------------------------------------------------
(* After f flushes: where the next goes, and what flash and buffer hold.   *)

Page(f) == IF start + f > endaddress THEN endaddress ELSE start + f
Sent(q) == [k \in Offset |-> <<upload, q * IAPBUFLEN + k + 1>>]

(* Every page but the last, which a long upload writes again and again.    *)
Intact(q, f) == start + q < endaddress \/ (start + q = endaddress /\ f = q + 1)

Clean(f) ==
  /\ lastsec = IF f = 0 THEN -1 ELSE iapAddressToSector(Page(f - 1))
  /\ f > 0 => lastsec \in Sectors
  /\ f > 0 => \A p \in Pages :
                start + f <= p /\ iapAddressToSector(p) = lastsec => device.flash[p] = Blank
  /\ \A q \in 0 .. f - 1 : Intact(q, f) => device.flash[start + q] = Sent(q)

Adding(f) ==
  /\ passed = f * IAPBUFLEN + ct /\ address = Page(f)
  /\ \A k \in Offset : k < ct => pagebuf[k] = Sent(f)[k]
  /\ ~device.reported => Clean(f)

(* The area of an upload, as numbers of pages.                             *)
LEMMA AreaIs ==
  ASSUME FlashTypeOK
  PROVE  /\ start \in Nat /\ endaddress \in Nat /\ start <= endaddress
         /\ \A p \in start .. endaddress : p \in Pages
         /\ device \in Device /\ device.flash \in Memory
BY DEF FlashTypeOK, start, endaddress, Pages, Device

LEMMA PageIs ==
  ASSUME FlashTypeOK, NEW f \in Nat
  PROVE  /\ Page(f) \in start .. endaddress /\ Page(f) \in Pages /\ Page(f) \in Nat
         /\ start + f <= endaddress => Page(f) = start + f
         /\ start + f > endaddress => Page(f) = endaddress
         /\ NextPage(Page(f)) = Page(f + 1)
<1>1. /\ start \in Nat /\ endaddress \in Nat /\ start <= endaddress
  BY AreaIs
<1>2. Page(f) \in start .. endaddress
  BY <1>1 DEF Page
<1>3. NextPage(Page(f)) = Page(f + 1)
  BY <1>1 DEF NextPage, Page
<1> QED
  BY <1>1, <1>2, <1>3, AreaIs DEF Page

(* One more flush of an upload that has reported nothing.                  *)
LEMMA FlushStores ==
  ASSUME FlashTypeOK, NEW f \in Nat, address = Page(f), ~device.reported => Clean(f),
         NEW page \in [Offset -> Byte], Flush(page), ~device'.reported
  PROVE  /\ address' = Page(f + 1) /\ lastsec' = iapAddressToSector(Page(f))
         /\ lastsec' \in Sectors
         /\ \A p \in Pages :
              start + f + 1 <= p /\ iapAddressToSector(p) = lastsec' => device'.flash[p] = Blank
         /\ \A q \in 0 .. f - 1 : start + q < endaddress => device'.flash[start + q] = Sent(q)
         /\ start + f <= endaddress => device'.flash[start + f] = page
<1> DEFINE a == Page(f)
           sec == iapAddressToSector(a)
<1>1. /\ start \in Nat /\ endaddress \in Nat /\ start <= endaddress
      /\ \A p \in start .. endaddress : p \in Pages
  BY AreaIs
<1>2. /\ a \in start .. endaddress /\ a \in Pages /\ a \in Nat
      /\ start + f <= endaddress => a = start + f
      /\ start + f > endaddress => a = endaddress
      /\ NextPage(a) = Page(f + 1)
  BY PageIs
<1>3. /\ ~device.reported /\ sec \in Sectors /\ lastsec' = sec /\ address' = NextPage(a)
      /\ \A p \in Pages :
           device'.flash[p] =
             IF p = a THEN [k \in Offset |-> Programmed(Readied(p)[k], page[k])]
             ELSE Readied(p)
  BY FlushSucceeds
<1>4. Clean(f)
  BY <1>3
<1>5. \A p \in Pages : Pages \subseteq Nat
  BY DEF Pages
<1>6. f > 0 => lastsec = iapAddressToSector(Page(f - 1)) /\ Page(f - 1) \in Nat
  <2> SUFFICES ASSUME f > 0 PROVE lastsec = iapAddressToSector(Page(f - 1)) /\ Page(f - 1) \in Nat
    OBVIOUS
  <2>1. f - 1 \in Nat
    OBVIOUS
  <2> QED
    BY <1>4, <2>1, PageIs DEF Clean
<1>7. f = 0 => lastsec = -1
  BY <1>4 DEF Clean
<1> HIDE DEF a, sec
<1>8. sec = iapAddressToSector(address)
  BY DEF sec, a
<1>9. NewSector(sec) <=> sec # lastsec
  BY DEF NewSector
<1>10. \A p \in Pages :
         Readied(p) = IF sec # lastsec /\ iapAddressToSector(p) = sec
                        THEN Blank ELSE device.flash[p]
  BY <1>8, <1>9 DEF Readied
(* The page before is in this sector unless the sector is new.             *)
<1>11. ASSUME f > 0, start + f > endaddress PROVE sec = lastsec
  <2>1. Page(f - 1) = endaddress
    BY <1>1, <1>11 DEF Page
  <2> QED
    BY <1>2, <1>6, <1>11, <2>1 DEF sec
<1>12. ASSUME NEW q \in 0 .. f - 1, start + q < a, iapAddressToSector(start + q) = sec
       PROVE  sec = lastsec
  <2>1. f > 0 /\ f - 1 \in Nat
    OBVIOUS
  <2>2. CASE start + f > endaddress
    BY <1>11, <2>1, <2>2
  <2>3. CASE ~(start + f > endaddress)
    <3>1. a = start + f /\ Page(f - 1) = start + (f - 1)
      BY <1>1, <1>2, <2>1, <2>3 DEF Page
    <3>2. start + q \in Nat /\ start + q <= start + (f - 1) /\ start + (f - 1) <= a
      BY <1>1, <3>1
    <3>3. iapAddressToSector(start + (f - 1)) = iapAddressToSector(a)
      <4> DEFINE b == start + q
                 e == start + (f - 1)
      <4>1. b \in Nat /\ e \in Nat /\ a \in Nat /\ b <= e /\ e <= a
        BY <1>1, <1>2, <3>2
      <4>2. iapAddressToSector(b) = iapAddressToSector(a) /\ iapAddressToSector(a) \in Sectors
        BY <1>3, <1>12 DEF sec
      <4> HIDE DEF b, e
      <4>3. iapAddressToSector(e) = iapAddressToSector(a)
        BY ONLY <4>1, <4>2, SectorsAreIntervals
      <4> QED
        BY <4>3 DEF e
    <3> QED
      BY <1>6, <2>1, <3>1, <3>3 DEF sec
  <2> QED
    BY <2>2, <2>3
<1>13. ASSUME NEW q \in 0 .. f - 1, start + q < endaddress
       PROVE  device'.flash[start + q] = Sent(q)
  <2>1. start + q \in Pages /\ start + q \in Nat
    BY <1>1, <1>13
  <2>2. start + q < a
    <3>1. CASE start + f <= endaddress
      BY <1>1, <1>2, <3>1
    <3>2. CASE ~(start + f <= endaddress)
      BY <1>1, <1>2, <1>13, <3>2
    <3> QED
      BY <3>1, <3>2
  <2>3. device'.flash[start + q] = Readied(start + q)
    <3> DEFINE b == start + q
    <3>1. b \in Pages /\ b # a
      BY <1>2, <2>1, <2>2
    <3> HIDE DEF b
    <3>2. device'.flash[b] = Readied(b)
      BY <1>3, <3>1
    <3> QED
      BY <3>2 DEF b
  <2>4. Readied(start + q) = device.flash[start + q]
    BY <1>10, <1>12, <2>1, <2>2
  <2>5. device.flash[start + q] = Sent(q)
    BY <1>4, <1>13 DEF Clean, Intact
  <2> QED
    BY <2>3, <2>4, <2>5
<1>14. ASSUME NEW p \in Pages, start + f + 1 <= p, iapAddressToSector(p) = lastsec'
       PROVE  device'.flash[p] = Blank
  <2>1. p \in Nat /\ p # a /\ start + f <= p
    BY <1>1, <1>2, <1>5, <1>14
  <2>2. device'.flash[p] = Readied(p)
    BY <1>3, <2>1
  <2>3. CASE sec # lastsec
    BY <1>3, <1>10, <1>14, <2>2, <2>3
  <2>4. CASE sec = lastsec
    <3>1. f > 0
      <4>1. lastsec # -1
        BY <1>3, <2>4
      <4> QED
        BY <1>7, <4>1
    <3>2. device.flash[p] = Blank
      BY <1>3, <1>4, <1>14, <2>1, <2>4, <3>1 DEF Clean
    <3> QED
      BY <1>10, <2>2, <2>4, <3>2
  <2> QED
    BY <2>3, <2>4
<1>15. ASSUME start + f <= endaddress PROVE device'.flash[start + f] = page
  <2>1. a = start + f /\ iapAddressToSector(a) = sec
    BY <1>2, <1>15 DEF sec
  <2>2. Readied(a) = Blank
    <3>1. CASE sec # lastsec
      BY <1>2, <1>10, <2>1, <3>1
    <3>2. CASE sec = lastsec
      <4>1. f > 0
        <5>1. lastsec # -1
          BY <1>3, <3>2
        <5> QED
          BY <1>7, <5>1
      <4>2. device.flash[a] = Blank
        BY <1>2, <1>4, <2>1, <3>2, <4>1 DEF Clean
      <4> QED
        BY <1>2, <1>10, <3>2, <4>2
    <3> QED
      BY <3>1, <3>2
  <2>3. device'.flash[a] = [k \in Offset |-> Programmed(Blank[k], page[k])]
    BY <1>2, <1>3, <2>2
  <2>4. \A k \in Offset : Programmed(Blank[k], page[k]) = page[k]
    BY DEF Programmed, Blank
  <2> QED
    BY <2>1, <2>3, <2>4
<1> QED
  BY <1>2, <1>3, <1>13, <1>14, <1>15 DEF sec, a

(* An upload that starts has flushed nothing and finds nothing erased.     *)
LEMMA StartStores ==
  ASSUME FlashTypeOK, NEW r \in Areas, initiapaddbuf(r)
  PROVE  Adding(0)'
<1>1. /\ target' = r /\ address' = r[1] /\ passed' = 0 /\ ct' = 0 /\ lastsec' = -1
  BY DEF initiapaddbuf
<1>2. r[1] \in Nat /\ r[2] \in Nat /\ r[1] <= r[2]
  OBVIOUS
<1>3. Page(0)' = r[1]
  BY <1>1, <1>2 DEF Page, start, endaddress
<1>4. passed' = 0 * IAPBUFLEN + ct'
  BY <1>1
<1>5. \A k \in Offset : ~(k < ct')
  BY <1>1 DEF Offset
<1>6. Clean(0)'
  BY <1>1 DEF Clean
<1> QED
  BY <1>1, <1>3, <1>4, <1>5, <1>6 DEF Adding

(* A flush of a full page, or of the last one.                             *)
LEMMA FlushGoesOn ==
  ASSUME FlashTypeOK, NEW f \in Nat, address = Page(f), ~device.reported => Clean(f),
         NEW page \in [Offset -> Byte], Flush(page), UNCHANGED <<target, upload>>
  PROVE  /\ address' = Page(f + 1)'
         /\ ~device'.reported =>
              /\ \A q \in 0 .. f - 1 : start + q < endaddress =>
                   device'.flash[start + q] = Sent(q)
              /\ start + f <= endaddress => device'.flash[start + f] = page
              /\ page = Sent(f) => Clean(f + 1)'
<1>1. /\ start' = start /\ endaddress' = endaddress
      /\ \A q : Sent(q)' = Sent(q) /\ Page(q)' = Page(q)
  BY DEF start, endaddress, Sent, Page
<1>2. address' = Page(f + 1)
  BY PageIs DEF Flush
<1>3. ASSUME ~device'.reported
      PROVE  /\ \A q \in 0 .. f - 1 : start + q < endaddress =>
                  device'.flash[start + q] = Sent(q)
             /\ start + f <= endaddress => device'.flash[start + f] = page
             /\ page = Sent(f) => Clean(f + 1)'
  <2>1. /\ lastsec' = iapAddressToSector(Page(f)) /\ lastsec' \in Sectors
        /\ \A p \in Pages :
             start + f + 1 <= p /\ iapAddressToSector(p) = lastsec' => device'.flash[p] = Blank
        /\ \A q \in 0 .. f - 1 : start + q < endaddress => device'.flash[start + q] = Sent(q)
        /\ start + f <= endaddress => device'.flash[start + f] = page
    BY <1>3, FlushStores
  <2>2. ASSUME page = Sent(f) PROVE Clean(f + 1)'
    <3>0. start \in Nat /\ endaddress \in Nat /\ start <= endaddress
      BY AreaIs
    <3>1. lastsec' = IF f + 1 = 0 THEN -1 ELSE iapAddressToSector(Page((f + 1) - 1)')
      <4>1. f + 1 # 0 /\ (f + 1) - 1 = f
        OBVIOUS
      <4> QED
        BY <1>1, <2>1, <4>1
    <3>2. \A p \in Pages :
            start' + (f + 1) <= p /\ iapAddressToSector(p) = lastsec' => device'.flash[p] = Blank
      <4>1. \A p \in Pages : p \in Nat
        BY DEF Pages
      <4>2. \A p \in Pages : start' + (f + 1) <= p => start + f + 1 <= p
        BY <1>1, <3>0, <4>1
      <4> QED
        BY <2>1, <4>2
    <3>3. ASSUME NEW q \in 0 .. (f + 1) - 1, Intact(q, f + 1)'
          PROVE  device'.flash[start' + q] = Sent(q)'
      <4>1. start + q < endaddress \/ (start + q = endaddress /\ q = f)
        BY <1>1, <3>3 DEF Intact
      <4>2. CASE q = f
        BY <1>1, <2>1, <2>2, <3>0, <4>1, <4>2
      <4>3. CASE q # f
        <5>1. q \in 0 .. f - 1 /\ start + q < endaddress
          BY <4>1, <4>3
        <5> QED
          BY <1>1, <2>1, <5>1
      <4> QED
        BY <4>2, <4>3
    <3> QED
      BY <2>1, <3>1, <3>2, <3>3 DEF Clean
  <2> QED
    BY <2>1, <2>2
<1> QED
  BY <1>1, <1>2, <1>3

(* Where byte i of an upload goes.                                         *)
LEMMA Places ==
  ASSUME NEW i \in Nat \ {0}
  PROVE  \E q \in Nat, k \in Offset :
           /\ (i - 1) \div IAPBUFLEN = q /\ (i - 1) % IAPBUFLEN = k
           /\ i = q * IAPBUFLEN + k + 1
<1> DEFINE q == (i - 1) \div IAPBUFLEN
           k == (i - 1) % IAPBUFLEN
<1>1. i - 1 \in Nat /\ IAPBUFLEN \in Nat /\ IAPBUFLEN > 0
  OBVIOUS
<1>2. q \in Nat /\ k \in 0 .. IAPBUFLEN - 1 /\ i - 1 = q * IAPBUFLEN + k
  BY <1>1
<1> HIDE DEF q, k
<1>3. i = q * IAPBUFLEN + k + 1
  BY <1>2
<1> QED
  BY <1>2, <1>3 DEF q, k, Offset

(* Pages in the order of the bytes.                                        *)
LEMMA PagesInOrder ==
  /\ \A f \in Nat : f * IAPBUFLEN \in Nat /\ (f + 1) * IAPBUFLEN = f * IAPBUFLEN + IAPBUFLEN
  /\ \A f, q \in Nat : f <= q => f * IAPBUFLEN <= q * IAPBUFLEN
<1>1. IAPBUFLEN \in Nat
  OBVIOUS
<1>2. ASSUME NEW f \in Nat, NEW q \in Nat, f <= q
      PROVE  f * IAPBUFLEN <= q * IAPBUFLEN
  <2> DEFINE d == q - f
  <2>1. d \in Nat /\ q = f + d
    BY <1>2
  <2> HIDE DEF d
  <2>2. q * IAPBUFLEN = f * IAPBUFLEN + d * IAPBUFLEN
    BY <1>1, <2>1
  <2>3. d * IAPBUFLEN \in Nat /\ f * IAPBUFLEN \in Nat
    BY <1>1, <2>1
  <2> QED
    BY <2>2, <2>3
<1>3. \A f \in Nat : f * IAPBUFLEN \in Nat /\ (f + 1) * IAPBUFLEN = f * IAPBUFLEN + IAPBUFLEN
  BY <1>1
<1> QED
  BY <1>2, <1>3

LEMMA ByteGoesOn ==
  ASSUME FlashTypeOK, NEW f \in Nat, Adding(f), AddByte
  PROVE  \E g \in Nat : Adding(g)'
<1> DEFINE page == [pagebuf EXCEPT ![ct] = <<upload, passed + 1>>]
           size == f * IAPBUFLEN
<1>1. /\ ct \in 0 .. IAPBUFLEN - 1 /\ ct \in Nat /\ pagebuf \in [Offset -> Byte]
      /\ passed \in Nat /\ upload \in 0 .. MaxUploads /\ IAPBUFLEN \in Nat
  BY DEF FlashTypeOK, Offset
<1>2. /\ passed < MaxBytes /\ passed' = passed + 1 /\ pagebuf' = page
      /\ UNCHANGED <<target, phase, upload>>
  BY DEF AddByte
<1>3. /\ size \in Nat /\ passed = size + ct /\ address = Page(f)
      /\ \A k \in Offset : k < ct => pagebuf[k] = Sent(f)[k]
      /\ ~device.reported => Clean(f)
  BY PagesInOrder DEF Adding
<1>4. /\ start' = start /\ endaddress' = endaddress
      /\ \A q : Sent(q)' = Sent(q) /\ Page(q)' = Page(q)
  BY <1>2 DEF start, endaddress, Sent, Page
<1>5. \A k \in Offset : k < ct + 1 => page[k] = Sent(f)[k]
  <2> SUFFICES ASSUME NEW k \in Offset, k < ct + 1 PROVE page[k] = Sent(f)[k]
    OBVIOUS
  <2>1. Sent(f)[k] = <<upload, size + k + 1>> /\ k \in Nat
    BY DEF Sent, Offset
  <2> HIDE DEF size
  <2>2. CASE k = ct
    BY <1>1, <1>3, <2>1, <2>2 DEF Offset
  <2>3. CASE k # ct
    <3>1. k < ct
      BY <1>1, <2>1, <2>3
    <3> QED
      BY <1>1, <1>3, <2>3, <3>1 DEF Offset
  <2> QED
    BY <2>2, <2>3
<1>6. page \in [Offset -> Byte]
  <2>1. <<upload, passed + 1>> \in Byte
    BY <1>1, <1>2 DEF Byte
  <2> QED
    BY <1>1, <2>1
<1> HIDE DEF page, size
<1>7. CASE ct + 1 = IAPBUFLEN
  <2>1. Flush(page) /\ ct' = 0
    BY <1>7 DEF AddByte, page
  <2>2. page = Sent(f)
    <3>1. \A k \in Offset : k < ct + 1
      BY <1>1, <1>7 DEF Offset
    <3>2. \A k \in Offset : page[k] = Sent(f)[k]
      BY <1>5, <3>1
    <3> QED
      BY <1>6, <3>2 DEF Sent
  <2>3. address' = Page(f + 1)' /\ (~device'.reported => Clean(f + 1)')
    BY <1>2, <1>3, <1>6, <2>1, <2>2, FlushGoesOn
  <2>4. passed' = (f + 1) * IAPBUFLEN + 0
    <3>1. (f + 1) * IAPBUFLEN = size + IAPBUFLEN
      BY PagesInOrder DEF size
    <3> QED
      BY <1>1, <1>2, <1>3, <1>7, <3>1
  <2>5. \A k \in Offset : ~(k < ct')
    BY <2>1 DEF Offset
  <2>6. Adding(f + 1)'
    BY <2>1, <2>3, <2>4, <2>5 DEF Adding
  <2> QED
    BY <2>6
<1>8. CASE ct + 1 # IAPBUFLEN
  <2>1. ct' = ct + 1 /\ UNCHANGED <<address, lastsec, device>>
    BY <1>8 DEF AddByte
  <2>2. Clean(f)' <=> Clean(f)
    BY <1>4, <2>1 DEF Clean, Intact
  <2>3. passed' = size + ct'
    BY <1>1, <1>2, <1>3, <2>1
  <2>4. \A k \in Offset : k < ct' => pagebuf'[k] = Sent(f)'[k]
    BY <1>2, <1>4, <1>5, <2>1
  <2>5. address' = Page(f)' /\ (~device'.reported => Clean(f)')
    BY <1>3, <1>4, <2>1, <2>2
  <2>6. Adding(f)'
    BY <2>3, <2>4, <2>5 DEF Adding, size
  <2> QED
    BY <2>6
<1> QED
  BY <1>7, <1>8

LEMMA LastStores ==
  ASSUME FlashTypeOK, NEW f \in Nat, Adding(f), AddLast
  PROVE  Stored'
<1>1. /\ ct \in 0 .. IAPBUFLEN - 1 /\ ct \in Nat /\ pagebuf \in [Offset -> Byte]
      /\ passed \in Nat /\ IAPBUFLEN \in Nat \ {0}
      /\ start \in Nat /\ endaddress \in Nat /\ start <= endaddress
  BY AreaIs DEF FlashTypeOK, Offset
<1>2. /\ UNCHANGED <<target, upload, passed, pagebuf>> /\ start' = start /\ endaddress' = endaddress
  BY DEF AddLast, start, endaddress
<1>3. /\ passed = f * IAPBUFLEN + ct /\ address = Page(f)
      /\ \A k \in Offset : k < ct => pagebuf[k] = Sent(f)[k]
      /\ ~device.reported => Clean(f)
  BY DEF Adding
<1> SUFFICES ASSUME ~device'.reported, NEW i \in 1 .. passed', Fits' \/ PageOf(i)' < endaddress'
             PROVE  device'.flash[PageOf(i)'][(i - 1) % IAPBUFLEN] = <<upload', i>>
  BY DEF Stored
<1>4. i \in 1 .. passed /\ i \in Nat \ {0}
  BY <1>1, <1>2
<1>5. PICK q \in Nat, k \in Offset :
        /\ (i - 1) \div IAPBUFLEN = q /\ (i - 1) % IAPBUFLEN = k
        /\ i = q * IAPBUFLEN + k + 1
  BY <1>4, Places
<1>6. PageOf(i)' = start + q
  BY <1>2, <1>5 DEF PageOf
<1>7. (\/ passed <= (endaddress - start + 1) * IAPBUFLEN) \/ start + q < endaddress
  BY <1>2, <1>6 DEF Fits
<1>8. Sent(q)[k] = <<upload, i>>
  BY <1>5 DEF Sent
<1>9. SUFFICES device'.flash[start + q] = Sent(q) \/ device'.flash[start + q][k] = Sent(q)[k]
  BY <1>2, <1>5, <1>6, <1>8
<1> DEFINE all == endaddress - start + 1
           size == f * IAPBUFLEN
           before == q * IAPBUFLEN
           room == all * IAPBUFLEN
<1>10. /\ size \in Nat /\ before \in Nat /\ all \in Nat /\ room \in Nat /\ k \in Nat
       /\ k < IAPBUFLEN
  BY <1>1, PagesInOrder DEF Offset
(* The order of the pages is that of the bytes before them.                *)
<1>11. /\ f + 1 <= q => size + IAPBUFLEN <= before
       /\ q + 1 <= f => before + IAPBUFLEN <= size
       /\ all + 1 <= f => room + IAPBUFLEN <= size
       /\ all <= f => room <= size
       /\ f <= q => size <= before
  <2>1. \A m, n \in Nat : m + 1 <= n => m * IAPBUFLEN + IAPBUFLEN <= n * IAPBUFLEN
    <3> SUFFICES ASSUME NEW m \in Nat, NEW n \in Nat, m + 1 <= n
                 PROVE  m * IAPBUFLEN + IAPBUFLEN <= n * IAPBUFLEN
      OBVIOUS
    <3>1. m + 1 \in Nat /\ (m + 1) * IAPBUFLEN = m * IAPBUFLEN + IAPBUFLEN
      BY PagesInOrder
    <3>2. (m + 1) * IAPBUFLEN <= n * IAPBUFLEN
      BY <3>1, PagesInOrder
    <3> QED
      BY <3>1, <3>2
  <2>2. all \in Nat
    BY <1>10
  <2> HIDE DEF all
  <2> QED
    BY <2>1, <2>2, PagesInOrder
<1> HIDE DEF size, before, room
<1>12. passed = size + ct /\ i = before + k + 1 /\ before + k + 1 <= size + ct
  BY <1>1, <1>3, <1>4, <1>5 DEF size, before
<1>13. q <= f
  BY <1>1, <1>10, <1>11, <1>12
<1>14. CASE ct > 0
  <2>1. Flush(pagebuf)
    BY <1>14 DEF AddLast
  <2>2. /\ \A p \in 0 .. f - 1 : start + p < endaddress => device'.flash[start + p] = Sent(p)
        /\ start + f <= endaddress => device'.flash[start + f] = pagebuf
    BY <1>1, <1>2, <1>3, <2>1, FlushGoesOn
  <2>3. start + f <= endaddress \/ start + q < endaddress
    <3>1. CASE passed <= room
      <4>1. ~(all <= f)
        BY <1>1, <1>10, <1>11, <1>12, <1>14, <3>1
      <4> QED
        BY <1>1, <4>1
    <3> QED
      BY <1>7, <3>1 DEF room
  <2>4. CASE q = f
    <3>1. start + f <= endaddress
      BY <1>1, <2>3, <2>4
    <3>2. k < ct
      BY <1>1, <1>10, <1>11, <1>12, <2>4
    <3> QED
      BY <1>3, <2>2, <2>4, <3>1, <3>2
  <2>5. CASE q # f
    <3>1. q \in 0 .. f - 1 /\ start + q < endaddress
      BY <1>1, <1>13, <2>3, <2>5
    <3> QED
      BY <2>2, <3>1
  <2> QED
    BY <2>4, <2>5
<1>15. CASE ~(ct > 0)
  <2>1. ct = 0 /\ device' = device
    BY <1>1, <1>15 DEF AddLast
  <2>2. Clean(f)
    BY <1>3, <2>1
  <2>3. q \in 0 .. f - 1
    <3>1. q # f
      BY <1>10, <1>11, <1>12, <2>1
    <3> QED
      BY <1>13, <3>1
  <2>4. Intact(q, f)
    <3>1. CASE passed <= room
      <4>1. ~(all + 1 <= f)
        BY <1>1, <1>10, <1>11, <1>12, <2>1, <3>1
      <4> QED
        BY <1>1, <2>3, <4>1 DEF Intact
    <3> QED
      BY <1>7, <3>1 DEF Intact, room
  <2> QED
    BY <2>1, <2>2, <2>3, <2>4 DEF Clean
<1> QED
  BY <1>14, <1>15

(* An upload that reported no error is in flash, byte for byte, whatever   *)
(* the area held before, however the uploads before it ended, and for any  *)
(* length that the area has room for; of a longer one all but the last     *)
(* page is.                                                                *)
THEOREM StoredSafe == FlashSpec => []Stored
<1> DEFINE Inv == Stored /\ (phase = "adding" => \E f \in Nat : Adding(f))
<1>1. FlashInit => Inv
  BY DEF FlashInit, Stored
<1>2. FlashTypeOK /\ Inv /\ [FlashNext]_flashvars => Inv'
  <2> SUFFICES ASSUME FlashTypeOK, Inv, [FlashNext]_flashvars PROVE Inv'
    OBVIOUS
  <2>1. ASSUME NEW r \in Areas, initiapaddbuf(r) PROVE Inv'
    <3>1. Adding(0)' /\ phase' = "adding" /\ 0 \in Nat
      BY <2>1, StartStores DEF initiapaddbuf
    <3> QED
      BY <3>1 DEF Stored
  <2>2. CASE AddByte
    <3>1. phase = "adding" /\ phase' = "adding"
      BY <2>2 DEF AddByte
    <3>2. \E g \in Nat : Adding(g)'
      BY <2>2, <3>1, ByteGoesOn
    <3> QED
      BY <3>1, <3>2 DEF Stored
  <2>3. CASE AddLast
    <3>1. phase = "adding" /\ phase' = "done"
      BY <2>3 DEF AddLast
    <3>2. Stored'
      BY <2>3, <3>1, LastStores
    <3> QED
      BY <3>1, <3>2
  <2>4. CASE UNCHANGED flashvars
    <3>1. Stored' <=> Stored
      BY <2>4 DEF flashvars, Stored, Fits, PageOf, start, endaddress
    <3>2. \A f : Adding(f)' <=> Adding(f)
      BY <2>4 DEF flashvars, Adding, Clean, Intact, Page, Sent, start, endaddress
    <3> QED
      BY <2>4, <3>1, <3>2 DEF flashvars
  <2> QED
    BY <2>1, <2>2, <2>3, <2>4 DEF FlashNext
<1>3. Inv => Stored
  OBVIOUS
<1> HIDE DEF Inv
<1> QED
  BY <1>1, <1>2, <1>3, TypeCorrect, PTL DEF FlashSpec

-------------------------------------------------------------------------------
(* The tokenizer                                                           *)

Token == {k.token : k \in Keywords}
Letter == Char \union {Zero, Stale}
Run == [at : Nat, tk : [inquote : BOOLEAN, notlastspace : BOOLEAN],
        out : Seq(Letter \union Token)]
Begin == [at |-> 0, tk |-> FreshState, out |-> <<>>]

Readable(s) == \A i \in Int : CharAt(s, i) \in Letter

(* Turn after turn, each from before e, leads from r0 to r.                *)
Closed(s, e, P) == \A q \in P : q.at < e => Turn(s, q) \in P
Leads(s, e, r0, r) == \A P \in SUBSET Run : r0 \in P /\ Closed(s, e, P) => r \in P

(* How far a turn looks ahead.                                             *)
Ahead == LINEBUFTHRESHOLD - LINEBUFHALFLEN

(* Nothing a turn asks tells place i of s from place j of s2.              *)
Alike(s, i, s2, j) ==
  /\ CharAt(s, i) = CharAt(s2, j)
  /\ CharAt(s, i) = Quote => (CharAt(s, i + 1) = Quote <=> CharAt(s2, j + 1) = Quote)
  /\ \A k \in Keywords : Matches(k, s, i) <=> Matches(k, s2, j)

Shifted(r, d) == [at |-> r.at + d, tk |-> r.tk, out |-> r.out]

LEMMA RunIs ==
  ASSUME NEW r \in Run
  PROVE  /\ r.at \in Nat /\ r.tk.inquote \in BOOLEAN /\ r.tk.notlastspace \in BOOLEAN
         /\ r.tk = [inquote |-> r.tk.inquote, notlastspace |-> r.tk.notlastspace]
         /\ r.out \in Seq(Letter \union Token)
         /\ r = [at |-> r.at, tk |-> r.tk, out |-> r.out]
BY DEF Run

LEMMA NameIs ==
  ASSUME NEW k \in Keywords
  PROVE  /\ k.name \in Seq(Plain) /\ Len(k.name) \in 1 .. Ahead - 1
         /\ DOMAIN k.name = 1 .. Len(k.name)
         /\ \A j \in 1 .. Len(k.name) : k.name[j] \in Plain
<1>1. k.name \in Seq(Plain) /\ k.name # <<>> /\ Len(k.name) < Ahead /\ Ahead \in Nat
  BY BufferAssumption DEF Ahead
<1>2. Len(k.name) \in Nat /\ Len(k.name) # 0
  BY <1>1, EmptySeq, LenProperties
<1>3. DOMAIN k.name = 1 .. Len(k.name)
  BY <1>1, LenProperties
<1>4. ASSUME NEW j \in 1 .. Len(k.name) PROVE k.name[j] \in Plain
  BY <1>1, <1>4, ElementOfSeq
<1> QED BY <1>1, <1>2, <1>3, <1>4

(* What a turn leaves.                                                     *)
LEMMA TurnIs ==
  ASSUME NEW s, Readable(s), NEW r \in Run
  PROVE  /\ Turn(s, r) \in Run
         /\ Turn(s, r).at \in r.at + 1 .. r.at + Ahead + 1
         /\ \/ /\ Turn(s, r).at = r.at + 1
               /\ Turn(s, r).out = Append(r.out, CharAt(s, r.at))
            \/ /\ Turn(s, r).at = r.at + 2
               /\ Turn(s, r).out = r.out \o <<Quote, Quote>>
               /\ CharAt(s, r.at) = Quote /\ CharAt(s, r.at + 1) = Quote
            \/ \E k \in Keywords :
                 /\ Matches(k, s, r.at)
                 /\ Turn(s, r).at = r.at + Len(k.name)
                 /\ Turn(s, r).out = Append(r.out, k.token)
<1> DEFINE c == CharAt(s, r.at)
           found == IF c = Quote \/ r.tk.notlastspace THEN {} ELSE {k \in Keywords : Matches(k, s, r.at)}
           S == Letter \union Token
<1>0. r.at \in Nat /\ r.at \in Int /\ r.at + 1 \in Int /\ r.out \in Seq(S) /\ Ahead \in Nat \ {0}
  <2>1. r.at \in Nat /\ r.out \in Seq(S)
    BY RunIs
  <2>2. Ahead \in Nat \ {0}
    BY BufferAssumption DEF Ahead
  <2> QED BY ONLY <2>1, <2>2
<1>1. c \in Letter /\ CharAt(s, r.at + 1) \in Letter
  BY <1>0 DEF Readable
<1>2. CASE r.tk.inquote
  <2>0. Turn(s, r) = LET turn == QuotedTurn(s, r.at, r.tk)
                     IN  [at |-> r.at + turn.width, tk |-> turn.tk, out |-> r.out \o turn.emit]
    BY <1>2 DEF Turn
  <2>1. CASE c # Quote
    <3>1. Turn(s, r) = [at |-> r.at + 1, tk |-> [r.tk EXCEPT !.inquote = c # Newline],
                        out |-> r.out \o <<c>>]
      BY <2>0, <2>1 DEF QuotedTurn
    <3>2. r.out \o <<c>> = Append(r.out, c) /\ Append(r.out, c) \in Seq(S)
      BY <1>0, <1>1
    <3>3. [r.tk EXCEPT !.inquote = c # Newline] \in [inquote : BOOLEAN, notlastspace : BOOLEAN]
      BY DEF Run
    <3>4. Turn(s, r) \in Run
      BY <1>0, <3>1, <3>2, <3>3 DEF Run
    <3> QED BY <1>0, <3>1, <3>2, <3>4
  <2>2. CASE c = Quote /\ CharAt(s, r.at + 1) = Quote
    <3>1. Turn(s, r) = [at |-> r.at + 2, tk |-> r.tk, out |-> r.out \o <<Quote, Quote>>]
      BY <2>0, <2>2 DEF QuotedTurn
    <3>2. r.out \o <<Quote, Quote>> \in Seq(S)
      BY <1>0 DEF Letter, Char
    <3>3. Turn(s, r) \in Run
      BY <1>0, <3>1, <3>2 DEF Run
    <3>4. Turn(s, r).at = r.at + 2 /\ Turn(s, r).out = r.out \o <<Quote, Quote>>
      BY <3>1
    <3>5. r.at + 2 \in r.at + 1 .. r.at + Ahead + 1
      BY <1>0
    <3> QED BY <2>2, <3>3, <3>4, <3>5
  <2>3. CASE c = Quote /\ CharAt(s, r.at + 1) # Quote
    <3>1. Turn(s, r) = [at |-> r.at + 1, tk |-> [r.tk EXCEPT !.inquote = FALSE], out |-> r.out \o <<Quote>>]
      BY <2>0, <2>3 DEF QuotedTurn
    <3>2. r.out \o <<Quote>> = Append(r.out, Quote) /\ Append(r.out, Quote) \in Seq(S)
      BY <1>0, <1>1, <2>3
    <3>3. [r.tk EXCEPT !.inquote = FALSE] \in [inquote : BOOLEAN, notlastspace : BOOLEAN]
      BY DEF Run
    <3>4. Turn(s, r) \in Run
      BY <1>0, <3>1, <3>2, <3>3 DEF Run
    <3> QED BY <1>0, <2>3, <3>1, <3>2, <3>4, SMTT(30)
  <2> QED BY <2>1, <2>2, <2>3
<1>3. CASE ~r.tk.inquote
  <2>0. Turn(s, r) = LET turn == PlainTurn(s, r.at, r.tk)
                     IN  [at |-> r.at + turn.width, tk |-> turn.tk, out |-> r.out \o turn.emit]
    BY <1>3 DEF Turn
  <2>1. CASE found # {}
    <3> DEFINE k == CHOOSE x \in found : TRUE
    <3>1. k \in found
      BY <2>1
    <3>2. k \in Keywords /\ Matches(k, s, r.at)
      BY <3>1
    <3>3. PlainTurn(s, r.at, r.tk) = [emit |-> <<k.token>>, width |-> Len(k.name),
                                      tk |-> [r.tk EXCEPT !.notlastspace = FALSE]]
      BY <2>1 DEF PlainTurn
    <3> HIDE DEF k, found
    <3>4. Turn(s, r) = [at |-> r.at + Len(k.name), tk |-> [r.tk EXCEPT !.notlastspace = FALSE],
                        out |-> r.out \o <<k.token>>]
      BY <2>0, <3>3
    <3>5. Len(k.name) \in 1 .. Ahead - 1
      BY <3>2, NameIs
    <3>6. k.token \in S
      BY <3>2 DEF Token
    <3>7. r.out \o <<k.token>> = Append(r.out, k.token) /\ Append(r.out, k.token) \in Seq(S)
      BY <1>0, <3>6
    <3>8. [r.tk EXCEPT !.notlastspace = FALSE] \in [inquote : BOOLEAN, notlastspace : BOOLEAN]
      BY DEF Run
    <3>9. Turn(s, r) \in Run
      BY <1>0, <3>4, <3>5, <3>7, <3>8, SMTT(30) DEF Run
    <3>10. Turn(s, r).at = r.at + Len(k.name) /\ Turn(s, r).out = Append(r.out, k.token)
      BY <3>4, <3>7
    <3>11. r.at + Len(k.name) \in r.at + 1 .. r.at + Ahead + 1
      BY <1>0, <3>5, SMTT(30)
    <3> QED BY <3>2, <3>9, <3>10, <3>11
  <2>2. CASE found = {}
    <3>1. PlainTurn(s, r.at, r.tk) = [emit |-> <<c>>, width |-> 1,
                                      tk |-> [inquote |-> c = Quote, notlastspace |-> c \in Alnum]]
      BY <2>2 DEF PlainTurn
    <3>2. Turn(s, r) = [at |-> r.at + 1, tk |-> [inquote |-> c = Quote, notlastspace |-> c \in Alnum],
                        out |-> r.out \o <<c>>]
      BY <2>0, <3>1
    <3>3. r.out \o <<c>> = Append(r.out, c) /\ Append(r.out, c) \in Seq(S)
      BY <1>0, <1>1
    <3>4. Turn(s, r) \in Run
      BY <1>0, <3>2, <3>3 DEF Run
    <3> QED BY <1>0, <3>2, <3>3, <3>4
  <2> QED BY <2>1, <2>2
<1> QED BY <1>2, <1>3, RunIs

(* Two places that look alike take the same turn.                          *)
LEMMA TurnAlike ==
  ASSUME NEW s, NEW s2, NEW r \in Run, NEW d \in Int, Alike(s, r.at, s2, r.at + d)
  PROVE  Turn(s2, Shifted(r, d)) = Shifted(Turn(s, r), d)
<1> DEFINE i == r.at
           j == r.at + d
<1>0. i \in Int /\ j \in Int
  <2>1. r.at \in Nat
    BY RunIs
  <2> QED BY <2>1
<1>1. Shifted(r, d).at = j /\ Shifted(r, d).tk = r.tk /\ Shifted(r, d).out = r.out
  BY DEF Shifted
<1>2. CharAt(s, i) = CharAt(s2, j)
  BY DEF Alike
<1>3. {k \in Keywords : Matches(k, s, i)} = {k \in Keywords : Matches(k, s2, j)}
  BY DEF Alike
<1>4. PlainTurn(s, i, r.tk) = PlainTurn(s2, j, r.tk)
  BY <1>2, <1>3 DEF PlainTurn
<1>5. QuotedTurn(s, i, r.tk) = QuotedTurn(s2, j, r.tk)
  BY <1>2 DEF QuotedTurn, Alike
<1> DEFINE turn == IF r.tk.inquote THEN QuotedTurn(s, i, r.tk) ELSE PlainTurn(s, i, r.tk)
<1>6. Turn(s, r) = [at |-> i + turn.width, tk |-> turn.tk, out |-> r.out \o turn.emit]
  BY DEF Turn
<1>7. Turn(s2, Shifted(r, d)) = [at |-> j + turn.width, tk |-> turn.tk, out |-> r.out \o turn.emit]
  BY <1>1, <1>4, <1>5 DEF Turn
<1>8. turn.width \in Int
  <2>1. QuotedTurn(s, i, r.tk).width \in Int
    BY DEF QuotedTurn
  <2>2. PlainTurn(s, i, r.tk).width \in Int
    <3> DEFINE found == IF CharAt(s, i) = Quote \/ r.tk.notlastspace
                          THEN {} ELSE {k \in Keywords : Matches(k, s, i)}
               k == CHOOSE x \in found : TRUE
    <3>1. CASE found = {}
      BY <3>1 DEF PlainTurn
    <3>2. CASE found # {}
      <4>1. k \in found /\ PlainTurn(s, i, r.tk).width = Len(k.name)
        BY <3>2 DEF PlainTurn
      <4>2. k \in Keywords
        BY <4>1
      <4> HIDE DEF k, found
      <4> QED BY <4>1, <4>2, NameIs
    <3> QED BY <3>1, <3>2
  <2> QED BY <2>1, <2>2
<1>9. j + turn.width = (i + turn.width) + d
  <2> HIDE DEF turn
  <2> QED BY <1>0, <1>8
<1>10. Shifted(Turn(s, r), d) = [at |-> (i + turn.width) + d, tk |-> turn.tk, out |-> r.out \o turn.emit]
  BY <1>6 DEF Shifted
<1> HIDE DEF turn
<1> QED BY <1>7, <1>9, <1>10

(* Well before the end of what is there, both see the same characters.     *)
LEMMA AlikeInside ==
  ASSUME NEW s, NEW i \in Int, NEW s2, NEW j \in Int,
         \A x \in 0 .. Ahead : CharAt(s, i + x) = CharAt(s2, j + x)
  PROVE  Alike(s, i, s2, j)
<1>0. Ahead \in Nat \ {0}
  BY BufferAssumption DEF Ahead
<1>1. CharAt(s, i) = CharAt(s2, j) /\ CharAt(s, i + 1) = CharAt(s2, j + 1)
  <2>1. CharAt(s, i + 0) = CharAt(s2, j + 0)
    BY <1>0
  <2>2. CharAt(s, i + 1) = CharAt(s2, j + 1)
    BY <1>0
  <2>3. i + 0 = i /\ j + 0 = j
    OBVIOUS
  <2> QED BY <2>1, <2>2, <2>3
<1>2. ASSUME NEW k \in Keywords PROVE Matches(k, s, i) <=> Matches(k, s2, j)
  <2>1. Len(k.name) \in 1 .. Ahead - 1 /\ DOMAIN k.name = 1 .. Len(k.name)
    BY NameIs
  <2>2. CharAt(s, i + Len(k.name)) = CharAt(s2, j + Len(k.name))
    BY <1>0, <2>1
  <2>3. ASSUME NEW x \in DOMAIN k.name PROVE CharAt(s, i + x - 1) = CharAt(s2, j + x - 1)
    <3>1. x - 1 \in 0 .. Ahead /\ x \in Int
      BY <1>0, <2>1
    <3>2. CharAt(s, i + (x - 1)) = CharAt(s2, j + (x - 1))
      BY <3>1
    <3>3. i + (x - 1) = i + x - 1 /\ j + (x - 1) = j + x - 1
      BY <3>1
    <3> QED BY <3>2, <3>3
  <2> QED BY <2>2, <2>3 DEF Matches
<1> QED BY <1>1, <1>2 DEF Alike

(* A keyword that is found ends before the zero.                           *)
LEMMA MatchEnds ==
  ASSUME NEW s, NEW i \in Int, NEW m \in Nat, CharAt(s, i + m) \notin Plain,
         NEW k \in Keywords, Matches(k, s, i)
  PROVE  Len(k.name) <= m
<1>1. Len(k.name) \in Nat /\ DOMAIN k.name = 1 .. Len(k.name)
  BY NameIs
<1> SUFFICES ASSUME m < Len(k.name) PROVE FALSE
  BY <1>1
<1>2. m + 1 \in DOMAIN k.name
  BY <1>1
<1>3. CharAt(s, i + (m + 1) - 1) = k.name[m + 1]
  BY <1>2 DEF Matches
<1>4. k.name[m + 1] \in Plain
  BY <1>1, <1>2, NameIs
<1>5. i + (m + 1) - 1 = i + m
  OBVIOUS
<1> QED BY <1>3, <1>4, <1>5

(* Up to the zero, both see the same characters, whatever is behind it.    *)
LEMMA AlikeAtEnd ==
  ASSUME NEW s, NEW i \in Int, NEW s2, NEW j \in Int, NEW m \in Nat,
         \A x \in 0 .. m : CharAt(s, i + x) = CharAt(s2, j + x),
         CharAt(s, i + m) = Zero
  PROVE  Alike(s, i, s2, j)
<1>0. i + 0 = i /\ j + 0 = j /\ 0 \in 0 .. m /\ m \in 0 .. m
  OBVIOUS
<1>1. CharAt(s, i) = CharAt(s2, j)
  BY <1>0
<1>2. CharAt(s, i + m) = Zero /\ CharAt(s2, j + m) = Zero
  BY <1>0
<1>3. CharAt(s, i) = Quote => CharAt(s, i + 1) = CharAt(s2, j + 1)
  <2> SUFFICES ASSUME CharAt(s, i) = Quote PROVE CharAt(s, i + 1) = CharAt(s2, j + 1)
    OBVIOUS
  <2>1. Quote # Zero
    BY DEF Quote, Zero
  <2>2. m # 0
    BY <1>0, <1>2, <2>1
  <2>3. 1 \in 0 .. m
    BY <2>2
  <2> QED BY <2>3
<1>4. Zero \notin Plain
  BY TokenAssumption
<1>5. ASSUME NEW k \in Keywords, Len(k.name) <= m PROVE Matches(k, s, i) <=> Matches(k, s2, j)
  <2>1. Len(k.name) \in Nat /\ DOMAIN k.name = 1 .. Len(k.name)
    BY NameIs
  <2>2. CharAt(s, i + Len(k.name)) = CharAt(s2, j + Len(k.name))
    BY <1>5, <2>1
  <2>3. ASSUME NEW x \in DOMAIN k.name PROVE CharAt(s, i + x - 1) = CharAt(s2, j + x - 1)
    <3>1. x - 1 \in 0 .. m /\ x \in Int
      BY <1>5, <2>1
    <3>2. CharAt(s, i + (x - 1)) = CharAt(s2, j + (x - 1))
      BY <3>1
    <3>3. i + (x - 1) = i + x - 1 /\ j + (x - 1) = j + x - 1
      BY <3>1
    <3> QED BY <3>2, <3>3
  <2> QED BY <2>2, <2>3 DEF Matches
<1>6. ASSUME NEW k \in Keywords PROVE Matches(k, s, i) <=> Matches(k, s2, j)
  <2>1. Matches(k, s, i) => Len(k.name) <= m
    BY <1>2, <1>4, MatchEnds
  <2>2. Matches(k, s2, j) => Len(k.name) <= m
    BY <1>2, <1>4, MatchEnds
  <2> QED BY <1>5, <2>1, <2>2
<1> QED BY <1>1, <1>3, <1>6 DEF Alike

(* Ways are followed one after the other, and carry what each turn keeps.  *)
LEMMA LeadsOn ==
  ASSUME NEW s, NEW e \in Int, NEW e2 \in Int, e <= e2, NEW r0 \in Run, NEW r1 \in Run, NEW r2 \in Run,
         Leads(s, e, r0, r1), Leads(s, e2, r1, r2)
  PROVE  Leads(s, e2, r0, r2)
<1> SUFFICES ASSUME NEW P \in SUBSET Run, r0 \in P, Closed(s, e2, P) PROVE r2 \in P
  BY DEF Leads
<1>1. ASSUME NEW q \in P PROVE q.at \in Int
  <2>1. q \in Run
    OBVIOUS
  <2>2. q.at \in Nat
    BY <2>1, RunIs
  <2> QED BY <2>2
<1>2. Closed(s, e, P)
  BY <1>1 DEF Closed
<1>3. r1 \in P
  BY <1>2 DEF Leads
<1> QED BY <1>3 DEF Leads

(* To another text, in which every place on the way has its like.          *)
LEMMA LeadsAlike ==
  ASSUME NEW s, NEW e \in Int, NEW s2, NEW d \in Nat, Readable(s),
         NEW r0 \in Run, NEW r \in Run, Leads(s, e, r0, r),
         \A i \in Nat : r0.at <= i /\ i < e => Alike(s, i, s2, i + d)
  PROVE  Leads(s2, e + d, Shifted(r0, d), Shifted(r, d))
<1> SUFFICES ASSUME NEW P \in SUBSET Run, Shifted(r0, d) \in P, Closed(s2, e + d, P)
             PROVE  Shifted(r, d) \in P
  BY DEF Leads
<1> DEFINE Q == {q \in Run : r0.at <= q.at /\ Shifted(q, d) \in P}
<1>1. r0 \in Q
  <2>1. r0.at \in Nat
    BY RunIs
  <2> QED BY <2>1
<1>2. Closed(s, e, Q)
  <2> SUFFICES ASSUME NEW q \in Q, q.at < e PROVE Turn(s, q) \in Q
    BY DEF Closed
  <2>1. q \in Run /\ q.at \in Nat /\ r0.at \in Nat /\ r0.at <= q.at /\ Shifted(q, d) \in P
    <3>1. q \in Run /\ r0.at <= q.at /\ Shifted(q, d) \in P
      OBVIOUS
    <3> QED BY <3>1, RunIs
  <2>2. Turn(s, q) \in Run /\ r0.at <= Turn(s, q).at
    <3>1. Turn(s, q) \in Run /\ Turn(s, q).at \in q.at + 1 .. q.at + Ahead + 1
      BY <2>1, TurnIs
    <3>2. Turn(s, q).at \in Nat /\ q.at + 1 <= Turn(s, q).at
      BY <2>1, <3>1, RunIs
    <3> QED BY ONLY <2>1, <3>1, <3>2
  <2>3. Turn(s2, Shifted(q, d)) = Shifted(Turn(s, q), d)
    BY <2>1, TurnAlike
  <2>4. Shifted(q, d).at < e + d
    BY <2>1 DEF Shifted
  <2>5. Turn(s2, Shifted(q, d)) \in P
    BY <2>1, <2>4 DEF Closed
  <2> QED BY <2>2, <2>3, <2>5
<1>3. Q \in SUBSET Run
  OBVIOUS
<1>4. r \in Q
  <2> HIDE DEF Q
  <2> QED BY <1>1, <1>2, <1>3 DEF Leads
<1> QED BY <1>4

(* A way that is over is the only one.                                     *)
LEMMA OneWay ==
  ASSUME NEW s, NEW e \in Int, Readable(s), NEW r0 \in Run, NEW r1 \in Run, NEW r2 \in Run,
         Leads(s, e, r0, r1), Leads(s, e, r0, r2), r1.at >= e, r2.at >= e
  PROVE  r1 = r2
<1> DEFINE Q == {q \in Run : Leads(s, e, q, r1)}
<1>0. r1.at \in Nat /\ r2.at \in Nat
  BY RunIs
<1>1. r0 \in Q
  OBVIOUS
<1>2. Closed(s, e, Q)
  <2> SUFFICES ASSUME NEW q \in Q, q.at < e PROVE Turn(s, q) \in Q
    BY DEF Closed
  <2>1. q \in Run /\ Turn(s, q) \in Run /\ q # r1
    BY <1>0, TurnIs
  <2> SUFFICES ASSUME NEW P \in SUBSET Run, Turn(s, q) \in P, Closed(s, e, P) PROVE r1 \in P
    BY <2>1 DEF Leads
  <2>2. P \union {q} \in SUBSET Run
    BY <2>1
  <2>3. Closed(s, e, P \union {q})
    BY DEF Closed
  <2>4. r1 \in P \union {q}
    BY <2>2, <2>3 DEF Leads
  <2> QED BY <2>1, <2>4
<1>3. Q \in SUBSET Run
  OBVIOUS
<1>4. r2 \in Q
  <2> HIDE DEF Q
  <2> QED BY <1>1, <1>2, <1>3 DEF Leads
<1>5. Closed(s, e, {r2})
  BY <1>0 DEF Closed
<1> QED BY <1>4, <1>5 DEF Leads

LEMMA LeastNumber ==
  ASSUME NEW S, S \subseteq Nat, S # {} PROVE \E x \in S : \A y \in S : x <= y
<1> DEFINE R == OpToRel(<, Nat)
<1>1. IsWellFoundedOn(R, Nat)
  BY NatLessThanWellFounded
<1>2. \A x, y \in Nat : y < x => <<y, x>> \in R
  BY DEF OpToRel
<1> HIDE DEF R
<1>3. PICK x \in S : \A y \in S : ~(<<y, x>> \in R)
  BY ONLY S \subseteq Nat, S # {}, <1>1, WFMin
<1>4. ASSUME NEW y \in S PROVE x <= y
  <2>1. x \in Nat /\ y \in Nat
    OBVIOUS
  <2>2. ~(y < x)
    BY ONLY <1>2, <1>3, <2>1
  <2> QED BY <2>1, <2>2
<1> QED BY <1>4

(* What holds of 0 and goes on from a number to the next holds up to n.    *)
LEMMA StepByStep ==
  ASSUME NEW n \in Nat, NEW T, 0 \in T, \A i \in 1 .. n : i - 1 \in T => i \in T
  PROVE  \A i \in 0 .. n : i \in T
<1> DEFINE S == {i \in 0 .. n : i \notin T}
<1> SUFFICES ASSUME S # {} PROVE FALSE
  OBVIOUS
<1>1. PICK x \in S : \A y \in S : x <= y
  <2>1. S \subseteq Nat
    OBVIOUS
  <2> HIDE DEF S
  <2> QED BY <2>1, LeastNumber
<1>2. x \in 1 .. n
  BY <1>1
<1>3. x - 1 \in T
  BY <1>1, <1>2
<1> QED BY <1>1, <1>2, <1>3

(* The recursion of tokenizeline, over n turns.                            *)
Turns(s, e, r0, n, f) ==
  f = [i \in 0 .. n |-> IF i = 0 THEN r0
                        ELSE IF f[i - 1].at < e THEN Turn(s, f[i - 1]) ELSE f[i - 1]]

LEMMA TokenizeIs ==
  ASSUME NEW s, NEW str, NEW e, NEW t, NEW emitted
  PROVE  tokenizeline(s, str, e, t, emitted) =
           (CHOOSE f : Turns(s, e, [at |-> str, tk |-> t, out |-> emitted], e - str, f))[e - str]
BY DEF tokenizeline, Turns

LEMMA TurnsExist ==
  ASSUME NEW s, NEW e, NEW r0, NEW n \in Nat
  PROVE  \E f : Turns(s, e, r0, n, f)
<1> DEFINE T == {m \in 0 .. n : \E f : Turns(s, e, r0, m, f)}
<1>1. 0 \in T
  <2> DEFINE f == [i \in 0 .. 0 |-> r0]
  <2>1. Turns(s, e, r0, 0, f)
    BY DEF Turns
  <2> QED BY <2>1
<1>2. ASSUME NEW m \in 1 .. n, m - 1 \in T PROVE m \in T
  <2>1. PICK f : Turns(s, e, r0, m - 1, f)
    BY <1>2
  <2> DEFINE g == [i \in 0 .. m |-> IF i < m THEN f[i]
                                    ELSE IF f[m - 1].at < e THEN Turn(s, f[m - 1]) ELSE f[m - 1]]
  <2>2. ASSUME NEW i \in 0 .. m
        PROVE  g[i] = IF i = 0 THEN r0 ELSE IF g[i - 1].at < e THEN Turn(s, g[i - 1]) ELSE g[i - 1]
    <3>1. CASE i = 0
      <4>1. f[0] = r0
        BY <2>1 DEF Turns
      <4> QED BY <3>1, <4>1
    <3>2. CASE i \in 1 .. m - 1
      <4>1. f[i] = IF f[i - 1].at < e THEN Turn(s, f[i - 1]) ELSE f[i - 1]
        BY <2>1, <3>2 DEF Turns
      <4>2. g[i] = f[i] /\ g[i - 1] = f[i - 1]
        BY <3>2
      <4> QED BY <3>2, <4>1, <4>2
    <3>3. CASE i = m
      <4>1. g[m - 1] = f[m - 1]
        OBVIOUS
      <4> QED BY <3>3, <4>1
    <3> QED BY <3>1, <3>2, <3>3
  <2>3. Turns(s, e, r0, m, g)
    <3>1. g = [i \in 0 .. m |-> g[i]]
      OBVIOUS
    <3> HIDE DEF g
    <3> QED BY <2>2, <3>1 DEF Turns
  <2>4. m \in 0 .. n
    OBVIOUS
  <2> QED BY <2>3, <2>4
<1>3. \A m \in 0 .. n : m \in T
  <2> HIDE DEF T
  <2> QED BY <1>1, <1>2, StepByStep
<1> QED BY <1>3

(* tokenizeline goes turn by turn until it is at the end.                  *)
LEMMA TokenizeLeads ==
  ASSUME NEW s, Readable(s), NEW r0 \in Run, NEW e \in Int, r0.at <= e,
         NEW r, r = tokenizeline(s, r0.at, e, r0.tk, r0.out)
  PROVE  r \in Run /\ r.at >= e /\ Leads(s, e, r0, r)
<1> DEFINE n == e - r0.at
           f == CHOOSE g : Turns(s, e, r0, n, g)
<1>0. r0.at \in Nat /\ r0 = [at |-> r0.at, tk |-> r0.tk, out |-> r0.out]
  BY RunIs
<1>1. n \in Nat
  BY <1>0
<1>2. r = f[n]
  BY <1>0, TokenizeIs
<1>3. Turns(s, e, r0, n, f)
  BY <1>1, TurnsExist
<1> HIDE DEF f
<1> DEFINE T == {m \in 0 .. n : /\ f[m] \in Run /\ Leads(s, e, r0, f[m])
                                /\ f[m].at >= e \/ f[m].at >= r0.at + m}
<1>4. 0 \in T
  <2>1. f[0] = r0
    BY <1>1, <1>3 DEF Turns
  <2>2. Leads(s, e, r0, r0)
    BY DEF Leads
  <2> QED BY <1>0, <1>1, <2>1, <2>2
<1>5. ASSUME NEW m \in 1 .. n, m - 1 \in T PROVE m \in T
  <2> DEFINE q == f[m - 1]
  <2>1. q \in Run /\ Leads(s, e, r0, q) /\ (q.at >= e \/ q.at >= r0.at + (m - 1))
    BY <1>5
  <2>2. f[m] = IF q.at < e THEN Turn(s, q) ELSE q
    BY <1>1, <1>3 DEF Turns
  <2> HIDE DEF q
  <2>3. q.at \in Nat /\ m \in 0 .. n
    <3>1. q.at \in Nat
      BY <2>1, RunIs
    <3>2. m \in 0 .. n
      BY <1>1
    <3> QED BY <3>1, <3>2
  <2>4. CASE q.at >= e
    <3>1. f[m] = q
      BY <2>2, <2>3, <2>4
    <3> QED BY <2>1, <2>3, <2>4, <3>1
  <2>5. CASE q.at < e
    <3>1. f[m] = Turn(s, q)
      BY <2>2, <2>5
    <3>2. Turn(s, q) \in Run /\ Turn(s, q).at \in q.at + 1 .. q.at + Ahead + 1
      BY <2>1, TurnIs
    <3>3. Turn(s, q).at \in Nat
      BY <3>2, RunIs
    <3>4. Turn(s, q).at >= r0.at + m
      BY <1>0, <2>1, <2>3, <2>5, <3>2, <3>3
    <3>5. Leads(s, e, r0, Turn(s, q))
      <4> SUFFICES ASSUME NEW P \in SUBSET Run, r0 \in P, Closed(s, e, P) PROVE Turn(s, q) \in P
        BY DEF Leads
      <4>1. q \in P
        BY <2>1 DEF Leads
      <4> QED BY <2>5, <4>1 DEF Closed
    <3> QED BY <2>3, <3>1, <3>2, <3>4, <3>5
  <2> QED BY <2>3, <2>4, <2>5
<1>6. \A m \in 0 .. n : m \in T
  <2> HIDE DEF T, n
  <2> QED BY <1>1, <1>4, <1>5, StepByStep
<1>7. n \in T
  BY <1>1, <1>6
<1>8. f[n] \in Run /\ Leads(s, e, r0, f[n]) /\ (f[n].at >= e \/ f[n].at >= r0.at + n)
  BY <1>7
<1>9. f[n].at \in Nat
  <2> HIDE DEF n
  <2> QED BY <1>8, RunIs
<1>10. f[n].at >= e
  BY <1>0, <1>8, <1>9
<1> QED BY <1>2, <1>8, <1>10

-------------------------------------------------------------------------------
(* A listing gives the text back                                           *)

LEMMA SpellIs ==
  /\ \A k \in Keywords : Spell(k.token) = k.name
  /\ \A c \in Letter : Spell(c) = <<c>>
  /\ \A c \in Letter \union Token : Spell(c) \in Seq(Letter)
<1>1. ASSUME NEW k \in Keywords PROVE Spell(k.token) = k.name
  <2>1. (CHOOSE k2 \in Keywords : k2.token = k.token) = k
    BY TokenAssumption
  <2> QED BY <2>1 DEF Spell
<1>2. ASSUME NEW c \in Letter PROVE Spell(c) = <<c>>
  <2>1. \A k \in Keywords : k.token # c
    BY TokenAssumption DEF Letter
  <2> QED BY <2>1 DEF Spell
<1>3. ASSUME NEW c \in Token PROVE Spell(c) \in Seq(Letter)
  <2>1. PICK k \in Keywords : c = k.token
    BY DEF Token
  <2>2. k.name \in Seq(Plain)
    BY NameIs
  <2>3. Plain \subseteq Letter
    BY DEF Letter, Char
  <2>4. k.name \in Seq(Letter)
    BY <2>2, <2>3
  <2> QED BY <1>1, <2>1, <2>4
<1>4. ASSUME NEW c \in Letter PROVE <<c>> \in Seq(Letter)
  OBVIOUS
<1> QED BY <1>1, <1>2, <1>3, <1>4

(* The recursion of FlattenSeq.                                            *)
Flattens(ss, n, f) == f = [i \in 1 .. n |-> IF i = 1 THEN ss[i] ELSE f[i - 1] \o ss[i]]

LEMMA FlattenIs ==
  ASSUME NEW ss
  PROVE  FlattenSeq(ss) = IF Len(ss) = 0 THEN ss ELSE (CHOOSE f : Flattens(ss, Len(ss), f))[Len(ss)]
BY DEF FlattenSeq, Flattens

LEMMA FlattensExist ==
  ASSUME NEW ss, NEW n \in Nat
  PROVE  \E f : Flattens(ss, n, f)
<1> DEFINE T == {m \in 0 .. n : \E f : Flattens(ss, m, f)}
<1>1. 0 \in T
  <2> DEFINE f == [i \in 1 .. 0 |-> <<>>]
  <2>1. Flattens(ss, 0, f)
    BY DEF Flattens
  <2> QED BY <2>1
<1>2. ASSUME NEW m \in 1 .. n, m - 1 \in T PROVE m \in T
  <2>1. PICK f : Flattens(ss, m - 1, f)
    BY <1>2
  <2> DEFINE g == [i \in 1 .. m |-> IF i < m THEN f[i]
                                    ELSE IF m = 1 THEN ss[1] ELSE f[m - 1] \o ss[m]]
  <2>2. ASSUME NEW i \in 1 .. m
        PROVE  g[i] = IF i = 1 THEN ss[i] ELSE g[i - 1] \o ss[i]
    <3>1. CASE i < m
      <4>0. i \in 1 .. m - 1
        BY <3>1
      <4>1. f[i] = IF i = 1 THEN ss[i] ELSE f[i - 1] \o ss[i]
        BY <2>1, <4>0 DEF Flattens
      <4>2. g[i] = f[i] /\ (i # 1 => g[i - 1] = f[i - 1])
        BY <3>1
      <4> QED BY <4>1, <4>2
    <3>2. CASE i = m
      <4>1. m # 1 => g[m - 1] = f[m - 1]
        OBVIOUS
      <4> QED BY <3>2, <4>1
    <3> QED BY <3>1, <3>2
  <2>3. Flattens(ss, m, g)
    <3>1. g = [i \in 1 .. m |-> g[i]]
      OBVIOUS
    <3> HIDE DEF g
    <3> QED BY <2>2, <3>1 DEF Flattens
  <2>4. m \in 0 .. n
    OBVIOUS
  <2> QED BY <2>3, <2>4
<1>3. \A m \in 0 .. n : m \in T
  <2> HIDE DEF T
  <2> QED BY <1>1, <1>2, StepByStep
<1> QED BY <1>3

LEMMA FlattenAppend ==
  ASSUME NEW S, NEW ss \in Seq(Seq(S)), NEW x \in Seq(S)
  PROVE  FlattenSeq(Append(ss, x)) = FlattenSeq(ss) \o x
<1> DEFINE n == Len(ss)
           tt == Append(ss, x)
           f == CHOOSE h : Flattens(ss, n, h)
           g == CHOOSE h : Flattens(tt, n + 1, h)
<1>0. n \in Nat /\ Len(tt) = n + 1 /\ \A i \in 1 .. n : tt[i] = ss[i]
  OBVIOUS
<1>1. tt[n + 1] = x
  OBVIOUS
<1>2. Flattens(ss, n, f) /\ Flattens(tt, n + 1, g)
  <2>1. (\E h : Flattens(ss, n, h)) /\ (\E h : Flattens(tt, n + 1, h))
    <3> HIDE DEF n, tt
    <3>1. n \in Nat /\ n + 1 \in Nat
      BY <1>0
    <3>2. \E h : Flattens(ss, n, h)
      BY <3>1, FlattensExist
    <3>3. \E h : Flattens(tt, n + 1, h)
      BY <3>1, FlattensExist
    <3> QED BY <3>2, <3>3
  <2> HIDE DEF n, tt
  <2> QED BY <2>1
<1>3. FlattenSeq(tt) = g[n + 1]
  <2>1. Len(tt) # 0
    BY <1>0
  <2> HIDE DEF tt
  <2> QED BY <1>0, <2>1, FlattenIs
<1>4. FlattenSeq(ss) = IF n = 0 THEN ss ELSE f[n]
  BY FlattenIs
<1> HIDE DEF f, g, n, tt
<1>5. CASE n = 0
  <2>1. ss = <<>>
    BY <1>5 DEF n
  <2>2. g[1] = tt[1]
    BY <1>2, <1>5 DEF Flattens
  <2>3. FlattenSeq(tt) = x
    BY <1>1, <1>3, <1>5, <2>2
  <2>4. FlattenSeq(ss) = <<>>
    BY <1>4, <1>5, <2>1
  <2> QED BY <2>3, <2>4 DEF tt
<1>6. CASE n # 0
  <2> DEFINE T == {i \in 0 .. n : i = 0 \/ g[i] = f[i]}
  <2>1. 0 \in T
    BY <1>0
  <2>2. ASSUME NEW i \in 1 .. n, i - 1 \in T PROVE i \in T
    <3>0. i \in 1 .. n /\ i \in 1 .. n + 1
      BY <1>0
    <3>1. f[i] = IF i = 1 THEN ss[i] ELSE f[i - 1] \o ss[i]
      BY <1>2, <3>0 DEF Flattens
    <3>2. g[i] = IF i = 1 THEN tt[i] ELSE g[i - 1] \o tt[i]
      BY <1>2, <3>0 DEF Flattens
    <3>3. i # 1 => g[i - 1] = f[i - 1]
      BY <1>0, <2>2
    <3>4. tt[i] = ss[i] /\ i \in 0 .. n
      BY <1>0
    <3> QED BY <3>1, <3>2, <3>3, <3>4
  <2>3. \A i \in 0 .. n : i \in T
    <3> HIDE DEF T
    <3> QED BY <1>0, <2>1, <2>2, StepByStep
  <2>4. g[n] = f[n]
    BY <1>0, <1>6, <2>3
  <2>5. g[n + 1] = g[n] \o tt[n + 1]
    <3>1. n + 1 \in 1 .. n + 1 /\ n + 1 # 1 /\ (n + 1) - 1 = n
      BY <1>0, <1>6
    <3>2. g[n + 1] = IF n + 1 = 1 THEN tt[n + 1] ELSE g[(n + 1) - 1] \o tt[n + 1]
      BY <1>2, <3>1 DEF Flattens
    <3> QED BY <3>1, <3>2
  <2>6. FlattenSeq(tt) = f[n] \o x /\ FlattenSeq(ss) = f[n]
    BY <1>1, <1>3, <1>4, <1>6, <2>4, <2>5
  <2> QED BY <2>6 DEF tt
<1> QED BY <1>5, <1>6

LEMMA ListedAppend ==
  ASSUME NEW o \in Seq(Letter \union Token), NEW c \in Letter \union Token
  PROVE  Listed(Append(o, c)) = Listed(o) \o Spell(c)
<1> DEFINE ss == [n \in DOMAIN o |-> Spell(o[n])]
           tt == [n \in DOMAIN Append(o, c) |-> Spell(Append(o, c)[n])]
<1>1. \A d \in Letter \union Token : Spell(d) \in Seq(Letter)
  BY SpellIs
<1>2. ss \in Seq(Seq(Letter))
  <2>1. Len(o) \in Nat /\ DOMAIN o = 1 .. Len(o)
    OBVIOUS
  <2>2. ASSUME NEW n \in 1 .. Len(o) PROVE Spell(o[n]) \in Seq(Letter)
    BY <1>1, ElementOfSeq
  <2>3. ss \in [1 .. Len(o) -> Seq(Letter)]
    BY <2>1, <2>2
  <2> QED BY <2>1, <2>3
<1>3. tt = Append(ss, Spell(c))
  OBVIOUS
<1>4. FlattenSeq(Append(ss, Spell(c))) = FlattenSeq(ss) \o Spell(c)
  <2> HIDE DEF ss
  <2> QED BY <1>1, <1>2, FlattenAppend
<1> QED BY <1>3, <1>4 DEF Listed

LEMMA ListedNone == Listed(<<>>) = <<>>
<1>1. [n \in DOMAIN <<>> |-> Spell(<<>>[n])] = <<>>
  OBVIOUS
<1> QED BY <1>1, FlattenIs DEF Listed

(* A text as tokenizeline sees it.                                         *)
Array(F) == [i \in 0 .. Len(F) - 1 |-> F[i + 1]]

LEMMA ArrayIs ==
  ASSUME NEW F \in Seq(Char \union {Zero})
  PROVE  /\ Len(F) \in Nat
         /\ \A i \in Int : CharAt(Array(F), i) = IF i \in 0 .. Len(F) - 1 THEN F[i + 1] ELSE Stale
         /\ \A i \in 1 .. Len(F) : F[i] \in Char \union {Zero}
         /\ Readable(Array(F))
<1>1. Len(F) \in Nat
  OBVIOUS
<1>2. ASSUME NEW i \in Int PROVE CharAt(Array(F), i) = IF i \in 0 .. Len(F) - 1 THEN F[i + 1] ELSE Stale
  BY DEF CharAt, Array
<1>3. ASSUME NEW i \in 1 .. Len(F) PROVE F[i] \in Char \union {Zero}
  BY ElementOfSeq
<1>4. ASSUME NEW i \in Int PROVE CharAt(Array(F), i) \in Letter
  <2>1. CASE i \in 0 .. Len(F) - 1
    <3>1. i + 1 \in 1 .. Len(F)
      BY <1>1, <2>1
    <3> QED BY <1>2, <1>3, <2>1, <3>1 DEF Letter
  <2>2. CASE i \notin 0 .. Len(F) - 1
    BY <1>2, <2>2 DEF Letter
  <2> QED BY <2>1, <2>2
<1> QED BY <1>1, <1>2, <1>3, <1>4 DEF Readable

(* No character but those of the text is put out.                          *)
LEMMA OutIsClean ==
  ASSUME NEW F \in Seq(Char \union {Zero}), NEW e \in Int, e <= Len(F), NEW r \in Run,
         Leads(Array(F), e, Begin, r)
  PROVE  r.out \in Seq(Char \union {Zero} \union Token)
<1> DEFINE S == Char \union {Zero} \union Token
           P == {q \in Run : q.out \in Seq(S)}
           s == Array(F)
<1>1. Begin \in P
  <2>1. <<>> \in Seq(S) /\ <<>> \in Seq(Letter \union Token)
    OBVIOUS
  <2>2. Begin \in Run /\ Begin.out = <<>>
    BY <2>1 DEF Begin, Run, FreshState
  <2> QED BY <2>1, <2>2
<1>2. Closed(s, e, P)
  <2> SUFFICES ASSUME NEW q \in P, q.at < e PROVE Turn(s, q) \in P
    BY DEF Closed
  <2>1. q \in Run /\ q.out \in Seq(S)
    OBVIOUS
  <2>2. q.at \in Nat /\ q.at \in 0 .. Len(F) - 1 /\ q.at + 1 \in 1 .. Len(F)
    <3>1. q.at \in Nat
      BY <2>1, RunIs
    <3>2. Len(F) \in Nat
      OBVIOUS
    <3> QED BY <3>1, <3>2
  <2>3. CharAt(s, q.at) \in Char \union {Zero}
    <3>1. q.at \in Int
      BY <2>2
    <3>2. CharAt(Array(F), q.at) = F[q.at + 1]
      BY <2>2, <3>1, ArrayIs
    <3>3. F[q.at + 1] \in Char \union {Zero}
      BY <2>2, ArrayIs
    <3> QED BY <3>2, <3>3
  <2>4. Quote \in S
    BY DEF Char
  <2>5. \A k \in Keywords : k.token \in S
    BY DEF Token
  <2> HIDE DEF P, s
  <2>6. Turn(s, q) \in Run
    BY <2>1, ArrayIs, TurnIs DEF s
  <2>7. Turn(s, q).out \in Seq(S)
    <3>1. Readable(s)
      BY ArrayIs DEF s
    <3>2. CASE Turn(s, q).out = Append(q.out, CharAt(s, q.at))
      BY <2>1, <2>3, <3>2
    <3>3. CASE Turn(s, q).out = q.out \o <<Quote, Quote>>
      BY <2>1, <2>4, <3>3
    <3>4. ASSUME NEW k \in Keywords, Turn(s, q).out = Append(q.out, k.token) PROVE Turn(s, q).out \in Seq(S)
      BY <2>1, <2>5, <3>4
    <3> QED BY <2>1, <3>1, <3>2, <3>3, <3>4, TurnIs
  <2> QED BY <2>6, <2>7 DEF P
<1>3. P \in SUBSET Run
  OBVIOUS
<1>4. r \in P
  <2> HIDE DEF P
  <2> QED BY <1>1, <1>2, <1>3 DEF Leads
<1> QED BY <1>4

(* What a keyword found in the text stands for.                            *)
LEMMA NameInText ==
  ASSUME NEW F \in Seq(Char \union {Zero}), NEW i \in 0 .. Len(F) - 1, F[Len(F)] = Zero,
         NEW k \in Keywords, Matches(k, Array(F), i)
  PROVE  i + Len(k.name) < Len(F) /\ \A j \in 1 .. Len(k.name) : F[i + j] = k.name[j]
<1> DEFINE m == Len(F) - 1 - i
<1>0. Len(F) \in Nat /\ i \in Nat /\ m \in Nat /\ i \in Int /\ Len(k.name) \in Nat
      /\ DOMAIN k.name = 1 .. Len(k.name)
  <2>1. Len(k.name) \in Nat /\ DOMAIN k.name = 1 .. Len(k.name)
    BY NameIs
  <2>2. Len(F) \in Nat
    OBVIOUS
  <2> QED BY <2>1, <2>2
<1>1. CharAt(Array(F), i + m) = Zero
  <2>1. i + m = Len(F) - 1 /\ Len(F) - 1 \in 0 .. Len(F) - 1 /\ Len(F) - 1 \in Int /\ (Len(F) - 1) + 1 = Len(F)
    BY <1>0
  <2> HIDE DEF m
  <2> QED BY <2>1, ArrayIs
<1>2. Zero \notin Plain
  BY TokenAssumption
<1>3. Len(k.name) <= m
  <2> HIDE DEF m
  <2> QED BY <1>0, <1>1, <1>2, MatchEnds
<1>4. ASSUME NEW j \in 1 .. Len(k.name) PROVE F[i + j] = k.name[j]
  <2>1. CharAt(Array(F), i + j - 1) = k.name[j]
    BY <1>0 DEF Matches
  <2>2. i + j - 1 \in 0 .. Len(F) - 1 /\ i + j - 1 \in Int /\ (i + j - 1) + 1 = i + j
    BY <1>0, <1>3
  <2>3. CharAt(Array(F), i + j - 1) = F[(i + j - 1) + 1]
    BY <2>2, ArrayIs
  <2> QED BY <2>1, <2>2, <2>3
<1> QED BY <1>0, <1>3, <1>4

LEMMA AppendTwo ==
  ASSUME NEW S, NEW s \in Seq(S), NEW c \in S
  PROVE  s \o <<c, c>> = Append(Append(s, c), c)
<1>1. s \o <<c, c>> \in Seq(S) /\ Append(Append(s, c), c) \in Seq(S)
  OBVIOUS
<1>2. Len(s \o <<c, c>>) = Len(s) + 2 /\ Len(Append(Append(s, c), c)) = Len(s) + 2
  OBVIOUS
<1>3. ASSUME NEW i \in 1 .. Len(s) + 2
      PROVE  (s \o <<c, c>>)[i] = Append(Append(s, c), c)[i]
  OBVIOUS
<1> QED BY <1>1, <1>2, <1>3, SeqEqual

LEMMA SubSeqGrows ==
  ASSUME NEW S, NEW F \in Seq(S), NEW a \in 0 .. Len(F), NEW x \in Seq(S), a + Len(x) <= Len(F),
         \A j \in 1 .. Len(x) : F[a + j] = x[j]
  PROVE  SubSeq(F, 1, a) \o x = SubSeq(F, 1, a + Len(x))
<1> DEFINE m == Len(x)
           u == SubSeq(F, 1, a)
           v == SubSeq(F, 1, a + m)
<1>0. a \in Nat /\ m \in Nat /\ Len(F) \in Nat /\ a \in Int /\ a + m \in Int
  OBVIOUS
<1>1. u \in Seq(S) /\ Len(u) = a /\ \A j \in 1 .. a : u[j] = F[j]
  OBVIOUS
<1>2. v \in Seq(S) /\ Len(v) = a + m /\ \A j \in 1 .. a + m : v[j] = F[j]
  <2>1. a + m \in 0 .. Len(F)
    BY <1>0
  <2> HIDE DEF m
  <2> QED BY <1>0, <2>1
<1> HIDE DEF u, v
<1>3. u \o x \in Seq(S) /\ Len(u \o x) = a + m
  BY <1>1, ConcatProperties
<1>4. ASSUME NEW j \in 1 .. a + m PROVE (u \o x)[j] = v[j]
  <2>0. j \in Int /\ j \in 1 .. Len(u) + Len(x)
    BY <1>0, <1>1
  <2>1. (u \o x)[j] = IF j <= Len(u) THEN u[j] ELSE x[j - Len(u)]
    BY <1>1, <2>0, ConcatProperties
  <2>2. CASE j <= a
    <3>1. j \in 1 .. a
      BY <1>0, <2>0, <2>2
    <3> QED BY <1>1, <1>2, <2>1, <2>2, <3>1
  <2>3. CASE ~(j <= a)
    <3>1. j - a \in 1 .. m /\ a + (j - a) = j
      BY <1>0, <2>0, <2>3
    <3>2. F[a + (j - a)] = x[j - a]
      BY <3>1
    <3> QED BY <1>1, <1>2, <2>1, <2>3, <3>1, <3>2
  <2> QED BY <2>2, <2>3
<1>5. u \o x = v
  <2> HIDE DEF m
  <2> QED BY <1>2, <1>3, <1>4, SeqEqual
<1> QED BY <1>5 DEF u, v

(* A listing of the tokens of a whole program is the program.              *)
LEMMA ListedBack ==
  ASSUME NEW F \in Seq(Char \union {Zero}), F # <<>>, F[Len(F)] = Zero,
         NEW r, r = tokenizeline(Array(F), 0, Len(F), FreshState, <<>>)
  PROVE  Listed(r.out) = F /\ r.at = Len(F)
<1> DEFINE s == Array(F)
           n == Len(F)
           C == Char \union {Zero}
           P == {q \in Run : q.at <= n /\ Listed(q.out) = SubSeq(F, 1, q.at)}
<1>0. n \in Nat \ {0} /\ Readable(s) /\ n \in Int
  BY ArrayIs
<1>1. Begin \in Run /\ Begin.at = 0 /\ Begin.tk = FreshState /\ Begin.out = <<>>
  BY DEF Begin, Run, FreshState
<1>2. r \in Run /\ r.at >= n /\ Leads(s, n, Begin, r)
  <2> HIDE DEF s, n
  <2>1. r = tokenizeline(s, Begin.at, n, Begin.tk, Begin.out)
    BY <1>1 DEF s, n
  <2> QED BY <1>0, <1>1, <2>1, TokenizeLeads
<1>3. Begin \in P
  <2>1. SubSeq(F, 1, 0) = <<>>
    OBVIOUS
  <2>2. Listed(Begin.out) = SubSeq(F, 1, Begin.at)
    BY <1>1, <2>1, ListedNone
  <2>3. Begin.at <= n
    BY <1>0, <1>1
  <2> HIDE DEF n
  <2> QED BY <1>1, <2>2, <2>3
<1>4. Closed(s, n, P)
  <2> SUFFICES ASSUME NEW q \in P, q.at < n PROVE Turn(s, q) \in P
    BY DEF Closed
  <2> DEFINE a == q.at
  <2>1. q \in Run /\ Listed(q.out) = SubSeq(F, 1, a) /\ a < n
    OBVIOUS
  <2>2. a \in Nat /\ a \in Int /\ a \in 0 .. n - 1 /\ a + 1 \in 1 .. n /\ q.out \in Seq(Letter \union Token)
    <3>1. a \in Nat /\ q.out \in Seq(Letter \union Token)
      BY <2>1, RunIs
    <3> QED BY <1>0, <2>1, <3>1
  <2>3. CharAt(s, a) = F[a + 1] /\ F[a + 1] \in Letter
    BY <2>2, ArrayIs DEF Letter
  <2>4. Turn(s, q) \in Run
    BY <1>0, <2>1, TurnIs
  <2> HIDE DEF P, s
  <2>5. CASE Turn(s, q).at = a + 1 /\ Turn(s, q).out = Append(q.out, CharAt(s, a))
    <3>1. Listed(Turn(s, q).out) = SubSeq(F, 1, a) \o <<F[a + 1]>>
      BY <2>1, <2>2, <2>3, <2>5, SpellIs, ListedAppend
    <3>2. SubSeq(F, 1, a) \o <<F[a + 1]>> = SubSeq(F, 1, a + 1)
      <4>1. <<F[a + 1]>> \in Seq(C) /\ Len(<<F[a + 1]>>) = 1 /\ \A j \in 1 .. 1 : F[a + j] = <<F[a + 1]>>[j]
        BY <2>2, ArrayIs
      <4>2. a \in 0 .. n /\ a + 1 <= n
        BY <1>0, <2>2
      <4> HIDE DEF C
      <4> QED BY <4>1, <4>2, SubSeqGrows
    <3>3. a + 1 <= n
      BY <1>0, <2>2
    <3> QED BY <2>4, <2>5, <3>1, <3>2, <3>3 DEF P
  <2>6. CASE /\ Turn(s, q).at = a + 2
             /\ Turn(s, q).out = q.out \o <<Quote, Quote>>
             /\ CharAt(s, a) = Quote /\ CharAt(s, a + 1) = Quote
    <3>1. Quote # Stale /\ Quote \in Letter \union Token /\ Quote \in Letter
      BY DEF Quote, Stale, Letter, Char
    <3>2. a + 1 \in Int /\ (a + 1) + 1 = a + 2
      BY <2>2
    <3>3. a + 1 \in 0 .. n - 1 /\ F[a + 2] = Quote
      <4>1. CharAt(s, a + 1) = IF a + 1 \in 0 .. n - 1 THEN F[(a + 1) + 1] ELSE Stale
        BY <3>2, ArrayIs DEF s
      <4> QED BY <2>6, <3>1, <3>2, <4>1
    <3>4. F[a + 1] = Quote
      BY <2>3, <2>6
    <3>5. Turn(s, q).out = Append(Append(q.out, Quote), Quote)
      <4>1. q.out \o <<Quote, Quote>> = Append(Append(q.out, Quote), Quote)
        BY <2>2, <3>1, AppendTwo
      <4> QED BY <2>6, <4>1
    <3>6. Listed(Append(q.out, Quote)) = SubSeq(F, 1, a) \o <<Quote>>
      BY <2>1, <2>2, <3>1, SpellIs, ListedAppend
    <3>7. Append(q.out, Quote) \in Seq(Letter \union Token)
      BY <2>2, <3>1
    <3>8. Listed(Append(Append(q.out, Quote), Quote)) = (SubSeq(F, 1, a) \o <<Quote>>) \o <<Quote>>
      BY <3>1, <3>6, <3>7, SpellIs, ListedAppend
    <3>9. (SubSeq(F, 1, a) \o <<Quote>>) \o <<Quote>> = SubSeq(F, 1, a + 2)
      <4>0. Quote \in C /\ a \in 0 .. n /\ a + 1 \in 0 .. n /\ a + 1 <= n /\ (a + 1) + 1 <= n
        BY <1>0, <2>2, <3>2, <3>3 DEF Char
      <4>1. <<Quote>> \in Seq(C) /\ Len(<<Quote>>) = 1 /\ (\A j \in 1 .. 1 : F[a + j] = <<Quote>>[j])
            /\ (\A j \in 1 .. 1 : F[(a + 1) + j] = <<Quote>>[j])
        BY <2>2, <3>2, <3>3, <3>4, <4>0
      <4> DEFINE x == <<Quote>>
                 b == a + 1
      <4>4. x \in Seq(C) /\ Len(x) = 1 /\ (\A j \in 1 .. 1 : F[a + j] = x[j])
            /\ (\A j \in 1 .. 1 : F[b + j] = x[j]) /\ a + 1 <= n /\ b + 1 <= n /\ b \in 0 .. n
        BY <4>0, <4>1
      <4>5. F \in Seq(C)
        OBVIOUS
      <4> HIDE DEF C, x, b
      <4>2. SubSeq(F, 1, a) \o x = SubSeq(F, 1, a + 1)
        <5>1. a + Len(x) <= Len(F) /\ a \in 0 .. Len(F) /\ \A j \in 1 .. Len(x) : F[a + j] = x[j]
          BY <4>0, <4>4
        <5>2. SubSeq(F, 1, a) \o x = SubSeq(F, 1, a + Len(x))
          BY ONLY <4>4, <4>5, <5>1, SubSeqGrows
        <5> QED BY <4>4, <5>2
      <4>3. SubSeq(F, 1, b) \o x = SubSeq(F, 1, b + 1)
        <5>1. b + Len(x) <= Len(F) /\ b \in 0 .. Len(F) /\ \A j \in 1 .. Len(x) : F[b + j] = x[j]
          BY <4>4
        <5>2. SubSeq(F, 1, b) \o x = SubSeq(F, 1, b + Len(x))
          BY ONLY <4>4, <4>5, <5>1, SubSeqGrows
        <5> QED BY <4>4, <5>2
      <4> USE DEF x, b
      <4> QED BY <3>2, <4>2, <4>3
    <3>10. a + 2 <= n
      BY <1>0, <2>2, <3>2, <3>3
    <3> QED BY <2>4, <2>6, <3>5, <3>8, <3>9, <3>10 DEF P
  <2>7. ASSUME NEW k \in Keywords, Matches(k, s, a), Turn(s, q).at = a + Len(k.name),
               Turn(s, q).out = Append(q.out, k.token)
        PROVE  Turn(s, q) \in P
    <3> DEFINE m == Len(k.name)
    <3>1. k.name \in Seq(Plain) /\ m \in Nat
      BY NameIs
    <3>2. a + m < n /\ \A j \in 1 .. m : F[a + j] = k.name[j]
      BY <2>2, <2>7, NameInText DEF s
    <3>3. k.token \in Letter \union Token
      BY DEF Token
    <3>4. Listed(Turn(s, q).out) = SubSeq(F, 1, a) \o k.name
      BY <2>1, <2>2, <2>7, <3>3, SpellIs, ListedAppend
    <3>5. SubSeq(F, 1, a) \o k.name = SubSeq(F, 1, a + m)
      <4>1. k.name \in Seq(C)
        BY <3>1 DEF Char
      <4>2. a \in 0 .. n /\ a + m <= n
        BY <1>0, <2>2, <3>1, <3>2
      <4>3. F \in Seq(C) /\ \A j \in 1 .. Len(k.name) : F[a + j] = k.name[j]
        BY <3>2
      <4> HIDE DEF C
      <4> QED BY ONLY <4>1, <4>2, <4>3, SubSeqGrows
    <3>6. a + m <= n
      BY <1>0, <2>2, <3>1, <3>2
    <3> QED BY <2>4, <2>7, <3>4, <3>5, <3>6 DEF P
  <2> QED BY <1>0, <2>1, <2>5, <2>6, <2>7, TurnIs
<1>5. P \in SUBSET Run
  OBVIOUS
<1>6. r \in P
  <2> HIDE DEF P
  <2> QED BY <1>2, <1>3, <1>4, <1>5 DEF Leads
<1>7. r.at = n /\ Listed(r.out) = SubSeq(F, 1, r.at)
  <2>1. r.at \in Nat
    BY <1>2, RunIs
  <2> QED BY <1>0, <1>2, <1>6, <2>1
<1>8. SubSeq(F, 1, n) = F
  OBVIOUS
<1> QED BY <1>7, <1>8

-------------------------------------------------------------------------------
(* The line buffer                                                         *)

(* What has been passed to retokenize.                                     *)
Fed == IF stage = "loop" THEN text ELSE Append(text, Zero)

Buffer == [0 .. LINEBUFLEN - 1 -> Letter]

Shape ==
  /\ autostore \in BOOLEAN
  /\ text \in Seq(Char)
  /\ buf \in Buffer
  /\ ln \in 0 .. LINEBUFLEN - 1
  /\ tk \in [inquote : BOOLEAN, notlastspace : BOOLEAN]
  /\ out \in Seq(Letter \union Token)
  /\ xoff \in BOOLEAN
  /\ stage \in {"loop", "ended", "done"}

(* How full the buffer is, and that the sender has been told.              *)
Room ==
  /\ autostore /\ stage # "done" => ln < LINEBUFTHRESHOLD
  /\ ~autostore /\ stage = "loop" => ln <= LINEBUFLEN - 2 /\ (xoff <=> ln > LINEBUFTHRESHOLD)

(* The first n places of the buffer b are the end of F.                    *)
EndOf(F, b, n) == n <= Len(F) /\ \A i \in 0 .. n - 1 : b[i] = F[Len(F) - n + i + 1]

(* The text before the buffer has been tokenized as if in one piece.       *)
Reached(F, n, t, o) ==
  Leads(Array(F), Len(F) - Ahead, Begin, [at |-> Len(F) - n, tk |-> t, out |-> o])

Whole == tokenizeline(WholeText, 0, Len(text) + 1, FreshState, <<>>)

TextInv ==
  /\ Shape
  /\ Room
  /\ stage # "done" => EndOf(Fed, buf, ln) /\ Reached(Fed, ln, tk, out)
  /\ stage = "done" => out = Whole.out /\ out \in Seq(Char \union {Zero} \union Token)

LEMMA Sizes ==
  /\ LINEBUFLEN \in Nat /\ LINEBUFTHRESHOLD \in Nat /\ LINEBUFHALFLEN \in Nat \ {0}
  /\ Ahead \in Nat \ {0} /\ LINEBUFHALFLEN + Ahead = LINEBUFTHRESHOLD
  /\ LINEBUFTHRESHOLD < LINEBUFLEN - 2 /\ LINEBUFLEN - 2 - LINEBUFHALFLEN <= LINEBUFTHRESHOLD
<1>1. /\ LINEBUFLEN \in Nat /\ LINEBUFTHRESHOLD \in Nat /\ LINEBUFHALFLEN \in Nat \ {0}
      /\ LINEBUFHALFLEN < LINEBUFTHRESHOLD /\ LINEBUFTHRESHOLD < LINEBUFLEN - 2
      /\ LINEBUFLEN - 2 - LINEBUFHALFLEN <= LINEBUFTHRESHOLD
  BY BufferAssumption
<1> QED BY ONLY <1>1 DEF Ahead

LEMMA BufferIs ==
  ASSUME NEW b \in Buffer
  PROVE  /\ Readable(b)
         /\ \A i \in 0 .. LINEBUFLEN - 1 : CharAt(b, i) = b[i]
<1>1. ASSUME NEW i \in Int PROVE CharAt(b, i) \in Letter
  BY DEF CharAt, Buffer, Letter
<1> QED BY <1>1 DEF Readable, CharAt, Buffer

LEMMA Widened ==
  ASSUME NEW s, NEW e \in Int, NEW e2 \in Int, e <= e2, NEW r0 \in Run, NEW r1 \in Run,
         Leads(s, e, r0, r1)
  PROVE  Leads(s, e2, r0, r1)
<1>1. Leads(s, e2, r1, r1)
  BY DEF Leads
<1> QED BY <1>1, LeadsOn

(* A turn of tokenizeline that begins in the first half ends below the     *)
(* threshold.                                                              *)
LEMMA HalfEnds ==
  ASSUME NEW s, Readable(s), NEW r0 \in Run, r0.at = 0, NEW r \in Run, Leads(s, LINEBUFHALFLEN, r0, r)
  PROVE  r.at <= LINEBUFTHRESHOLD
<1> DEFINE P == {q \in Run : q.at <= LINEBUFTHRESHOLD}
<1>1. r0 \in P
  BY Sizes
<1>2. Closed(s, LINEBUFHALFLEN, P)
  <2> SUFFICES ASSUME NEW q \in P, q.at < LINEBUFHALFLEN PROVE Turn(s, q) \in P
    BY DEF Closed
  <2>1. q \in Run
    OBVIOUS
  <2>2. Turn(s, q) \in Run /\ Turn(s, q).at \in q.at + 1 .. q.at + Ahead + 1
    BY <2>1, TurnIs
  <2>3. q.at \in Nat
    BY <2>1, RunIs
  <2>4. Turn(s, q).at \in Nat
    BY <2>2, RunIs
  <2>5. Turn(s, q).at <= LINEBUFTHRESHOLD
    BY <2>2, <2>3, <2>4, Sizes
  <2> QED BY <2>2, <2>5
<1>3. P \in SUBSET Run
  OBVIOUS
<1>4. r \in P
  <2> HIDE DEF P
  <2> QED BY <1>1, <1>2, <1>3 DEF Leads
<1> QED BY <1>4

(* One character more.                                                     *)
LEMMA TextGrows ==
  ASSUME NEW F \in Seq(Char \union {Zero}), NEW c \in Char \union {Zero}, NEW r \in Run,
         Leads(Array(F), Len(F) - Ahead, Begin, r)
  PROVE  Leads(Array(Append(F, c)), Len(Append(F, c)) - Ahead, Begin, r)
<1> DEFINE G == Append(F, c)
           e == Len(F) - Ahead
<1>1. G \in Seq(Char \union {Zero}) /\ Len(G) = Len(F) + 1 /\ Len(F) \in Nat
      /\ \A i \in 1 .. Len(F) : G[i] = F[i]
  OBVIOUS
<1>2. Begin \in Run /\ Begin.at = 0
  BY DEF Begin, Run, FreshState
<1>3. e \in Int /\ Len(G) - Ahead \in Int /\ e <= Len(G) - Ahead /\ Ahead \in Nat
  BY <1>1, Sizes
<1> HIDE DEF G
<1>4. ASSUME NEW i \in Nat, i < e PROVE Alike(Array(F), i, Array(G), i + 0)
  <2>1. ASSUME NEW x \in 0 .. Ahead PROVE CharAt(Array(F), i + x) = CharAt(Array(G), (i + 0) + x)
    <3>1. i + x \in 0 .. Len(F) - 1 /\ i + x \in 0 .. Len(G) - 1 /\ i + x \in Int
          /\ (i + 0) + x = i + x /\ i + x + 1 \in 1 .. Len(F)
      BY <1>1, <1>3, <1>4
    <3>2. CharAt(Array(F), i + x) = F[i + x + 1]
      BY <3>1, ArrayIs
    <3>3. CharAt(Array(G), i + x) = G[i + x + 1]
      BY <1>1, <3>1, ArrayIs
    <3> QED BY <1>1, <3>1, <3>2, <3>3
  <2>2. i \in Int /\ i + 0 \in Int
    OBVIOUS
  <2> QED BY <2>1, <2>2, AlikeInside
<1>5. Leads(Array(G), e + 0, Shifted(Begin, 0), Shifted(r, 0))
  <2>1. Readable(Array(F))
    BY ArrayIs
  <2> DEFINE d == 0
  <2>2. d \in Nat /\ \A i \in Nat : Begin.at <= i /\ i < e => Alike(Array(F), i, Array(G), i + d)
    BY <1>4
  <2>3. Leads(Array(F), e, Begin, r)
    OBVIOUS
  <2>4. Leads(Array(G), e + d, Shifted(Begin, d), Shifted(r, d))
    <3> HIDE DEF e, d
    <3> QED BY ONLY r \in Run, <1>2, <1>3, <2>1, <2>2, <2>3, LeadsAlike
  <2> QED BY <2>4
<1>6. e + 0 = e /\ Shifted(Begin, 0) = Begin /\ Shifted(r, 0) = r
  <2>1. r.at \in Nat /\ r = [at |-> r.at, tk |-> r.tk, out |-> r.out]
    BY RunIs
  <2>2. Begin = [at |-> Begin.at, tk |-> Begin.tk, out |-> Begin.out]
    BY DEF Begin
  <2> QED BY <1>2, <1>3, <2>1, <2>2 DEF Shifted
<1>7. Leads(Array(G), e, Begin, r)
  BY <1>5, <1>6
<1>8. Leads(Array(G), Len(G) - Ahead, Begin, r)
  <2> HIDE DEF e
  <2> QED BY <1>2, <1>3, <1>7, Widened
<1> QED BY <1>8 DEF G

(* The first half of a full buffer is tokenized, and what is left of the   *)
(* buffer is still the end of the text.                                    *)
LEMMA HalfKeeps ==
  ASSUME NEW F \in Seq(Char \union {Zero}), NEW b \in Buffer, NEW n \in 0 .. LINEBUFLEN - 1,
         tk \in [inquote : BOOLEAN, notlastspace : BOOLEAN], out \in Seq(Letter \union Token),
         n >= LINEBUFTHRESHOLD, EndOf(F, b, n), Reached(F, n, tk, out),
         Tokenize(b, n, LINEBUFHALFLEN)
  PROVE  /\ buf' \in Buffer /\ ln' \in 0 .. n - LINEBUFHALFLEN
         /\ tk' \in [inquote : BOOLEAN, notlastspace : BOOLEAN] /\ out' \in Seq(Letter \union Token)
         /\ EndOf(F, buf', ln') /\ Reached(F, ln', tk', out')
<1> DEFINE r == tokenizeline(b, 0, LINEBUFHALFLEN, tk, out)
           r0 == [at |-> 0, tk |-> tk, out |-> out]
           d == Len(F) - n
           here == [at |-> Len(F) - n, tk |-> tk, out |-> out]
           e == Len(F) - Ahead
<1>0. /\ LINEBUFLEN \in Nat /\ LINEBUFTHRESHOLD \in Nat /\ LINEBUFHALFLEN \in Nat \ {0}
      /\ Ahead \in Nat \ {0} /\ LINEBUFHALFLEN + Ahead = LINEBUFTHRESHOLD
      /\ n \in Nat /\ Len(F) \in Nat /\ n <= Len(F) /\ d \in Nat /\ n < LINEBUFLEN
  <2>1. Len(F) \in Nat
    OBVIOUS
  <2>2. n <= Len(F)
    BY DEF EndOf
  <2>3. n \in Nat /\ n < LINEBUFLEN
    BY Sizes
  <2>4. d \in Nat
    BY <2>1, <2>2, <2>3
  <2> QED BY <2>1, <2>2, <2>3, <2>4, Sizes
<1>1. /\ out' = r.out /\ tk' = r.tk /\ ln' = n - r.at
      /\ buf' = [i \in DOMAIN b |-> IF i + r.at < LINEBUFLEN THEN b[i + r.at] ELSE b[i]]
  BY DEF Tokenize
<1>2. r0 \in Run /\ here \in Run /\ r0.at = 0 /\ r0.tk = tk /\ r0.out = out
  BY <1>0 DEF Run
<1>3. Readable(b)
  BY BufferIs
<1>4. r \in Run /\ r.at >= LINEBUFHALFLEN /\ Leads(b, LINEBUFHALFLEN, r0, r)
  <2> HIDE DEF r0, d
  <2>1. r = tokenizeline(b, r0.at, LINEBUFHALFLEN, r0.tk, r0.out)
    BY <1>2
  <2>2. LINEBUFHALFLEN \in Int /\ r0.at <= LINEBUFHALFLEN
    BY <1>0, <1>2
  <2> HIDE DEF r
  <2> QED BY <1>2, <1>3, <2>1, <2>2, TokenizeLeads
<1> HIDE DEF r
<1>5. r.at \in Nat /\ r.at <= LINEBUFTHRESHOLD /\ r = [at |-> r.at, tk |-> r.tk, out |-> r.out]
      /\ r.tk \in [inquote : BOOLEAN, notlastspace : BOOLEAN] /\ r.out \in Seq(Letter \union Token)
  <2> HIDE DEF r0
  <2>1. r.at <= LINEBUFTHRESHOLD
    BY <1>2, <1>3, <1>4, HalfEnds
  <2>2. r.at \in Nat /\ r = [at |-> r.at, tk |-> r.tk, out |-> r.out] /\ r.out \in Seq(Letter \union Token)
    BY <1>4, RunIs
  <2>3. r.tk \in [inquote : BOOLEAN, notlastspace : BOOLEAN]
    BY <1>4 DEF Run
  <2> QED BY <2>1, <2>2, <2>3
<1>6. ASSUME NEW i \in 0 .. n - 1
      PROVE  CharAt(b, i) = b[i] /\ CharAt(Array(F), i + d) = b[i]
  <2>1. i \in 0 .. LINEBUFLEN - 1 /\ i + d \in 0 .. Len(F) - 1 /\ i + d \in Int /\ Len(F) - n + i + 1 = (i + d) + 1
    BY <1>0
  <2>2. CharAt(b, i) = b[i]
    BY <2>1, BufferIs
  <2>3. b[i] = F[Len(F) - n + i + 1]
    BY DEF EndOf
  <2> HIDE DEF d
  <2>4. CharAt(Array(F), i + d) = F[(i + d) + 1]
    BY <2>1, ArrayIs
  <2> QED BY <2>1, <2>2, <2>3, <2>4
<1>7. ASSUME NEW i \in Nat, i < LINEBUFHALFLEN PROVE Alike(b, i, Array(F), i + d)
  <2>1. ASSUME NEW x \in 0 .. Ahead PROVE CharAt(b, i + x) = CharAt(Array(F), (i + d) + x)
    <3>1. i + x \in 0 .. n - 1 /\ (i + d) + x = (i + x) + d
      BY <1>0, <1>7
    <3> HIDE DEF d
    <3>2. CharAt(b, i + x) = b[i + x] /\ CharAt(Array(F), (i + x) + d) = b[i + x]
      BY <1>6, <3>1
    <3> QED BY <3>1, <3>2
  <2>2. i \in Int /\ i + d \in Int
    BY <1>0
  <2> HIDE DEF d
  <2> QED BY <2>1, <2>2, AlikeInside
<1>8. Leads(Array(F), LINEBUFHALFLEN + d, Shifted(r0, d), Shifted(r, d))
  <2>1. \A i \in Nat : r0.at <= i /\ i < LINEBUFHALFLEN => Alike(b, i, Array(F), i + d)
    BY <1>7
  <2>2. LINEBUFHALFLEN \in Int
    BY <1>0
  <2> HIDE DEF r0, d
  <2> QED BY ONLY <1>0, <1>2, <1>3, <1>4, <2>1, <2>2, LeadsAlike
<1>9. Shifted(r0, d) = here
  BY <1>0 DEF Shifted
<1>10. r.at \in Nat /\ r.at <= LINEBUFTHRESHOLD /\ r.at >= LINEBUFHALFLEN /\ ln' = n - r.at
  BY <1>1, <1>4, <1>5
<1> DEFINE there == Shifted(r, d)
<1>11. there \in Run /\ there = [at |-> r.at + d, tk |-> r.tk, out |-> r.out]
  <2>1. there = [at |-> r.at + d, tk |-> r.tk, out |-> r.out]
    BY DEF Shifted
  <2>2. r.at + d \in Nat
    <3> HIDE DEF d
    <3> QED BY ONLY <1>0, <1>10
  <2> HIDE DEF there, d
  <2> QED BY <1>5, <2>1, <2>2 DEF Run
<1>12. Leads(Array(F), e, here, there)
  <2>1. LINEBUFHALFLEN + d \in Int /\ e \in Int /\ LINEBUFHALFLEN + d <= e
    BY <1>0
  <2> HIDE DEF e, d, here, there, r0
  <2>2. Leads(Array(F), LINEBUFHALFLEN + d, here, there)
    BY <1>8, <1>9 DEF there
  <2> QED BY ONLY <1>2, <1>11, <2>1, <2>2, Widened
<1>13. Leads(Array(F), e, Begin, there)
  <2>1. Leads(Array(F), e, Begin, here)
    BY DEF Reached
  <2>2. Begin \in Run
    BY DEF Begin, Run, FreshState
  <2>3. e \in Int
    BY <1>0
  <2>4. e <= e
    BY <2>3
  <2> HIDE DEF e, here, there, d
  <2> QED BY ONLY <1>2, <1>11, <1>12, <2>1, <2>2, <2>3, <2>4, LeadsOn
<1>14. ln' \in 0 .. n - LINEBUFHALFLEN /\ Len(F) - ln' = r.at + d
  BY ONLY n >= LINEBUFTHRESHOLD, <1>0, <1>10
<1>15. Reached(F, ln', tk', out')
  <2>1. there = [at |-> Len(F) - ln', tk |-> tk', out |-> out']
    BY <1>1, <1>11, <1>14
  <2> HIDE DEF there
  <2> QED BY <1>13, <2>1 DEF Reached
<1>16. DOMAIN b = 0 .. LINEBUFLEN - 1 /\ \A i \in 0 .. LINEBUFLEN - 1 : b[i] \in Letter
  BY DEF Buffer
<1>17. buf' \in Buffer
  <2>1. ASSUME NEW i \in 0 .. LINEBUFLEN - 1
        PROVE  (IF i + r.at < LINEBUFLEN THEN b[i + r.at] ELSE b[i]) \in Letter
    <3>1. i + r.at < LINEBUFLEN => i + r.at \in 0 .. LINEBUFLEN - 1
      BY ONLY i \in 0 .. LINEBUFLEN - 1, <1>0, <1>10
    <3> QED BY <1>16, <3>1
  <2> QED BY <1>1, <1>16, <2>1 DEF Buffer
<1>18. EndOf(F, buf', ln')
  <2>1. ASSUME NEW i \in 0 .. ln' - 1 PROVE buf'[i] = F[Len(F) - ln' + i + 1]
    <3>1. i \in 0 .. LINEBUFLEN - 1 /\ i + r.at < LINEBUFLEN /\ i + r.at \in 0 .. n - 1
      <4>1. i \in Nat /\ i <= ln' - 1
        <5> DEFINE l == ln'
        <5>1. l \in Int
          <6> HIDE DEF d
          <6> QED BY ONLY <1>0, <1>10
        <5>2. i \in 0 .. l - 1
          OBVIOUS
        <5> HIDE DEF l, d
        <5>3. i \in Nat /\ i <= l - 1
          BY <1>0, <5>1, <5>2
        <5> QED BY <5>3 DEF l
      <4> HIDE DEF d
      <4> QED BY ONLY <1>0, <1>10, <4>1
    <3>2. buf'[i] = b[i + r.at]
      BY <1>1, <1>16, <3>1
    <3>3. b[i + r.at] = F[Len(F) - n + (i + r.at) + 1]
      BY <3>1 DEF EndOf
    <3>4. Len(F) - n + (i + r.at) + 1 = Len(F) - ln' + i + 1
      <4> DEFINE l == ln'
                 a == r.at
                 m == Len(F)
      <4>1. l = n - a /\ a \in Int /\ m \in Int /\ n \in Int
        <5> HIDE DEF d
        <5> QED BY ONLY <1>0, <1>10
      <4>2. i \in Int
        BY ONLY <1>0, <3>1
      <4> HIDE DEF l, a, m, d
      <4>3. m - n + (i + a) + 1 = m - l + i + 1
        BY ONLY <4>1, <4>2
      <4> QED BY ONLY <4>3 DEF l, a, m
    <3> QED BY <3>2, <3>3, <3>4
  <2>2. ln' <= Len(F)
    BY <1>0, <1>14
  <2> QED BY <2>1, <2>2 DEF EndOf
<1> QED BY <1>1, <1>5, <1>14, <1>15, <1>17, <1>18

(* The rest of the buffer is tokenized, and with it the text is.           *)
LEMMA RestEnds ==
  ASSUME NEW F \in Seq(Char \union {Zero}), F # <<>>, F[Len(F)] = Zero,
         buf \in Buffer, ln \in 0 .. LINEBUFLEN - 1,
         tk \in [inquote : BOOLEAN, notlastspace : BOOLEAN], out \in Seq(Letter \union Token),
         EndOf(F, buf, ln), Reached(F, ln, tk, out), Tokenize(buf, ln, ln)
  PROVE  /\ out' = tokenizeline(Array(F), 0, Len(F), FreshState, <<>>).out
         /\ out' \in Seq(Char \union {Zero} \union Token)
         /\ buf' \in Buffer /\ ln' = 0 /\ tk' \in [inquote : BOOLEAN, notlastspace : BOOLEAN]
<1> DEFINE r == tokenizeline(buf, 0, ln, tk, out)
           w == tokenizeline(Array(F), 0, Len(F), FreshState, <<>>)
           r0 == [at |-> 0, tk |-> tk, out |-> out]
           d == Len(F) - ln
           here == [at |-> Len(F) - ln, tk |-> tk, out |-> out]
           e == Len(F) - Ahead
           n == Len(F)
<1>0. ln \in Nat /\ ln \in Int /\ n \in Nat /\ n \in Int /\ ln <= n /\ d \in Nat /\ ln < LINEBUFLEN
      /\ LINEBUFLEN \in Nat /\ Ahead \in Nat
  <2>1. n \in Nat
    OBVIOUS
  <2>2. ln <= n
    BY DEF EndOf
  <2>3. ln \in Nat /\ ln < LINEBUFLEN /\ LINEBUFLEN \in Nat /\ Ahead \in Nat
    BY Sizes
  <2>4. d \in Nat
    BY <2>1, <2>2, <2>3
  <2> QED BY <2>1, <2>2, <2>3, <2>4
<1>1. /\ out' = r.out /\ tk' = r.tk /\ ln' = ln - r.at
      /\ buf' = [i \in DOMAIN buf |-> IF i + r.at < LINEBUFLEN THEN buf[i + r.at] ELSE buf[i]]
  BY DEF Tokenize
<1>2. r0 \in Run /\ here \in Run /\ r0.at = 0 /\ r0.tk = tk /\ r0.out = out
  BY <1>0 DEF Run
<1>3. Readable(buf) /\ Readable(Array(F))
  BY BufferIs, ArrayIs
<1>4. r \in Run /\ r.at >= ln /\ Leads(buf, ln, r0, r)
  <2> HIDE DEF r0, d
  <2>1. r = tokenizeline(buf, r0.at, ln, r0.tk, r0.out)
    BY <1>2
  <2> HIDE DEF r
  <2> QED BY <1>0, <1>2, <1>3, <2>1, TokenizeLeads
<1>5. Begin \in Run /\ Begin.at = 0 /\ Begin.tk = FreshState /\ Begin.out = <<>>
  BY DEF Begin, Run, FreshState
<1>6. w \in Run /\ w.at >= n /\ Leads(Array(F), n, Begin, w)
  <2> HIDE DEF n
  <2>1. w = tokenizeline(Array(F), Begin.at, n, Begin.tk, Begin.out)
    BY <1>5 DEF n
  <2> HIDE DEF w
  <2> QED BY <1>0, <1>3, <1>5, <2>1, TokenizeLeads
<1> HIDE DEF r, w
<1>7. ASSUME NEW i \in 0 .. ln - 1
      PROVE  CharAt(buf, i) = buf[i] /\ CharAt(Array(F), i + d) = buf[i]
  <2>1. i \in 0 .. LINEBUFLEN - 1 /\ i + d \in 0 .. Len(F) - 1 /\ i + d \in Int /\ Len(F) - ln + i + 1 = (i + d) + 1
    BY <1>0
  <2>2. CharAt(buf, i) = buf[i]
    BY <2>1, BufferIs
  <2>3. buf[i] = F[Len(F) - ln + i + 1]
    BY DEF EndOf
  <2> HIDE DEF d
  <2>4. CharAt(Array(F), i + d) = F[(i + d) + 1]
    BY <2>1, ArrayIs
  <2> QED BY <2>1, <2>2, <2>3, <2>4
<1>8. ASSUME NEW i \in Nat, i < ln PROVE Alike(buf, i, Array(F), i + d)
  <2> DEFINE m == ln - 1 - i
  <2>1. m \in Nat /\ i \in Int /\ i + d \in Int
    BY <1>0, <1>8
  <2>2. ASSUME NEW x \in 0 .. m PROVE CharAt(buf, i + x) = CharAt(Array(F), (i + d) + x)
    <3>1. i + x \in 0 .. ln - 1 /\ (i + d) + x = (i + x) + d
      BY <1>0, <1>8
    <3> HIDE DEF d
    <3>2. CharAt(buf, i + x) = buf[i + x] /\ CharAt(Array(F), (i + x) + d) = buf[i + x]
      BY <1>7, <3>1
    <3> QED BY <3>1, <3>2
  <2>3. CharAt(buf, i + m) = Zero
    <3>1. i + m = ln - 1 /\ ln - 1 \in 0 .. ln - 1 /\ Len(F) - ln + (ln - 1) + 1 = Len(F)
      BY <1>0, <1>8
    <3>2. CharAt(buf, ln - 1) = buf[ln - 1]
      BY <1>7, <3>1
    <3>3. buf[ln - 1] = F[Len(F) - ln + (ln - 1) + 1]
      BY <3>1 DEF EndOf
    <3> HIDE DEF m
    <3> QED BY <3>1, <3>2, <3>3
  <2> HIDE DEF m, d
  <2> QED BY <2>1, <2>2, <2>3, AlikeAtEnd
<1>9. Leads(Array(F), ln + d, Shifted(r0, d), Shifted(r, d))
  <2>1. \A i \in Nat : r0.at <= i /\ i < ln => Alike(buf, i, Array(F), i + d)
    BY <1>8
  <2> HIDE DEF r0, d, n
  <2> QED BY ONLY <1>0, <1>2, <1>3, <1>4, <2>1, LeadsAlike
<1>10. Shifted(r0, d) = here /\ ln + d = n
  BY <1>0 DEF Shifted
<1>11. r.at \in Nat /\ r.out \in Seq(Letter \union Token)
       /\ r.tk \in [inquote : BOOLEAN, notlastspace : BOOLEAN]
  <2>1. r.at \in Nat /\ r.out \in Seq(Letter \union Token)
    BY <1>4, RunIs
  <2>2. r.tk \in [inquote : BOOLEAN, notlastspace : BOOLEAN]
    BY <1>4 DEF Run
  <2> QED BY <2>1, <2>2
<1> DEFINE there == Shifted(r, d)
<1>12. there \in Run /\ there.at >= n /\ there.out = r.out
  <2>1. there = [at |-> r.at + d, tk |-> r.tk, out |-> r.out]
    BY DEF Shifted
  <2>2. r.at \in Nat /\ r.at >= ln
    BY <1>4, <1>11
  <2>3. r.at + d \in Nat /\ r.at + d >= n
    <3> HIDE DEF d
    <3> QED BY ONLY <1>0, <1>10, <2>2
  <2> HIDE DEF there, d, n
  <2> QED BY <1>11, <2>1, <2>3 DEF Run
<1>13. Leads(Array(F), n, Begin, there)
  <2>1. Leads(Array(F), e, Begin, here)
    BY DEF Reached
  <2>2. Leads(Array(F), n, here, there)
    BY <1>9, <1>10
  <2>3. e \in Int /\ e <= n
    BY <1>0
  <2> HIDE DEF e, here, there, d, n
  <2> QED BY ONLY <1>0, <1>2, <1>5, <1>12, <2>1, <2>2, <2>3, LeadsOn
<1>14. there = w
  <2> HIDE DEF there, n
  <2> QED BY ONLY <1>0, <1>3, <1>5, <1>6, <1>12, <1>13, OneWay
<1>15. out' = w.out
  <2> HIDE DEF there
  <2> QED BY <1>1, <1>12, <1>14
<1>16. w.out \in Seq(Char \union {Zero} \union Token)
  <2>1. n <= Len(F)
    BY <1>0
  <2> HIDE DEF n
  <2> QED BY ONLY F \in Seq(Char \union {Zero}), <1>0, <1>6, <2>1, OutIsClean
<1>17. buf' \in Buffer
  <2>1. ASSUME NEW i \in 0 .. LINEBUFLEN - 1
        PROVE  (IF i + r.at < LINEBUFLEN THEN buf[i + r.at] ELSE buf[i]) \in Letter
    <3>1. i + r.at < LINEBUFLEN => i + r.at \in 0 .. LINEBUFLEN - 1
      BY <1>0, <1>11
    <3> QED BY <3>1 DEF Buffer
  <2>2. DOMAIN buf = 0 .. LINEBUFLEN - 1
    BY DEF Buffer
  <2> QED BY <1>1, <2>1, <2>2 DEF Buffer
<1>18. ln' = 0 /\ tk' \in [inquote : BOOLEAN, notlastspace : BOOLEAN]
  <2>1. w.at = Len(F)
    BY ListedBack DEF w
  <2>2. there.at = r.at + d
    BY DEF Shifted
  <2>3. r.at + d = n
    BY <1>14, <2>1, <2>2
  <2>4. r.at = ln
    BY <1>0, <1>11, <2>3, SMTT(30)
  <2> QED BY <1>0, <1>1, <1>11, <2>4
<1> QED BY <1>15, <1>16, <1>17, <1>18 DEF w

(* retokenize of a character that finds room.                              *)
LEMMA StoreKeeps ==
  ASSUME Shape, Room, EndOf(text, buf, ln), Reached(text, ln, tk, out), stage = "loop", ~NearlyFull,
         NEW c \in Char \union {Zero}, Store(c)
  PROVE  /\ buf' \in Buffer /\ ln' \in 0 .. LINEBUFLEN - 1
         /\ tk' \in [inquote : BOOLEAN, notlastspace : BOOLEAN] /\ out' \in Seq(Letter \union Token)
         /\ EndOf(Append(text, c), buf', ln') /\ Reached(Append(text, c), ln', tk', out')
         /\ autostore => ln' < LINEBUFTHRESHOLD
         /\ ~autostore => ln' = ln + 1 /\ ln' <= LINEBUFLEN - 2
<1> DEFINE G == Append(text, c)
           b == [buf EXCEPT ![ln] = c]
<1>1. /\ LINEBUFLEN \in Nat /\ LINEBUFTHRESHOLD \in Nat /\ LINEBUFHALFLEN \in Nat \ {0}
      /\ LINEBUFTHRESHOLD < LINEBUFLEN - 2 /\ Ahead \in Nat
  BY Sizes
<1>2. ln \in Nat /\ ln < LINEBUFLEN - 1 /\ (autostore => ln < LINEBUFTHRESHOLD) /\ (~autostore => ln < LINEBUFLEN - 2)
  <2>1. autostore => ln < LINEBUFTHRESHOLD
    BY DEF Room
  <2>2. ~autostore => ~(ln >= LINEBUFLEN - 2)
    BY DEF NearlyFull
  <2>3. ln \in Nat
    BY <1>1 DEF Shape
  <2>4. autostore \in BOOLEAN
    BY DEF Shape
  <2> QED BY ONLY <1>1, <2>1, <2>2, <2>3, <2>4
<1>3. text \in Seq(Char \union {Zero}) /\ G \in Seq(Char \union {Zero}) /\ Len(text) \in Nat
      /\ Len(G) = Len(text) + 1 /\ (\A i \in 1 .. Len(text) : G[i] = text[i]) /\ G[Len(text) + 1] = c
  <2>1. text \in Seq(Char \union {Zero})
    BY DEF Shape
  <2> QED BY <2>1
<1>4. b \in Buffer
  BY DEF Shape, Buffer, Letter
<1>5. ln + 1 \in 0 .. LINEBUFLEN - 1
  BY ONLY <1>1, <1>2
<1>6. EndOf(G, b, ln + 1)
  <2>1. ln <= Len(text)
    BY DEF EndOf
  <2>2. ASSUME NEW i \in 0 .. (ln + 1) - 1 PROVE b[i] = G[Len(G) - (ln + 1) + i + 1]
    <3>0. DOMAIN buf = 0 .. LINEBUFLEN - 1 /\ i \in 0 .. LINEBUFLEN - 1 /\ ln \in 0 .. LINEBUFLEN - 1
      BY <1>1, <1>2 DEF Shape, Buffer
    <3>1. CASE i < ln
      <4>1. i \in 0 .. ln - 1 /\ Len(text) - ln + i + 1 \in 1 .. Len(text)
            /\ Len(G) - (ln + 1) + i + 1 = Len(text) - ln + i + 1 /\ i # ln
        BY <1>2, <1>3, <2>1, <3>1
      <4>2. buf[i] = text[Len(text) - ln + i + 1]
        BY <4>1 DEF EndOf
      <4>3. b[i] = buf[i]
        BY <3>0, <4>1
      <4> QED BY <1>3, <4>1, <4>2, <4>3
    <3>2. CASE i = ln
      <4>1. Len(G) - (ln + 1) + i + 1 = Len(text) + 1
        BY <1>2, <1>3, <3>2
      <4>2. b[i] = c
        BY <3>0, <3>2
      <4> QED BY <1>3, <4>1, <4>2
    <3>3. i < ln \/ i = ln
      BY <1>2
    <3> QED BY <3>1, <3>2, <3>3
  <2>3. ln + 1 <= Len(G)
    BY <1>2, <1>3, <2>1
  <2> HIDE DEF b, G
  <2> QED BY <2>2, <2>3 DEF EndOf
<1>7. Reached(G, ln + 1, tk, out)
  <2> DEFINE here == [at |-> Len(text) - ln, tk |-> tk, out |-> out]
  <2>1. ln <= Len(text)
    BY DEF EndOf
  <2>2. here \in Run
    <3>1. Len(text) - ln \in Nat
      BY <1>2, <1>3, <2>1
    <3> QED BY <3>1 DEF Run, Shape
  <2>3. Leads(Array(text), Len(text) - Ahead, Begin, here)
    BY DEF Reached
  <2>4. Len(G) - (ln + 1) = Len(text) - ln
    BY <1>2, <1>3
  <2>5. here = [at |-> Len(G) - (ln + 1), tk |-> tk, out |-> out]
    BY <2>4
  <2> HIDE DEF here
  <2>6. Leads(Array(G), Len(G) - Ahead, Begin, here)
    BY <1>3, <2>2, <2>3, TextGrows
  <2> HIDE DEF G
  <2> QED BY <2>5, <2>6 DEF Reached
<1>8. CASE autostore /\ ln + 1 >= LINEBUFTHRESHOLD
  <2>1. Tokenize(b, ln + 1, LINEBUFHALFLEN)
    BY <1>1, <1>2, <1>8 DEF Store
  <2>2. tk \in [inquote : BOOLEAN, notlastspace : BOOLEAN] /\ out \in Seq(Letter \union Token)
    BY DEF Shape
  <2> HIDE DEF b, G
  <2>3. /\ buf' \in Buffer /\ ln' \in 0 .. (ln + 1) - LINEBUFHALFLEN
        /\ tk' \in [inquote : BOOLEAN, notlastspace : BOOLEAN] /\ out' \in Seq(Letter \union Token)
        /\ EndOf(G, buf', ln') /\ Reached(G, ln', tk', out')
    BY <1>3, <1>4, <1>5, <1>6, <1>7, <1>8, <2>1, <2>2, HalfKeeps
  <2>4. ln' \in 0 .. LINEBUFLEN - 1 /\ ln' < LINEBUFTHRESHOLD
    <3>1. ln' \in 0 .. (ln + 1) - LINEBUFHALFLEN /\ ln < LINEBUFTHRESHOLD
      BY <1>2, <1>8, <2>3
    <3> QED BY ONLY <1>1, <1>2, <3>1
  <2> QED BY <1>8, <2>3, <2>4 DEF G
<1>9. CASE ~(autostore /\ ln + 1 >= LINEBUFTHRESHOLD)
  <2>1. buf' = b /\ ln' = ln + 1 /\ UNCHANGED <<tk, out>>
    BY <1>1, <1>2, <1>9 DEF Store
  <2>2. ln' < LINEBUFTHRESHOLD \/ ~autostore
    BY <1>1, <1>2, <1>9, <2>1
  <2>3. ~autostore => ln' <= LINEBUFLEN - 2
    BY <1>1, <1>2, <2>1
  <2>4. tk \in [inquote : BOOLEAN, notlastspace : BOOLEAN] /\ out \in Seq(Letter \union Token)
    BY DEF Shape
  <2>5. buf' \in Buffer /\ ln' \in 0 .. LINEBUFLEN - 1
    BY <1>4, <1>5, <2>1
  <2>6. EndOf(G, buf', ln') /\ Reached(G, ln', tk', out')
    <3> HIDE DEF b, G
    <3> QED BY <1>6, <1>7, <2>1
  <2> QED BY <2>1, <2>2, <2>3, <2>4, <2>5, <2>6
<1> QED BY <1>8, <1>9

LEMMA WholeIs ==
  ASSUME text \in Seq(Char), NEW F, F = Append(text, Zero)
  PROVE  /\ F \in Seq(Char \union {Zero}) /\ F # <<>> /\ F[Len(F)] = Zero
         /\ Whole = tokenizeline(Array(F), 0, Len(F), FreshState, <<>>)
<1>1. F \in Seq(Char \union {Zero}) /\ F # <<>> /\ Len(F) = Len(text) + 1 /\ Len(text) \in Nat
      /\ F[Len(text) + 1] = Zero
  <2>1. text \in Seq(Char \union {Zero})
    OBVIOUS
  <2> QED BY <2>1
<1>2. Array(F) = WholeText
  <2>1. Len(F) - 1 = Len(text)
    BY <1>1
  <2> QED BY <2>1 DEF Array, WholeText
<1> QED BY <1>1, <1>2 DEF Whole

LEMMA TextStarts == Init => TextInv
<1> SUFFICES ASSUME Init PROVE TextInv
  OBVIOUS
<1>1. Shape
  <2>1. 0 \in 0 .. LINEBUFLEN - 1
    BY Sizes
  <2>2. [i \in 0 .. LINEBUFLEN - 1 |-> Stale] \in Buffer
    BY DEF Buffer, Letter
  <2>3. FreshState \in [inquote : BOOLEAN, notlastspace : BOOLEAN]
    BY DEF FreshState
  <2>4. <<>> \in Seq(Char) /\ <<>> \in Seq(Letter \union Token)
    OBVIOUS
  <2> QED BY <2>1, <2>2, <2>3, <2>4 DEF Init, Shape
<1>2. Room
  BY Sizes DEF Init, Room
<1>3. EndOf(Fed, buf, ln)
  <2>1. Fed = <<>> /\ ln = 0
    BY DEF Init, Fed
  <2> QED BY <2>1 DEF EndOf
<1>4. Reached(Fed, ln, tk, out)
  <2>1. Fed = <<>> /\ [at |-> Len(Fed) - ln, tk |-> tk, out |-> out] = Begin
    BY DEF Init, Fed, Begin
  <2>2. Leads(Array(Fed), Len(Fed) - Ahead, Begin, Begin)
    BY DEF Leads
  <2> QED BY <2>1, <2>2 DEF Reached
<1>5. stage # "done"
  BY DEF Init
<1> QED BY <1>1, <1>2, <1>3, <1>4, <1>5 DEF TextInv

LEMMA InputKeepsText ==
  ASSUME TextInv, NEW c \in Char, Input(c)
  PROVE  TextInv'
<1>1. Shape /\ Room /\ stage = "loop" /\ EndOf(text, buf, ln) /\ Reached(text, ln, tk, out) /\ ~NearlyFull
  BY DEF TextInv, Input, Fed
<1>2. Store(c) /\ TurnStarts /\ text' = Append(text, c) /\ autostore' = autostore /\ stage' = "loop"
  BY <1>1 DEF Input
<1>3. c \in Char \union {Zero}
  OBVIOUS
<1>4. /\ buf' \in Buffer /\ ln' \in 0 .. LINEBUFLEN - 1
      /\ tk' \in [inquote : BOOLEAN, notlastspace : BOOLEAN] /\ out' \in Seq(Letter \union Token)
      /\ EndOf(Append(text, c), buf', ln') /\ Reached(Append(text, c), ln', tk', out')
      /\ autostore => ln' < LINEBUFTHRESHOLD
      /\ ~autostore => ln' = ln + 1 /\ ln' <= LINEBUFLEN - 2
  BY <1>1, <1>2, <1>3, StoreKeeps
<1>5. Shape'
  <2>1. text' \in Seq(Char)
    BY <1>1, <1>2 DEF Shape
  <2>2. xoff' \in BOOLEAN
    BY <1>1, <1>2 DEF Shape, TurnStarts
  <2> QED BY <1>1, <1>2, <1>4, <2>1, <2>2 DEF Shape
<1>6. Room'
  <2>1. ~autostore => (xoff' <=> ln' > LINEBUFTHRESHOLD)
    <3> SUFFICES ASSUME ~autostore PROVE xoff' <=> ln' > LINEBUFTHRESHOLD
      OBVIOUS
    <3>1. ln \in Int /\ LINEBUFTHRESHOLD \in Int
      BY <1>1, Sizes DEF Shape
    <3>2. (xoff <=> ln > LINEBUFTHRESHOLD) /\ (xoff' <=> (xoff \/ ln = LINEBUFTHRESHOLD)) /\ ln' = ln + 1
      BY <1>1, <1>2, <1>4 DEF Room, TurnStarts
    <3> QED BY ONLY <3>1, <3>2
  <2> QED BY <1>2, <1>4, <2>1 DEF Room
<1>7. Fed' = Append(text, c)
  BY <1>2 DEF Fed
<1>8. EndOf(Fed, buf, ln)' /\ Reached(Fed, ln, tk, out)'
  BY <1>4, <1>7 DEF EndOf, Reached, Array, Ahead
<1> QED BY <1>2, <1>5, <1>6, <1>8 DEF TextInv

LEMMA InputEndsKeepsText ==
  ASSUME TextInv, InputEnds
  PROVE  TextInv'
<1>1. Shape /\ Room /\ stage = "loop" /\ EndOf(text, buf, ln) /\ Reached(text, ln, tk, out) /\ ~NearlyFull
  BY DEF TextInv, InputEnds, Fed
<1>2. Store(Zero) /\ TurnStarts /\ text' = text /\ autostore' = autostore /\ stage' = "ended"
  BY <1>1 DEF InputEnds
<1>3. Zero \in Char \union {Zero}
  OBVIOUS
<1>4. /\ buf' \in Buffer /\ ln' \in 0 .. LINEBUFLEN - 1
      /\ tk' \in [inquote : BOOLEAN, notlastspace : BOOLEAN] /\ out' \in Seq(Letter \union Token)
      /\ EndOf(Append(text, Zero), buf', ln') /\ Reached(Append(text, Zero), ln', tk', out')
      /\ autostore => ln' < LINEBUFTHRESHOLD
  BY <1>1, <1>2, <1>3, StoreKeeps
<1>5. Shape'
  <2>1. xoff' \in BOOLEAN
    BY <1>1, <1>2 DEF Shape, TurnStarts
  <2> QED BY <1>1, <1>2, <1>4, <2>1 DEF Shape
<1>6. Room'
  BY <1>2, <1>4 DEF Room
<1>7. Fed' = Append(text, Zero)
  BY <1>2 DEF Fed
<1>8. EndOf(Fed, buf, ln)' /\ Reached(Fed, ln, tk, out)'
  BY <1>4, <1>7 DEF EndOf, Reached, Array, Ahead
<1> QED BY <1>2, <1>5, <1>6, <1>8 DEF TextInv

LEMMA PauseKeepsText ==
  ASSUME TextInv, Pause
  PROVE  TextInv'
<1>1. Shape /\ Room /\ stage = "loop" /\ EndOf(text, buf, ln) /\ Reached(text, ln, tk, out)
  BY DEF TextInv, Pause, Fed
<1>2. /\ Tokenize(buf, ln, LINEBUFHALFLEN) /\ text' = text /\ autostore' = autostore /\ ~autostore
      /\ stage' = "loop" /\ xoff' = FALSE /\ (xoff \/ ln = LINEBUFTHRESHOLD)
  BY <1>1 DEF Pause, StoreHalf
<1>3. ln \in Nat /\ LINEBUFTHRESHOLD \in Nat /\ ln >= LINEBUFTHRESHOLD /\ ln <= LINEBUFLEN - 2
  <2>1. ln \in Nat /\ LINEBUFTHRESHOLD \in Nat
    BY <1>1, Sizes DEF Shape
  <2>2. xoff => ln > LINEBUFTHRESHOLD
    BY <1>1, <1>2 DEF Room
  <2>3. ln <= LINEBUFLEN - 2
    BY <1>1, <1>2 DEF Room
  <2> QED BY <1>2, <2>1, <2>2, <2>3
<1>4. /\ buf' \in Buffer /\ ln' \in 0 .. ln - LINEBUFHALFLEN
      /\ tk' \in [inquote : BOOLEAN, notlastspace : BOOLEAN] /\ out' \in Seq(Letter \union Token)
      /\ EndOf(text, buf', ln') /\ Reached(text, ln', tk', out')
  <2>1. /\ text \in Seq(Char \union {Zero}) /\ buf \in Buffer /\ ln \in 0 .. LINEBUFLEN - 1
        /\ tk \in [inquote : BOOLEAN, notlastspace : BOOLEAN] /\ out \in Seq(Letter \union Token)
    BY <1>1 DEF Shape
  <2> QED BY <1>1, <1>2, <1>3, <2>1, HalfKeeps
<1>5. ln' \in 0 .. LINEBUFLEN - 1 /\ ln' <= LINEBUFLEN - 2 /\ ~(ln' > LINEBUFTHRESHOLD)
  <2>1. /\ LINEBUFLEN \in Nat /\ LINEBUFHALFLEN \in Nat \ {0}
        /\ LINEBUFLEN - 2 - LINEBUFHALFLEN <= LINEBUFTHRESHOLD
    BY Sizes
  <2>2. ln' \in 0 .. ln - LINEBUFHALFLEN
    BY <1>4
  <2> QED BY ONLY <1>3, <2>1, <2>2
<1>6. Shape'
  BY <1>1, <1>2, <1>4, <1>5 DEF Shape
<1>7. Room'
  BY <1>2, <1>5 DEF Room
<1>8. Fed' = text
  BY <1>2 DEF Fed
<1>9. EndOf(Fed, buf, ln)' /\ Reached(Fed, ln, tk, out)'
  BY <1>4, <1>8 DEF EndOf, Reached, Array, Ahead
<1> QED BY <1>2, <1>6, <1>7, <1>9 DEF TextInv

LEMMA FinishKeepsText ==
  ASSUME TextInv, Finish
  PROVE  TextInv'
<1> DEFINE F == Append(text, Zero)
<1>1. Shape /\ stage = "ended" /\ EndOf(F, buf, ln) /\ Reached(F, ln, tk, out)
  BY DEF TextInv, Finish, Fed
<1>2. /\ Tokenize(buf, ln, ln) /\ text' = text /\ autostore' = autostore /\ xoff' = xoff
      /\ stage' = "done"
  BY <1>1 DEF Finish, StoreRest
<1>3. text \in Seq(Char)
  BY <1>1 DEF Shape
<1>4. F \in Seq(Char \union {Zero}) /\ F # <<>> /\ F[Len(F)] = Zero
      /\ Whole = tokenizeline(Array(F), 0, Len(F), FreshState, <<>>)
  BY <1>3, WholeIs
<1> HIDE DEF F
<1>5. /\ out' = tokenizeline(Array(F), 0, Len(F), FreshState, <<>>).out
      /\ out' \in Seq(Char \union {Zero} \union Token)
      /\ buf' \in Buffer /\ ln' = 0 /\ tk' \in [inquote : BOOLEAN, notlastspace : BOOLEAN]
  <2>1. /\ buf \in Buffer /\ ln \in 0 .. LINEBUFLEN - 1
        /\ tk \in [inquote : BOOLEAN, notlastspace : BOOLEAN] /\ out \in Seq(Letter \union Token)
    BY <1>1 DEF Shape
  <2> QED BY <1>1, <1>2, <1>4, <2>1, RestEnds
<1>6. Whole' = Whole
  BY <1>2 DEF Whole, WholeText, tokenizeline, Turn, QuotedTurn, PlainTurn, Matches, CharAt, FreshState
<1>7. Shape'
  <2>1. out' \in Seq(Letter \union Token)
    <3>1. Char \union {Zero} \union Token \subseteq Letter \union Token
      BY DEF Letter
    <3>2. \A i \in 1 .. Len(out') : out'[i] \in Letter \union Token
      BY <1>5, <3>1
    <3> QED BY <1>5, <3>2
  <2>2. 0 \in 0 .. LINEBUFLEN - 1
    BY Sizes
  <2> QED BY <1>1, <1>2, <1>5, <2>1, <2>2 DEF Shape
<1>8. Room'
  BY <1>2 DEF Room
<1> QED BY <1>2, <1>4, <1>5, <1>6, <1>7, <1>8 DEF TextInv

LEMMA TextStep == TextInv /\ [Next]_vars => TextInv'
<1> SUFFICES ASSUME TextInv, [Next]_vars PROVE TextInv'
  OBVIOUS
<1>1. CASE UNCHANGED vars
  BY <1>1 DEF vars, TextInv, Shape, Room, EndOf, Reached, Fed, Whole, WholeText
<1> QED
  BY <1>1, InputKeepsText, InputEndsKeepsText, PauseKeepsText, FinishKeepsText DEF Next

LEMMA TextHolds == Spec => []TextInv
BY TextStarts, TextStep, PTL DEF Spec

(* When retokenize has been given the whole text, addchar has received     *)
(* what tokenizeline makes of the text in one piece: neither the cuts of   *)
(* the line buffer nor the sender's pauses show in the program.            *)
THEOREM OnePiece == Spec => []CutsDoNotShow
<1>1. TextInv => CutsDoNotShow
  BY DEF TextInv, CutsDoNotShow, Whole
<1> QED BY <1>1, TextHolds, PTL

(* When doprogram stops polling for keys because the line buffer is nearly *)
(* full, the sender has been sent XOFF, so that the next turn empties it.  *)
THEOREM Unwedged == Spec => []NeverStuck
<1>1. TextInv => NeverStuck
  <2> SUFFICES ASSUME TextInv, stage = "loop", NearlyFull PROVE xoff
    BY DEF NeverStuck
  <2>1. ~autostore /\ ln >= LINEBUFLEN - 2
    BY DEF NearlyFull
  <2>2. xoff <=> ln > LINEBUFTHRESHOLD
    BY <2>1 DEF TextInv, Room
  <2>3. ln \in Int
    BY Sizes DEF TextInv, Shape
  <2> QED BY <2>1, <2>2, <2>3, Sizes
<1> QED BY <1>1, TextHolds, PTL

(* Every variable keeps to its values; in particular what addchar receives *)
(* is characters and tokens, and never what malloc left in the buffer.     *)
THEOREM TextTypeOK == Spec => []TypeOK
<1>1. ASSUME TextInv PROVE TypeOK
  <2>1. Shape
    BY <1>1 DEF TextInv
  <2>2. out \in Seq(Char \union {Zero} \union Token)
    <3>1. CASE stage = "done"
      BY <1>1, <3>1 DEF TextInv
    <3>2. CASE stage # "done"
      <4> DEFINE r == [at |-> Len(Fed) - ln, tk |-> tk, out |-> out]
                 e == Len(Fed) - Ahead
      <4>1. Fed \in Seq(Char \union {Zero})
        BY <2>1 DEF Shape, Fed
      <4>2. ln <= Len(Fed) /\ Len(Fed) \in Nat /\ ln \in Nat /\ Ahead \in Nat
        BY <1>1, <2>1, <3>2, <4>1, Sizes DEF TextInv, EndOf, Shape
      <4>3. Len(Fed) - ln \in Nat /\ e \in Int /\ e <= Len(Fed)
        BY <4>2
      <4>4. r \in Run
        BY <2>1, <4>3 DEF Run, Shape
      <4>5. Leads(Array(Fed), e, Begin, r) /\ r.out = out
        BY <1>1, <3>2 DEF TextInv, Reached
      <4> HIDE DEF r, e
      <4> QED BY <4>1, <4>3, <4>4, <4>5, OutIsClean
    <3> QED BY <3>1, <3>2
  <2> QED BY <2>1, <2>2 DEF TypeOK, Shape, Buffer, Letter, Token
<1> QED BY <1>1, TextHolds, PTL

-------------------------------------------------------------------------------
(* A program sent over the line                                            *)

LEMMA ProgramStep ==
  ASSUME [ProgramNext]_allvars
  PROVE  [Next]_vars
<1>1. CASE UNCHANGED allvars
  BY <1>1 DEF allvars, textvars, vars
<1>2. ASSUME NEW c \in Typed \union {EndKey}, KeyInput(c) PROVE Next
  <2>1. c # EndKey => c \in Char
    BY SenderAssumption
  <2> QED BY <1>2, <2>1 DEF KeyInput, Next
<1>3. CASE EndStore \/ EndTyped \/ Upload
  BY <1>3 DEF EndStore, EndTyped, Upload, Next
<1>4. CASE Hear \/ Handler \/ Poll \/ StartStore \/ \E c \in Typed \union {EndKey} : Send(c)
  BY <1>4 DEF Hear, Handler, Poll, StartStore, Send, textvars, vars
<1> QED BY <1>1, <1>2, <1>3, <1>4 DEF ProgramNext

(* doprogram with a sender at the line is doprogram: whatever was shown of *)
(* any text holds of one that is typed.                                    *)
THEOREM ProgramIsRetoken == ProgramSpec => Spec
<1>1. ProgramInit => Init
  BY DEF ProgramInit
<1> QED BY <1>1, ProgramStep, PTL DEF ProgramSpec, Spec

(* The sender and doprogram: what was sent has been accepted by the ring   *)
(* or waits in the FIFO, and the ring has room for what waits.             *)

One(p) == IF p THEN 1 ELSE 0

Asked == ln >= LINEBUFTHRESHOLD

SenderTypeOK ==
  /\ signals \in Seq({"XOFF", "XON"})
  /\ stopped \in BOOLEAN /\ storing \in BOOLEAN
  /\ late \in 0 .. Lag
  /\ stopped => late = 0

Arrived == sent = accepted \o fifo /\ Unread + Len(fifo) <= RX_BUFFER_SIZE - 1

Typing == ~autostore => taken = IF stage = "loop" THEN text ELSE Append(text, EndKey)

(* XOFF and XON take turns on their way to the sender.                     *)
InTurn(q, first, last) ==
  /\ q # <<>> => q[1] = first /\ q[Len(q)] = last
  /\ \A i \in 1 .. Len(q) - 1 : q[i] # q[i + 1]

Alternating ==
  InTurn(signals, IF stopped THEN "XON" ELSE "XOFF", IF Asked THEN "XOFF" ELSE "XON")

(* Characters not yet read, and those that k XOFFs on the way still allow. *)
ToCome(k) == Unread + Len(fifo) + k * Lag - late

(* Before an XOFF they fit into the ring; once it is out, what the line    *)
(* buffer has taken beyond the threshold counts as well; and while flash   *)
(* is written they fit into the FIFO.                                      *)
Bounded(k) ==
  /\ Len(signals) + One(Asked) = 2 * k + One(stopped)
  /\ Asked => ln - LINEBUFTHRESHOLD + InHand + ToCome(k) <= RX_BUFFER_SIZE - 1 + Lag
  /\ ~Asked => ToCome(k) <= RX_BUFFER_SIZE - 1
  /\ storing => Asked /\ reader = "idle" /\ ToCome(k) <= FIFO_SIZE

AtTheLine == stage = "loop" /\ ~autostore

LineInv ==
  /\ RingInv
  /\ SenderTypeOK
  /\ Arrived
  /\ Typing
  /\ storing => AtTheLine
  /\ AtTheLine => Alternating /\ \E k \in Nat : Bounded(k)

LEMMA LineIs ==
  ASSUME TextInv, LineInv
  PROVE  /\ Unread \in Nat /\ InHand \in {0, 1} /\ Len(fifo) \in Nat /\ Len(signals) \in Nat
         /\ Unread + Len(fifo) <= RX_BUFFER_SIZE - 1
         /\ Len(accepted) \in Nat /\ Len(taken) \in Nat
         /\ Len(accepted) = Len(taken) + InHand + Unread
         /\ late \in Nat /\ late <= Lag /\ ln \in Nat /\ Lag \in Nat
         /\ RX_BUFFER_SIZE \in Nat /\ FIFO_SIZE \in Nat \ {0} /\ FIFO_SIZE < RX_BUFFER_SIZE
         /\ LINEBUFTHRESHOLD \in Nat /\ LINEBUFLEN \in Nat
         /\ Lag + RX_BUFFER_SIZE - 1 <= LINEBUFLEN - 2 - LINEBUFTHRESHOLD + FIFO_SIZE
         /\ fifo \in Seq(Keys) /\ accepted \in Seq(Keys) /\ taken \in Seq(Keys)
         /\ signals \in Seq({"XOFF", "XON"}) /\ stopped \in BOOLEAN /\ storing \in BOOLEAN
<1>1. RingTypeOK /\ Lengths /\ SenderTypeOK /\ Unread + Len(fifo) <= RX_BUFFER_SIZE - 1
  BY DEF LineInv, RingInv, Arrived
<1>2. Unread \in Nat
  BY <1>1, UnreadFits
<1>3. ln \in Nat
  BY Sizes DEF TextInv, Shape
<1>4. fifo \in Seq(Keys) /\ accepted \in Seq(Keys) /\ taken \in Seq(Keys) /\ signals \in Seq({"XOFF", "XON"})
  BY <1>1 DEF RingTypeOK, SenderTypeOK
<1>5. Len(fifo) \in Nat /\ Len(accepted) \in Nat /\ Len(taken) \in Nat /\ Len(signals) \in Nat
  BY <1>4
<1>6. late \in Nat /\ late <= Lag /\ Lag \in Nat /\ stopped \in BOOLEAN /\ storing \in BOOLEAN
  BY <1>1, SenderAssumption DEF SenderTypeOK
<1>7. Len(accepted) = Len(taken) + InHand + Unread /\ InHand \in {0, 1}
  BY <1>1 DEF Lengths, InHand
<1> QED BY <1>1, <1>2, <1>3, <1>4, <1>5, <1>6, <1>7, RingAssumption, SenderAssumption, Sizes

LEMMA KeysAre == Typed \union {EndKey} \subseteq Keys /\ Typed \subseteq Char
BY SenderAssumption

(* A sender that may send though it was asked to stop has not heard of it. *)
LEMMA NotHeard ==
  ASSUME TextInv, LineInv, AtTheLine, ~stopped, NEW k \in Nat, Bounded(k)
  PROVE  Unheard <=> k >= 1
<1>1. Len(signals) \in Nat /\ Len(signals) + One(Asked) = 2 * k /\ One(Asked) \in {0, 1}
  <2>1. Len(signals) \in Nat /\ Len(signals) + One(Asked) = 2 * k + One(stopped) /\ One(stopped) = 0
    BY LineIs DEF Bounded, One
  <2>2. One(Asked) \in {0, 1}
    BY DEF One
  <2> QED BY ONLY <2>1, <2>2, k \in Nat
<1>2. CASE k >= 1
  <2>1. Len(signals) >= 1
    BY ONLY <1>1, <1>2, k \in Nat
  <2>2. signals \in Seq({"XOFF", "XON"})
    BY LineIs
  <2>3. signals # <<>> /\ 1 \in DOMAIN signals
    BY <2>1, <2>2
  <2>4. signals[1] = "XOFF"
    BY <2>3 DEF LineInv, Alternating, InTurn
  <2> QED BY <1>2, <2>3, <2>4 DEF Unheard, Range
<1>3. CASE ~(k >= 1)
  <2>1. Len(signals) = 0
    BY ONLY <1>1, <1>3, k \in Nat
  <2>2. DOMAIN signals = {}
    BY <2>1, LineIs
  <2> QED BY <1>3, <2>2 DEF Unheard, Range
<1> QED BY <1>2, <1>3

(* What does not touch the line buffer or the sender.                      *)
LEMMA SameSender ==
  ASSUME TextInv, LineInv, RingInv', UNCHANGED <<sendervars, storing, textvars>>,
         sent' = accepted' \o fifo', ~autostore => taken' = taken,
         Unread' + Len(fifo') <= Unread + Len(fifo),
         InHand' + Unread' + Len(fifo') = InHand + Unread + Len(fifo),
         storing => reader' = reader
  PROVE  LineInv'
<1>1. UNCHANGED <<signals, stopped, late, storing, stage, autostore, ln, text>>
  BY DEF sendervars, textvars
<1>2. SenderTypeOK' /\ Typing' /\ (storing => AtTheLine)' /\ (AtTheLine => Alternating)'
  BY <1>1, SMTT(30) DEF LineInv, SenderTypeOK, Typing, AtTheLine, Alternating, InTurn, Asked
<1>3. RingTypeOK' /\ RingTypeOK
  BY DEF RingInv, LineInv
<1>4. Unread' \in Nat /\ Len(fifo') \in Nat /\ InHand' \in Nat /\ InHand \in Nat
      /\ Unread \in Nat /\ Len(fifo) \in Nat
  <2>1. Unread' \in Nat
    BY <1>3, UnreadFitsNext
  <2>2. Len(fifo') \in Nat
    BY <1>3 DEF RingTypeOK
  <2>3. InHand' \in Nat /\ InHand \in Nat
    BY DEF InHand
  <2>4. Unread \in Nat /\ Len(fifo) \in Nat
    BY LineIs
  <2> QED BY <2>1, <2>2, <2>3, <2>4
<1>5. Arrived'
  <2>1. Unread + Len(fifo) <= RX_BUFFER_SIZE - 1 /\ RX_BUFFER_SIZE \in Nat
    BY LineIs
  <2>2. Unread' + Len(fifo') <= RX_BUFFER_SIZE - 1
    BY ONLY <1>4, <2>1, Unread' + Len(fifo') <= Unread + Len(fifo)
  <2> QED BY <2>2 DEF Arrived
<1>6. ASSUME AtTheLine, NEW k \in Nat, Bounded(k) PROVE Bounded(k)'
  <2>1. late \in Nat /\ ln \in Nat /\ LINEBUFTHRESHOLD \in Nat /\ RX_BUFFER_SIZE \in Nat
        /\ Lag \in Nat /\ FIFO_SIZE \in Nat
    BY LineIs
  <2>2. ToCome(k)' <= ToCome(k) /\ InHand' + ToCome(k)' = InHand + ToCome(k)
        /\ ToCome(k) \in Int /\ ToCome(k)' \in Int
    <3>1. ToCome(k) = Unread + Len(fifo) + k * Lag - late
      BY DEF ToCome
    <3>2. ToCome(k)' = Unread' + Len(fifo') + k * Lag - late
      BY <1>1 DEF ToCome
    <3>3. Unread' + Len(fifo') <= Unread + Len(fifo)
          /\ InHand' + Unread' + Len(fifo') = InHand + Unread + Len(fifo)
      OBVIOUS
    <3>4. k * Lag \in Int
      BY <2>1
    <3> DEFINE x == k * Lag
               f == Len(fifo)
               g == Len(fifo')
               u == Unread
               v == Unread'
               h == InHand
               i == InHand'
    <3>5. /\ f \in Nat /\ g \in Nat /\ u \in Nat /\ v \in Nat /\ h \in Nat /\ i \in Nat /\ x \in Int /\ late \in Nat
          /\ v + g <= u + f /\ i + v + g = h + u + f
          /\ ToCome(k) = u + f + x - late /\ ToCome(k)' = v + g + x - late
      BY <1>4, <2>1, <3>1, <3>2, <3>3, <3>4
    <3> HIDE DEF x, f, g, u, v, h, i
    <3>6. u + f + x - late \in Int /\ v + g + x - late \in Int
          /\ v + g + x - late <= u + f + x - late
          /\ i + (v + g + x - late) = h + (u + f + x - late)
      BY ONLY <3>5
    <3>7. ToCome(k)' <= ToCome(k) /\ i + ToCome(k)' = h + ToCome(k) /\ ToCome(k) \in Int /\ ToCome(k)' \in Int
      BY ONLY <3>5, <3>6
    <3> QED BY <3>7 DEF h, i
  <2>3. Asked => ln - LINEBUFTHRESHOLD + InHand' + ToCome(k)' <= RX_BUFFER_SIZE - 1 + Lag
    <3>1. Asked => ln - LINEBUFTHRESHOLD + InHand + ToCome(k) <= RX_BUFFER_SIZE - 1 + Lag
      BY <1>6 DEF Bounded
    <3> QED BY ONLY <1>4, <2>1, <2>2, <3>1, SMTT(30)
  <2>4. ~Asked => ToCome(k)' <= RX_BUFFER_SIZE - 1
    <3>1. ~Asked => ToCome(k) <= RX_BUFFER_SIZE - 1
      BY <1>6 DEF Bounded
    <3> QED BY ONLY <2>1, <2>2, <3>1
  <2>5. storing => Asked /\ reader' = "idle" /\ ToCome(k)' <= FIFO_SIZE
    <3>1. storing => Asked /\ reader = "idle" /\ ToCome(k) <= FIFO_SIZE
      BY <1>6 DEF Bounded
    <3>2. storing => ToCome(k)' <= FIFO_SIZE
      BY ONLY <2>1, <2>2, <3>1
    <3> QED BY <3>1, <3>2
  <2>6. Asked' = Asked /\ Len(signals) + One(Asked) = 2 * k + One(stopped)
    BY <1>1, <1>6 DEF Asked, Bounded
  <2> QED BY <1>1, <2>3, <2>4, <2>5, <2>6 DEF Bounded, One
<1>7. (AtTheLine => \E k \in Nat : Bounded(k))'
  BY <1>1, <1>6 DEF AtTheLine, LineInv
<1> QED BY <1>2, <1>5, <1>7 DEF LineInv

LEMMA FirstMoves ==
  ASSUME NEW S, NEW a \in Seq(S), NEW f \in Seq(S), f # <<>>
  PROVE  Append(a, Head(f)) \o Tail(f) = a \o f
<1> DEFINE u == Append(a, Head(f)) \o Tail(f)
           v == a \o f
<1>1. /\ Head(f) = f[1] /\ Head(f) \in S /\ Tail(f) \in Seq(S) /\ Len(Tail(f)) = Len(f) - 1
      /\ Len(a) \in Nat /\ Len(f) \in Nat \ {0}
  OBVIOUS
<1>2. \A i \in 1 .. Len(f) - 1 : Tail(f)[i] = f[i + 1]
  OBVIOUS
<1>3. /\ Append(a, Head(f)) \in Seq(S) /\ Len(Append(a, Head(f))) = Len(a) + 1
      /\ Append(a, Head(f))[Len(a) + 1] = f[1]
      /\ \A i \in 1 .. Len(a) : Append(a, Head(f))[i] = a[i]
  BY <1>1
<1>4. u \in Seq(S) /\ v \in Seq(S) /\ Len(u) = Len(a) + Len(f) /\ Len(v) = Len(a) + Len(f)
  BY <1>1, <1>3
<1>5. ASSUME NEW i \in 1 .. Len(a) + Len(f) PROVE u[i] = v[i]
  <2>1. CASE i <= Len(a)
    BY <1>1, <1>3, <2>1
  <2>2. CASE i = Len(a) + 1
    BY <1>1, <1>3, <2>2
  <2>3. CASE i > Len(a) + 1
    <3>1. i - (Len(a) + 1) \in 1 .. Len(f) - 1 /\ (i - (Len(a) + 1)) + 1 = i - Len(a)
      BY <1>1, <2>3
    <3>2. u[i] = Tail(f)[i - (Len(a) + 1)]
      BY <1>1, <1>3, <2>3
    <3>3. v[i] = f[i - Len(a)]
      BY <1>1, <2>3
    <3> QED BY <1>2, <3>1, <3>2, <3>3
  <2> QED BY <1>1, <2>1, <2>2, <2>3
<1> HIDE DEF u, v
<1>6. u = v
  BY ONLY <1>4, <1>5, SeqEqual
<1> QED BY <1>6 DEF u, v

LEMMA HandlerKeepsLine ==
  ASSUME TextInv, LineInv, Handler
  PROVE  LineInv'
<1>1. Interrupt /\ RingInv /\ UNCHANGED <<sendervars, storing, textvars>> /\ sent' = sent
  BY DEF Handler, LineInv, sendervars
<1>2. RingInv'
  BY <1>1, InterruptKeeps
<1>3. fifo # <<>> /\ fifo \in Seq(Keys) /\ accepted \in Seq(Keys) /\ Len(fifo) \in Nat /\ Unread \in Nat
      /\ Unread + Len(fifo) <= RX_BUFFER_SIZE - 1 /\ RX_BUFFER_SIZE \in Nat
  BY <1>1, LineIs DEF Interrupt
<1>4. Unread < RX_BUFFER_SIZE - 1
  BY <1>3
<1>5. Bump(insert_idx) # extract_idx
  <2>1. insert_idx \in Slots /\ extract_idx \in Slots
    BY <1>1 DEF RingInv, RingTypeOK
  <2> QED BY <1>3, <1>4, <2>1 DEF Bump, Unread, Slots
<1>6. accepted' = Append(accepted, Head(fifo)) /\ fifo' = Tail(fifo) /\ taken' = taken /\ reader' = reader
  BY <1>1, <1>5 DEF Interrupt, readervars
<1>7. accepted' \o fifo' = accepted \o fifo
  BY <1>3, <1>6, FirstMoves
<1>8. sent' = accepted' \o fifo'
  BY <1>1, <1>7 DEF LineInv, Arrived
<1>9. Len(fifo') = Len(fifo) - 1 /\ Len(accepted') = Len(accepted) + 1
  BY <1>3, <1>6
<1>10. Unread' = Unread + 1 /\ InHand' = InHand
  <2>1. InHand' = InHand
    BY <1>6 DEF InHand
  <2>2. Len(accepted') = Len(taken') + InHand' + Unread'
    BY <1>2 DEF RingInv, Lengths
  <2>3. Unread' \in Int
    BY <1>2, UnreadFitsNext DEF RingInv
  <2>4. Len(accepted) = Len(taken) + InHand + Unread /\ Len(taken) \in Nat /\ InHand \in {0, 1} /\ Unread \in Nat
    BY LineIs
  <2> QED BY ONLY <1>6, <1>9, <2>1, <2>2, <2>3, <2>4
<1>11. Unread' + Len(fifo') <= Unread + Len(fifo)
       /\ InHand' + Unread' + Len(fifo') = InHand + Unread + Len(fifo)
  <2>1. InHand \in {0, 1}
    BY LineIs
  <2> QED BY ONLY <1>3, <1>9, <1>10, <2>1
<1> QED BY <1>1, <1>2, <1>6, <1>8, <1>11, SameSender

LEMMA PollKeepsLine ==
  ASSUME TextInv, LineInv, Poll
  PROVE  LineInv'
<1>1. RingInv /\ UNCHANGED <<sendervars, storing, textvars>> /\ sent' = sent /\ ~storing
      /\ (Look \/ Fetch \/ Advance)
  BY DEF Poll, LineInv, sendervars
<1>2. RingInv'
  BY <1>1, LookKeeps, AdvanceKeeps
<1>3. UNCHANGED <<accepted, fifo, taken>>
  BY <1>1 DEF Look, Fetch, Advance, uartvars
<1>4. sent' = accepted' \o fifo'
  BY <1>1, <1>3 DEF LineInv, Arrived
<1>5. InHand' \in Nat /\ InHand' >= InHand /\ InHand \in Nat
  BY <1>1 DEF Look, Fetch, Advance, InHand
<1>6. InHand' + Unread' = InHand + Unread /\ Unread' \in Nat /\ Unread \in Nat /\ Len(fifo) \in Nat
  <2>1. Len(accepted') = Len(taken') + InHand' + Unread'
    BY <1>2 DEF RingInv, Lengths
  <2>2. Unread' \in Nat
    BY <1>2, UnreadFitsNext DEF RingInv
  <2>3. Len(accepted) = Len(taken) + InHand + Unread /\ Len(taken) \in Nat /\ Unread \in Nat /\ Len(fifo) \in Nat
    BY LineIs
  <2> DEFINE u == Unread
             v == Unread'
             h == InHand
             i == InHand'
             m == Len(accepted)
             n == Len(taken)
  <2>4. m = n + i + v /\ m = n + h + u /\ u \in Nat /\ v \in Nat /\ h \in Nat /\ i \in Nat /\ n \in Nat
    BY <1>3, <1>5, <2>1, <2>2, <2>3
  <2> HIDE DEF u, v, h, i, m, n
  <2>5. i + v = h + u
    BY ONLY <2>4
  <2> QED BY <2>2, <2>3, <2>5 DEF u, v, h, i
<1>7. Unread' + Len(fifo') <= Unread + Len(fifo)
      /\ InHand' + Unread' + Len(fifo') = InHand + Unread + Len(fifo)
  <2>1. fifo' = fifo
    BY <1>3
  <2> DEFINE u == Unread
             v == Unread'
             h == InHand
             i == InHand'
             m == Len(fifo)
  <2>2. i + v = h + u /\ i >= h /\ u \in Nat /\ v \in Nat /\ h \in Nat /\ i \in Nat /\ m \in Nat
    BY <1>5, <1>6
  <2> HIDE DEF u, v, h, i, m
  <2>3. v + m <= u + m /\ i + v + m = h + u + m
    BY ONLY <2>2
  <2> QED BY <2>1, <2>3 DEF u, v, h, i, m
<1> QED BY <1>1, <1>2, <1>3, <1>4, <1>7, SameSender

LEMMA SignalAdded ==
  ASSUME NEW S, NEW q \in Seq(S), NEW first, NEW last, InTurn(q, first, last),
         NEW x \in S, x # last, q = <<>> => x = first
  PROVE  Append(q, x) \in Seq(S) /\ Len(Append(q, x)) = Len(q) + 1 /\ InTurn(Append(q, x), first, x)
<1> DEFINE r == Append(q, x)
           n == Len(q)
<1>1. r \in Seq(S) /\ Len(r) = n + 1 /\ r[n + 1] = x /\ n \in Nat /\ \A i \in 1 .. n : r[i] = q[i]
  OBVIOUS
<1>2. n = 0 => q = <<>>
  OBVIOUS
<1>3. q # <<>> => q[1] = first /\ q[n] = last
  BY DEF InTurn
<1>4. \A i \in 1 .. n - 1 : q[i] # q[i + 1]
  BY DEF InTurn
<1> HIDE DEF r, n
<1>5. r[1] = first
  <2>1. CASE n = 0
    BY <1>1, <1>2, <2>1
  <2>2. CASE n > 0
    <3>1. 1 \in 1 .. n /\ q # <<>>
      BY <1>1, <2>2 DEF n
    <3> QED BY <1>1, <1>3, <3>1
  <2> QED BY <1>1, <2>1, <2>2
<1>6. ASSUME NEW i \in 1 .. n PROVE r[i] # r[i + 1]
  <2>1. CASE i = n
    <3>1. q # <<>>
      BY <1>1, <2>1 DEF n
    <3> QED BY <1>1, <1>3, <2>1, <3>1
  <2>2. CASE i \in 1 .. n - 1
    <3>1. i + 1 \in 1 .. n
      BY <1>1, <2>2
    <3> QED BY <1>1, <1>4, <2>2, <3>1
  <2> QED BY <1>1, <2>1, <2>2
<1>7. InTurn(r, first, x)
  BY <1>1, <1>5, <1>6 DEF InTurn
<1> QED BY <1>1, <1>7 DEF r, n

LEMMA SignalHeard ==
  ASSUME NEW q \in Seq({"XOFF", "XON"}), q # <<>>, NEW first, NEW last, InTurn(q, first, last),
         NEW other, {first, other} = {"XOFF", "XON"}
  PROVE  /\ Head(q) = first /\ Tail(q) \in Seq({"XOFF", "XON"}) /\ Len(Tail(q)) = Len(q) - 1
         /\ InTurn(Tail(q), other, last)
<1> DEFINE r == Tail(q)
           n == Len(q)
<1>1. r \in Seq({"XOFF", "XON"}) /\ Len(r) = n - 1 /\ n \in Nat \ {0} /\ Head(q) = q[1]
      /\ \A i \in 1 .. n - 1 : r[i] = q[i + 1]
  OBVIOUS
<1>2. q[1] = first /\ q[n] = last /\ \A i \in 1 .. n - 1 : q[i] # q[i + 1]
  BY DEF InTurn
<1>3. \A i \in 1 .. n : q[i] \in {"XOFF", "XON"}
  OBVIOUS
<1>4. r # <<>> => n > 1
  BY <1>1
<1> HIDE DEF r, n
<1>5. ASSUME n > 1 PROVE r[1] = other /\ r[n - 1] = last
  <2>1. 1 \in 1 .. n - 1 /\ n - 1 \in 1 .. n - 1 /\ (n - 1) + 1 = n /\ 2 \in 1 .. n /\ 1 + 1 = 2
    BY <1>1, <1>5
  <2>2. r[1] = q[2] /\ q[2] # first /\ q[2] \in {"XOFF", "XON"}
    BY <1>1, <1>2, <1>3, <2>1
  <2>3. r[n - 1] = last
    BY <1>1, <1>2, <2>1
  <2> QED BY <2>2, <2>3
<1>6. ASSUME NEW i \in 1 .. Len(r) - 1 PROVE r[i] # r[i + 1]
  <2>1. i \in 1 .. n - 1 /\ i + 1 \in 1 .. n - 1
    BY <1>1
  <2> QED BY <1>1, <1>2, <2>1
<1>7. InTurn(r, other, last)
  BY <1>1, <1>4, <1>5, <1>6 DEF InTurn
<1> QED BY <1>1, <1>2, <1>7 DEF r, n

LEMMA Allowance ==
  ASSUME NEW k \in Nat
  PROVE  /\ k * Lag \in Nat /\ (k + 1) * Lag = k * Lag + Lag /\ 0 * Lag = 0
         /\ k >= 1 => k * Lag >= Lag /\ k - 1 \in Nat /\ (k - 1) * Lag = k * Lag - Lag
<1>1. Lag \in Nat
  BY SenderAssumption
<1>2. ASSUME NEW j \in Nat PROVE j * Lag \in Nat /\ (j + 1) * Lag = j * Lag + Lag
  BY <1>1
<1>3. ASSUME k >= 1 PROVE k * Lag >= Lag /\ k - 1 \in Nat /\ (k - 1) * Lag = k * Lag - Lag
  <2>1. k - 1 \in Nat /\ (k - 1) + 1 = k
    BY <1>3
  <2>2. (k - 1) * Lag \in Nat /\ k * Lag = (k - 1) * Lag + Lag
    BY <1>2, <2>1
  <2> QED BY <1>1, <2>1, <2>2
<1> QED BY <1>1, <1>2, <1>3

LEMMA RingStays ==
  ASSUME UNCHANGED ringvars
  PROVE  /\ RingInv => RingInv'
         /\ UNCHANGED <<Unread, InHand, fifo, reader, accepted, taken>>
BY DEF ringvars, uartvars, readervars, RingInv, RingTypeOK, ReaderAt, Lengths, Returned, Waiting,
       InHand, Unread

LEMMA SendKeepsLine ==
  ASSUME TextInv, LineInv, NEW c \in Typed \union {EndKey}, Send(c)
  PROVE  LineInv'
<1>1. /\ AtTheLine /\ ~stopped /\ KeepsUp /\ Arrive(c) /\ (Unheard => late < Lag)
      /\ sent' = Append(sent, c) /\ late' = (IF Unheard THEN late + 1 ELSE 0)
      /\ UNCHANGED <<stopped, signals, storing, autostore, text, ln, stage>>
  BY DEF Send, AtTheLine, textvars
<1>2. c \in Keys /\ RingInv /\ SenderTypeOK /\ Arrived /\ Typing /\ Alternating
  BY <1>1, KeysAre DEF LineInv
<1>3. RingInv'
  BY <1>1, <1>2, ArriveKeeps
<1>4. UNCHANGED <<Unread, InHand, reader, accepted, taken>>
  BY <1>1 DEF Arrive, readervars, Unread, InHand
<1>5. PICK k \in Nat : Bounded(k)
  BY <1>1 DEF LineInv
<1> DEFINE u == Unread
           f == Len(fifo)
           x == k * Lag
<1>6. /\ u \in Nat /\ f \in Nat /\ x \in Nat /\ (k >= 1 => x >= Lag) /\ (k = 0 => x = 0)
      /\ late \in Nat /\ late <= Lag /\ Lag \in Nat /\ RX_BUFFER_SIZE \in Nat /\ FIFO_SIZE \in Nat \ {0}
      /\ FIFO_SIZE < RX_BUFFER_SIZE
  BY LineIs, Allowance
<1>7. (Unheard <=> k >= 1) /\ (Asked => k >= 1)
  <2>1. Unheard <=> k >= 1
    BY <1>1, <1>5, NotHeard
  <2>2. Len(signals) + One(Asked) = 2 * k /\ Len(signals) \in Nat
    BY <1>1, <1>5, LineIs DEF Bounded, One
  <2>3. Asked => One(Asked) = 1
    BY DEF One
  <2>4. Asked => k >= 1
    <3> SUFFICES ASSUME Asked PROVE k >= 1
      OBVIOUS
    <3>1. Len(signals) + 1 = 2 * k /\ Len(signals) \in Nat
      BY <2>2, <2>3
    <3> QED BY ONLY <3>1, k \in Nat
  <2> QED BY <2>1, <2>4
<1>8. ~storing => fifo = <<>> /\ f = 0 /\ u < RX_BUFFER_SIZE - 1
  BY <1>1 DEF KeepsUp
<1>9. ToCome(k) = u + f + x - late
  BY DEF ToCome
<1>10. /\ Asked => ln - LINEBUFTHRESHOLD + InHand + ToCome(k) <= RX_BUFFER_SIZE - 1 + Lag
       /\ ~Asked => ToCome(k) <= RX_BUFFER_SIZE - 1
       /\ storing => Asked /\ ToCome(k) <= FIFO_SIZE
       /\ Unheard => late < Lag
  BY <1>1, <1>5 DEF Bounded
<1> HIDE DEF u, f, x
<1>11. f < FIFO_SIZE /\ u + f + 1 <= RX_BUFFER_SIZE - 1
  <2>1. CASE storing
    <3>1. u + f + x - late <= FIFO_SIZE /\ x >= Lag /\ late < Lag
      BY <1>6, <1>7, <1>9, <1>10, <2>1
    <3> QED BY ONLY <1>6, <3>1
  <2>2. CASE ~storing
    BY <1>6, <1>8, <2>2
  <2> QED BY <2>1, <2>2
<1>12. fifo' = Append(fifo, c) /\ Len(fifo') = f + 1
  BY <1>1, <1>2, <1>11, LineIs DEF Arrive, f
<1>13. Arrived'
  <2>1. sent' = accepted' \o fifo'
    <3>1. sent = accepted \o fifo /\ accepted \in Seq(Keys) /\ fifo \in Seq(Keys)
      BY <1>2, LineIs DEF Arrived
    <3>2. sent' = Append(accepted \o fifo, c) /\ accepted' = accepted
      BY <1>1, <1>4, <3>1
    <3>3. Append(accepted \o fifo, c) = accepted \o Append(fifo, c)
      BY ONLY <1>2, <3>1
    <3> QED BY <1>12, <3>2, <3>3
  <2>2. Unread' + Len(fifo') <= RX_BUFFER_SIZE - 1
    <3>1. Unread' = u /\ Len(fifo') = f + 1
      BY <1>4, <1>12 DEF u
    <3> QED BY <1>6, <1>11, <3>1
  <2> QED BY <2>1, <2>2 DEF Arrived
<1>14. late' \in 0 .. Lag /\ (Unheard => ToCome(k)' = ToCome(k)) /\ (~Unheard => ToCome(k)' <= RX_BUFFER_SIZE - 1)
  <2>1. ToCome(k)' = u + (f + 1) + x - late'
    BY <1>4, <1>12 DEF ToCome, u, x
  <2>2. CASE Unheard
    <3>1. late' = late + 1 /\ late < Lag
      BY <1>1, <2>2
    <3> QED BY <1>6, <1>9, <2>1, <2>2, <3>1
  <2>3. CASE ~Unheard
    <3>1. late' = 0 /\ x = 0 /\ ~Asked /\ k = 0
      BY <1>1, <1>6, <1>7, <2>3
    <3>2. ~storing
      BY <1>10, <3>1
    <3>3. ToCome(k)' = u + (f + 1) /\ f = 0 /\ u < RX_BUFFER_SIZE - 1
      BY <1>6, <1>8, <2>1, <3>1, <3>2
    <3> QED BY <1>6, <2>3, <3>1, <3>3
  <2> QED BY <2>2, <2>3
<1>15. Bounded(k)'
  <2>1. Len(signals)' + One(Asked)' = 2 * k + One(stopped)'
    BY <1>1, <1>5 DEF Bounded, One, Asked
  <2>2. Asked' => ln' - LINEBUFTHRESHOLD + InHand' + ToCome(k)' <= RX_BUFFER_SIZE - 1 + Lag
    BY <1>1, <1>4, <1>7, <1>10, <1>14 DEF Asked
  <2>3. ~Asked' => ToCome(k)' <= RX_BUFFER_SIZE - 1
    BY <1>1, <1>10, <1>14 DEF Asked
  <2>4. storing' => Asked' /\ reader' = "idle" /\ ToCome(k)' <= FIFO_SIZE
    BY <1>1, <1>4, <1>5, <1>7, <1>10, <1>14 DEF Asked, Bounded
  <2> QED BY <2>1, <2>2, <2>3, <2>4 DEF Bounded
<1>16. SenderTypeOK' /\ Typing' /\ Alternating' /\ AtTheLine'
  BY <1>1, <1>2, <1>4, <1>14 DEF SenderTypeOK, Typing, Alternating, InTurn, Asked, AtTheLine
<1> QED BY <1>3, <1>13, <1>15, <1>16 DEF LineInv

LEMMA HearKeepsLine ==
  ASSUME TextInv, LineInv, Hear
  PROVE  LineInv'
<1>1. /\ signals # <<>> /\ stopped' = (Head(signals) = "XOFF") /\ signals' = Tail(signals) /\ late' = 0
      /\ UNCHANGED <<sent, storing, autostore, text, ln, stage>> /\ UNCHANGED ringvars
  BY DEF Hear, textvars
<1>2. RingInv /\ SenderTypeOK /\ Arrived /\ Typing
  BY DEF LineInv
<1>3. RingInv' /\ UNCHANGED <<Unread, InHand, fifo, reader, accepted, taken>>
  BY <1>1, <1>2, RingStays
<1>4. SenderTypeOK'
  <2>1. Tail(signals) \in Seq({"XOFF", "XON"})
    BY <1>1, <1>2 DEF SenderTypeOK
  <2> QED BY <1>1, <1>2, <2>1, LineIs DEF SenderTypeOK
<1>5. Arrived' /\ Typing' /\ (storing => AtTheLine)'
  BY <1>1, <1>2, <1>3 DEF Arrived, Typing, AtTheLine, LineInv
<1>6. ASSUME AtTheLine, NEW k \in Nat, Bounded(k) PROVE Alternating' /\ \E j \in Nat : Bounded(j)'
  <2>1. /\ signals \in Seq({"XOFF", "XON"}) /\ stopped \in BOOLEAN /\ late \in Nat /\ late <= Lag
        /\ Lag \in Nat /\ RX_BUFFER_SIZE \in Nat /\ ln \in Nat /\ LINEBUFTHRESHOLD \in Nat /\ FIFO_SIZE \in Nat
    BY LineIs
  <2>2. InTurn(signals, IF stopped THEN "XON" ELSE "XOFF", IF Asked THEN "XOFF" ELSE "XON")
    BY <1>6 DEF LineInv, Alternating
  <2>3. /\ Head(signals) = (IF stopped THEN "XON" ELSE "XOFF") /\ Len(Tail(signals)) = Len(signals) - 1
        /\ InTurn(Tail(signals), IF stopped THEN "XOFF" ELSE "XON", IF Asked THEN "XOFF" ELSE "XON")
    <3> DEFINE first == IF stopped THEN "XON" ELSE "XOFF"
               other == IF stopped THEN "XOFF" ELSE "XON"
               last == IF Asked THEN "XOFF" ELSE "XON"
    <3>1. {first, other} = {"XOFF", "XON"}
      OBVIOUS
    <3>2. InTurn(signals, first, last)
      BY <2>2
    <3> HIDE DEF first, other, last
    <3>3. Head(signals) = first /\ Len(Tail(signals)) = Len(signals) - 1 /\ InTurn(Tail(signals), other, last)
      BY ONLY <1>1, <2>1, <3>1, <3>2, SignalHeard
    <3> QED BY <3>3 DEF first, other, last
  <2>4. stopped' = ~stopped /\ Asked' = Asked
    BY <1>1, <2>1, <2>3 DEF Asked
  <2>5. Alternating'
    BY <1>1, <2>3, <2>4 DEF Alternating
  <2> DEFINE u == Unread
             f == Len(fifo)
             x == k * Lag
             n == Len(signals)
             a == One(Asked)
  <2>6. /\ u \in Nat /\ f \in Nat /\ x \in Nat /\ n \in Nat \ {0} /\ a \in {0, 1}
        /\ k >= 1 => x >= Lag /\ k - 1 \in Nat /\ (k - 1) * Lag = x - Lag
    <3>1. n \in Nat \ {0}
      BY <1>1, <2>1
    <3>2. a \in {0, 1}
      BY DEF One
    <3> QED BY <3>1, <3>2, LineIs, Allowance
  <2>7. /\ n + a = 2 * k + One(stopped)
        /\ Asked => ln - LINEBUFTHRESHOLD + InHand + ToCome(k) <= RX_BUFFER_SIZE - 1 + Lag
        /\ ~Asked => ToCome(k) <= RX_BUFFER_SIZE - 1
        /\ storing => Asked /\ reader = "idle" /\ ToCome(k) <= FIFO_SIZE
    BY <1>6 DEF Bounded
  <2>8. Len(signals') = n - 1 /\ One(Asked') = a
    BY <1>1, <2>3, <2>4
  <2>9. ToCome(k) = u + f + x - late
    BY DEF ToCome
  <2> HIDE DEF u, f, x, n, a
  <2>10. PICK j \in Nat : n - 1 + a = 2 * j + One(stopped') /\ ToCome(j)' <= ToCome(k) /\ ToCome(j)' \in Int
    <3>1. CASE stopped
      <4>1. late = 0 /\ One(stopped) = 1 /\ One(stopped') = 0
        BY <1>2, <2>4, <3>1 DEF SenderTypeOK, One
      <4>2. ToCome(k)' = u + f + x - 0
        BY <1>1, <1>3 DEF ToCome, u, f, x
      <4>3. n - 1 + a = 2 * k
        BY ONLY <2>6, <2>7, <4>1, k \in Nat
      <4>4. ToCome(k)' <= ToCome(k) /\ ToCome(k)' \in Int
        BY ONLY <2>6, <2>9, <4>1, <4>2
      <4> QED BY <4>1, <4>3, <4>4
    <3>2. CASE ~stopped
      <4>1. One(stopped) = 0 /\ One(stopped') = 1
        BY <2>4, <3>2 DEF One
      <4>2. k >= 1 /\ n - 1 + a = 2 * (k - 1) + 1
        BY ONLY <2>6, <2>7, <4>1, k \in Nat
      <4>3. ToCome(k - 1)' = u + f + (k - 1) * Lag - 0
        BY <1>1, <1>3 DEF ToCome, u, f
      <4>4. ToCome(k - 1)' = u + f + (x - Lag) - 0 /\ k - 1 \in Nat
        BY <2>6, <4>2, <4>3
      <4>5. ToCome(k - 1)' <= ToCome(k) /\ ToCome(k - 1)' \in Int
        BY ONLY <2>1, <2>6, <2>9, <4>4
      <4> QED BY <4>1, <4>2, <4>4, <4>5
    <3> QED BY <2>1, <3>1, <3>2
  <2>11. Bounded(j)'
    <3>1. ToCome(k) \in Int /\ InHand \in Nat
      BY <2>1, <2>6, <2>9 DEF InHand
    <3> DEFINE h == InHand
    <3>2. h \in Nat /\ (Asked => ln - LINEBUFTHRESHOLD + h + ToCome(k) <= RX_BUFFER_SIZE - 1 + Lag)
      BY <2>7, <3>1
    <3> HIDE DEF h
    <3>3. /\ Asked => ln - LINEBUFTHRESHOLD + h + ToCome(j)' <= RX_BUFFER_SIZE - 1 + Lag
          /\ ~Asked => ToCome(j)' <= RX_BUFFER_SIZE - 1
          /\ storing => ToCome(j)' <= FIFO_SIZE
      BY ONLY <2>1, <2>7, <2>10, <3>1, <3>2
    <3>4. h = InHand' /\ ln' = ln /\ storing' = storing /\ reader' = reader
      BY <1>1, <1>3 DEF h
    <3> QED BY <2>4, <2>7, <2>8, <2>10, <3>3, <3>4 DEF Bounded
  <2> QED BY <2>5, <2>11
<1>7. (AtTheLine => Alternating /\ \E k \in Nat : Bounded(k))'
  <2>1. AtTheLine' => AtTheLine
    BY <1>1 DEF AtTheLine
  <2> QED BY <1>6, <2>1 DEF LineInv
<1> QED BY <1>3, <1>4, <1>5, <1>7 DEF LineInv

LEMMA KeyInputKeepsLine ==
  ASSUME TextInv, LineInv, NEW c \in Typed \union {EndKey}, KeyInput(c)
  PROVE  LineInv'
<1>1. /\ fifo = <<>> /\ Return(c) /\ (IF c = EndKey THEN InputEnds ELSE Input(c))
      /\ signals' = signals \o AskToStop /\ UNCHANGED <<sent, stopped, late, storing>>
  BY DEF KeyInput, Served
<1>2. RingInv /\ SenderTypeOK /\ Arrived /\ Typing /\ c \in Keys /\ (c # EndKey => c \in Char)
  BY KeysAre DEF LineInv
<1>3. RingInv'
  BY <1>1, <1>2, ReturnKeeps
<1>4. /\ UNCHANGED <<fifo, accepted>> /\ taken' = Append(taken, c) /\ reader' = "idle" /\ InHand' = 0
      /\ reader # "idle"
  BY <1>1 DEF Return, InHand
<1>5. stage = "loop" /\ ~NearlyFull /\ autostore' = autostore /\ TurnStarts
      /\ (c = EndKey => Store(Zero) /\ text' = text /\ stage' = "ended")
      /\ (c # EndKey => Store(c) /\ text' = Append(text, c) /\ stage' = "loop")
  BY <1>1 DEF InputEnds, Input
<1> DEFINE u == Unread
           v == Unread'
           f == Len(fifo)
           h == InHand
<1>6. u \in Nat /\ v \in Nat /\ f \in Nat /\ h \in {0, 1} /\ v + 1 = u + h /\ u + f <= RX_BUFFER_SIZE - 1
      /\ RX_BUFFER_SIZE \in Nat
  <2> DEFINE m == Len(taken)
             n == Len(accepted)
  <2>1. n = m + h + u /\ m \in Nat /\ n \in Nat /\ u \in Nat /\ f \in Nat /\ h \in {0, 1}
        /\ u + f <= RX_BUFFER_SIZE - 1 /\ RX_BUFFER_SIZE \in Nat
    BY LineIs
  <2>2. v \in Nat
    BY <1>3, UnreadFitsNext DEF RingInv
  <2>3. n = (m + 1) + 0 + v
    <3>1. Len(accepted') = Len(taken') + InHand' + Unread'
      BY <1>3 DEF RingInv, Lengths
    <3>2. Len(taken') = m + 1
      BY <1>4, LineIs
    <3> QED BY <1>4, <3>1, <3>2
  <2> HIDE DEF u, v, f, h, m, n
  <2>4. v + 1 = u + h
    BY ONLY <2>1, <2>2, <2>3
  <2> QED BY <2>1, <2>2, <2>4
<1> HIDE DEF u, v, f, h
<1>7. Arrived'
  <2>1. sent' = accepted' \o fifo'
    BY <1>1, <1>2, <1>4 DEF Arrived
  <2>2. v + f <= RX_BUFFER_SIZE - 1
    BY ONLY <1>6
  <2>3. Unread' = v /\ Len(fifo') = f
    BY <1>4 DEF v, f
  <2> QED BY <2>1, <2>2, <2>3 DEF Arrived
<1>8. Typing'
  BY <1>1, <1>2, <1>4, <1>5 DEF Typing
<1>9. ~storing
  BY <1>4 DEF LineInv, Bounded
<1>10. SenderTypeOK' /\ (AtTheLine => Alternating /\ \E k \in Nat : Bounded(k))'
  <2>1. CASE c = EndKey
    <3>1. AskToStop = <<>> /\ signals' = signals
      BY <1>1, <1>2, <1>5, <2>1 DEF AskToStop, SenderTypeOK
    <3> QED BY <1>1, <1>2, <1>5, <2>1, <3>1 DEF SenderTypeOK, AtTheLine
  <2>2. CASE autostore
    <3>1. AskToStop \in Seq({"XOFF", "XON"})
      BY DEF AskToStop
    <3>2. signals' \in Seq({"XOFF", "XON"})
      BY <1>1, <1>2, <3>1 DEF SenderTypeOK
    <3> QED BY <1>1, <1>2, <1>5, <2>2, <3>2 DEF SenderTypeOK, AtTheLine
  <2>3. CASE c # EndKey /\ ~autostore
    <3>1. AtTheLine /\ Shape /\ Room /\ EndOf(text, buf, ln) /\ Reached(text, ln, tk, out)
      BY <1>5, <2>3 DEF TextInv, Fed, AtTheLine
    <3>2. ln' = ln + 1
      <4>1. c \in Char \union {Zero} /\ Store(c)
        BY <1>2, <1>5, <2>3
      <4> QED BY <1>5, <2>3, <3>1, <4>1, StoreKeeps
    <3>3. PICK k \in Nat : Bounded(k)
      BY <3>1 DEF LineInv
    <3>4. /\ signals \in Seq({"XOFF", "XON"}) /\ late \in Nat /\ late <= Lag /\ Lag \in Nat
          /\ ln \in Nat /\ LINEBUFTHRESHOLD \in Nat /\ FIFO_SIZE \in Nat
      BY LineIs
    <3> DEFINE x == k * Lag
               n == Len(signals)
               s == One(stopped)
    <3>5. /\ n \in Nat /\ s \in {0, 1} /\ x \in Nat /\ (k + 1) * Lag = x + Lag /\ (k = 0 => x = 0)
          /\ n + One(Asked) = 2 * k + s
      BY <3>3, <3>4, Allowance DEF One, Bounded
    <3>6. /\ Asked => ln - LINEBUFTHRESHOLD + h + ToCome(k) <= RX_BUFFER_SIZE - 1 + Lag
          /\ ~Asked => ToCome(k) <= RX_BUFFER_SIZE - 1
      BY <3>3 DEF Bounded, h
    <3>7. ToCome(k) = u + f + x - late
      BY DEF ToCome, u, f
    <3>8. ToCome(k)' = v + f + x - late
      BY <1>1, <1>4 DEF ToCome, v, f
    <3>9. ToCome(k + 1)' = v + f + (x + Lag) - late
      <4>1. ToCome(k + 1)' = v + f + (k + 1) * Lag - late
        BY <1>1, <1>4 DEF ToCome, v, f
      <4> QED BY <3>5, <4>1
    <3>10. AskToStop = IF ln + 1 = LINEBUFTHRESHOLD THEN <<"XOFF">> ELSE <<>>
      BY <1>5, <2>3, <3>2 DEF AskToStop
    <3>11. (Asked <=> ln >= LINEBUFTHRESHOLD) /\ (Asked' <=> ln + 1 >= LINEBUFTHRESHOLD)
      BY <3>2 DEF Asked
    <3> HIDE DEF x, n, s
    <3>12. CASE Asked
      <4>1. Asked' /\ signals' = signals
        BY <1>1, <3>4, <3>10, <3>11, <3>12
      <4>2. ln' - LINEBUFTHRESHOLD + InHand' + ToCome(k)' <= RX_BUFFER_SIZE - 1 + Lag
        <5>1. ln - LINEBUFTHRESHOLD + h + (u + f + x - late) <= RX_BUFFER_SIZE - 1 + Lag
          BY <3>6, <3>7, <3>12
        <5> DEFINE l == ln'
                   i == InHand'
        <5>2. l = ln + 1 /\ i = 0
          BY <1>4, <3>2
        <5> HIDE DEF l, i
        <5>3. l - LINEBUFTHRESHOLD + i + ToCome(k)' <= RX_BUFFER_SIZE - 1 + Lag
          BY ONLY <5>2, <1>6, <3>4, <3>5, <3>8, <5>1
        <5> QED BY <5>3 DEF l, i
      <4>3. Bounded(k)'
        <5>1. Len(signals') + One(Asked') = 2 * k + One(stopped')
          BY <1>1, <3>3, <3>12, <4>1 DEF Bounded, One
        <5>2. ln' - LINEBUFTHRESHOLD + InHand' + ToCome(k)' <= RX_BUFFER_SIZE - 1 + Lag
          BY <4>2
        <5>3. ~storing'
          BY <1>1, <1>9
        <5> QED BY ONLY <4>1, <5>1, <5>2, <5>3 DEF Bounded
      <4>4. Alternating'
        BY <1>1, <3>1, <3>12, <4>1 DEF LineInv, Alternating, InTurn
      <4> QED BY <1>1, <1>2, <4>1, <4>3, <4>4 DEF SenderTypeOK
    <3>13. CASE ~Asked /\ ln + 1 # LINEBUFTHRESHOLD
      <4>1. ~Asked' /\ signals' = signals
        BY <1>1, <3>4, <3>10, <3>11, <3>13
      <4>2. ToCome(k)' <= RX_BUFFER_SIZE - 1
        <5>1. u + f + x - late <= RX_BUFFER_SIZE - 1
          BY <3>6, <3>7, <3>13
        <5> QED BY ONLY <1>6, <3>4, <3>5, <3>8, <5>1
      <4>3. Bounded(k)'
        BY <1>1, <1>4, <1>9, <3>2, <3>3, <3>13, <4>1, <4>2 DEF Bounded, One
      <4>4. Alternating'
        BY <1>1, <3>1, <3>13, <4>1 DEF LineInv, Alternating, InTurn
      <4> QED BY <1>1, <1>2, <4>1, <4>3, <4>4 DEF SenderTypeOK
    <3>14. CASE ~Asked /\ ln + 1 = LINEBUFTHRESHOLD
      <4> DEFINE first == IF stopped THEN "XON" ELSE "XOFF"
      <4>1. Asked' /\ signals' = Append(signals, "XOFF")
        BY <1>1, <3>4, <3>10, <3>11, <3>14
      <4>2. One(Asked) = 0 /\ One(Asked') = 1 /\ s = One(stopped)
        BY <3>14, <4>1 DEF One, s
      <4>3. signals = <<>> => first = "XOFF"
        <5> SUFFICES ASSUME signals = <<>> PROVE ~stopped
          OBVIOUS
        <5>1. n = 0
          BY DEF n
        <5>2. s = 0
          BY ONLY <3>5, <4>2, <5>1, k \in Nat
        <5> QED BY <4>2, <5>2 DEF One
      <4>4. InTurn(signals, first, "XON")
        BY <3>1, <3>14 DEF LineInv, Alternating
      <4> HIDE DEF first
      <4>5. signals' \in Seq({"XOFF", "XON"}) /\ Len(signals') = n + 1 /\ InTurn(signals', first, "XOFF")
        BY <3>4, <4>1, <4>3, <4>4, SignalAdded DEF n
      <4>6. Alternating'
        BY <1>1, <4>1, <4>5 DEF Alternating, first
      <4>7. k + 1 \in Nat /\ (n + 1) + 1 = 2 * (k + 1) + s
        BY ONLY <3>5, <4>2, k \in Nat
      <4>8. ln' - LINEBUFTHRESHOLD + InHand' + ToCome(k + 1)' <= RX_BUFFER_SIZE - 1 + Lag
        <5>1. u + f + x - late <= RX_BUFFER_SIZE - 1
          BY <3>6, <3>7, <3>14
        <5>2. ln + 1 = LINEBUFTHRESHOLD
          BY <3>14
        <5> DEFINE l == ln'
                   i == InHand'
        <5>3. l = ln + 1 /\ i = 0
          BY <1>4, <3>2
        <5> HIDE DEF l, i
        <5>4. l - LINEBUFTHRESHOLD + i + ToCome(k + 1)' <= RX_BUFFER_SIZE - 1 + Lag
          BY ONLY <5>3, <1>6, <3>4, <3>5, <3>9, <5>1, <5>2
        <5> QED BY <5>4 DEF l, i
      <4>9. Bounded(k + 1)'
        <5>1. Len(signals') + One(Asked') = 2 * (k + 1) + One(stopped')
          BY <1>1, <4>2, <4>5, <4>7
        <5>2. ln' - LINEBUFTHRESHOLD + InHand' + ToCome(k + 1)' <= RX_BUFFER_SIZE - 1 + Lag
          BY <4>8
        <5>3. ~storing'
          BY <1>1, <1>9
        <5> QED BY ONLY <4>1, <5>1, <5>2, <5>3 DEF Bounded
      <4> QED BY <1>1, <1>2, <4>5, <4>6, <4>7, <4>9 DEF SenderTypeOK
    <3> QED BY <3>12, <3>13, <3>14
  <2> QED BY <2>1, <2>2, <2>3
<1> QED BY <1>1, <1>3, <1>7, <1>8, <1>9, <1>10 DEF LineInv

LEMMA StartStoreKeepsLine ==
  ASSUME TextInv, LineInv, StartStore
  PROVE  LineInv'
<1>1. /\ AtTheLine /\ fifo = <<>> /\ reader = "idle" /\ (xoff \/ ln = LINEBUFTHRESHOLD)
      /\ NearlyFull \/ Settled
      /\ storing' /\ UNCHANGED <<sent, stopped, signals, late, autostore, text, ln, stage>>
      /\ UNCHANGED ringvars
  BY DEF StartStore, AtTheLine, Served, sendervars, textvars
<1>2. RingInv /\ SenderTypeOK /\ Arrived /\ Typing /\ Alternating
  BY <1>1 DEF LineInv
<1>3. RingInv' /\ UNCHANGED <<Unread, InHand, fifo, reader, accepted, taken>>
  BY <1>1, <1>2, RingStays
<1>4. PICK k \in Nat : Bounded(k)
  BY <1>1 DEF LineInv
<1>5. /\ late \in Nat /\ Lag \in Nat /\ ln \in Nat /\ LINEBUFTHRESHOLD \in Nat /\ LINEBUFLEN \in Nat
      /\ RX_BUFFER_SIZE \in Nat /\ FIFO_SIZE \in Nat \ {0}
      /\ Lag + RX_BUFFER_SIZE - 1 <= LINEBUFLEN - 2 - LINEBUFTHRESHOLD + FIFO_SIZE
  BY LineIs
<1>6. Asked
  <2>1. xoff => ln > LINEBUFTHRESHOLD
    BY <1>1 DEF TextInv, Room, AtTheLine
  <2> QED BY <1>1, <1>5, <2>1 DEF Asked
<1> DEFINE u == Unread
           x == k * Lag
<1>7. /\ Len(fifo) = 0 /\ InHand = 0 /\ u \in Nat /\ x \in Nat /\ (k = 0 => x = 0)
  BY <1>1, LineIs, Allowance DEF InHand
<1>8. ToCome(k) = u + 0 + x - late
  BY <1>7 DEF ToCome
<1>9. ToCome(k) <= FIFO_SIZE
  <2>1. CASE NearlyFull
    <3>1. ln - LINEBUFTHRESHOLD + InHand + ToCome(k) <= RX_BUFFER_SIZE - 1 + Lag
      BY <1>4, <1>6 DEF Bounded
    <3>2. ln - LINEBUFTHRESHOLD + 0 + (u + 0 + x - late) <= RX_BUFFER_SIZE - 1 + Lag
      BY <1>7, <1>8, <3>1
    <3>3. ln >= LINEBUFLEN - 2
      BY <2>1 DEF NearlyFull
    <3> HIDE DEF u, x
    <3> QED BY ONLY <1>5, <1>7, <1>8, <3>2, <3>3
  <2>2. CASE Settled
    <3>1. Len(signals) = 0 /\ u = 0
      <4>1. insert_idx = extract_idx /\ insert_idx \in Nat
        BY <1>2, <2>2, RingAssumption DEF Settled, RingInv, RingTypeOK, Slots
      <4> QED BY <2>2, <4>1 DEF Settled, Unread
    <3>2. 1 = 2 * k + One(stopped) /\ One(stopped) \in {0, 1}
      BY <1>4, <1>6, <3>1 DEF Bounded, One
    <3>3. k = 0 /\ One(stopped) = 1
      BY ONLY <3>2, k \in Nat
    <3>4. late = 0
      BY <1>2, <3>3 DEF One, SenderTypeOK
    <3> HIDE DEF u, x
    <3> QED BY <1>5, <1>7, <1>8, <3>1, <3>3, <3>4
  <2> QED BY <1>1, <2>1, <2>2
<1>10. Asked' = Asked /\ ToCome(k)' = ToCome(k)
  BY <1>1, <1>3 DEF Asked, ToCome
<1>11. Bounded(k)'
  <2>1. /\ Len(signals) + One(Asked) = 2 * k + One(stopped)
        /\ Asked => ln - LINEBUFTHRESHOLD + InHand + ToCome(k) <= RX_BUFFER_SIZE - 1 + Lag
    BY <1>4 DEF Bounded
  <2>2. Len(signals') + One(Asked') = 2 * k + One(stopped')
    BY <1>1, <1>10, <2>1
  <2>3. Asked' => ln' - LINEBUFTHRESHOLD + InHand' + ToCome(k)' <= RX_BUFFER_SIZE - 1 + Lag
    BY <1>1, <1>3, <1>10, <2>1
  <2>4. reader' = "idle" /\ ToCome(k)' <= FIFO_SIZE /\ Asked'
    BY <1>1, <1>3, <1>6, <1>9, <1>10
  <2> QED BY <2>2, <2>3, <2>4 DEF Bounded
<1>12. SenderTypeOK' /\ Arrived' /\ Typing' /\ AtTheLine' /\ Alternating'
  BY <1>1, <1>2, <1>3, <1>10 DEF SenderTypeOK, Arrived, Typing, AtTheLine, Alternating, InTurn
<1> QED BY <1>3, <1>11, <1>12 DEF LineInv

LEMMA EndStoreKeepsLine ==
  ASSUME TextInv, LineInv, EndStore
  PROVE  LineInv'
<1>1. /\ storing /\ Pause /\ ~storing' /\ storing' \in BOOLEAN
      /\ signals' = signals \o <<"XON">> \o AskToStop
      /\ UNCHANGED <<sent, stopped, late>> /\ UNCHANGED ringvars
  BY DEF EndStore
<1>2. RingInv /\ SenderTypeOK /\ Arrived /\ Typing /\ AtTheLine /\ Alternating
  BY <1>1 DEF LineInv
<1>3. RingInv' /\ UNCHANGED <<Unread, InHand, fifo, reader, accepted, taken>>
  BY <1>1, <1>2, RingStays
<1>4. PICK k \in Nat : Bounded(k)
  BY <1>2 DEF LineInv
<1>5. UNCHANGED <<autostore, text, stage>> /\ xoff' = FALSE /\ AtTheLine'
  BY <1>1, <1>2 DEF Pause, AtTheLine
<1>6. /\ late \in Nat /\ Lag \in Nat /\ LINEBUFTHRESHOLD \in Nat /\ RX_BUFFER_SIZE \in Nat
      /\ FIFO_SIZE \in Nat \ {0} /\ FIFO_SIZE < RX_BUFFER_SIZE /\ signals \in Seq({"XOFF", "XON"})
  BY LineIs
<1>7. ln' \in Int /\ ln' <= LINEBUFTHRESHOLD
  <2>1. TextInv'
    BY <1>1, PauseKeepsText
  <2>2. ln' \in 0 .. LINEBUFLEN - 1 /\ (~autostore' /\ stage' = "loop" => (xoff' <=> ln' > LINEBUFTHRESHOLD))
    BY <2>1 DEF TextInv, Shape, Room
  <2>3. ln' \in Int /\ ~(ln' > LINEBUFTHRESHOLD)
    BY <1>5, <2>2, Sizes DEF AtTheLine
  <2> DEFINE l == ln'
  <2>4. l \in Int /\ ~(l > LINEBUFTHRESHOLD)
    BY <2>3
  <2> HIDE DEF l
  <2>5. l <= LINEBUFTHRESHOLD
    BY ONLY <1>6, <2>4
  <2> QED BY <2>3, <2>5 DEF l
<1>8. Asked' <=> ln' = LINEBUFTHRESHOLD
  <2> DEFINE l == ln'
  <2>1. l \in Int /\ l <= LINEBUFTHRESHOLD /\ (Asked' <=> l >= LINEBUFTHRESHOLD)
    BY <1>7 DEF Asked
  <2> HIDE DEF l
  <2>2. l >= LINEBUFTHRESHOLD <=> l = LINEBUFTHRESHOLD
    BY ONLY <1>6, <2>1
  <2> QED BY <2>1, <2>2 DEF l
<1> DEFINE first == IF stopped THEN "XON" ELSE "XOFF"
           q == Append(signals, "XON")
           n == Len(signals)
           s == One(stopped)
           x == k * Lag
           w == Unread + Len(fifo)
<1>9. Asked /\ reader = "idle" /\ InHand = 0 /\ ToCome(k) <= FIFO_SIZE /\ n + 1 = 2 * k + s
  BY <1>1, <1>4 DEF Bounded, InHand, One
<1>10. /\ n \in Nat /\ s \in {0, 1} /\ x \in Nat /\ (k + 1) * Lag = x + Lag /\ w \in Nat
       /\ ToCome(k) = w + x - late
  BY <1>6, LineIs, Allowance, SMTT(30) DEF One, ToCome
<1>11. q \in Seq({"XOFF", "XON"}) /\ Len(q) = n + 1 /\ InTurn(q, first, "XON")
  <2>1. InTurn(signals, first, "XOFF")
    BY <1>2, <1>9 DEF Alternating
  <2>2. signals = <<>> => first = "XON"
    <3> SUFFICES ASSUME signals = <<>> PROVE stopped
      OBVIOUS
    <3>1. n = 0
      OBVIOUS
    <3> HIDE DEF n, s
    <3>2. s = 1
      BY ONLY <1>9, <1>10, <3>1, k \in Nat
    <3> QED BY <3>2 DEF s, One
  <2> HIDE DEF first
  <2> QED BY <1>6, <2>1, <2>2, SignalAdded
<1> HIDE DEF first, q, n, s, x, w
<1>12. signals' = q \o AskToStop
  BY <1>1, <1>6 DEF q
<1>13. ToCome(k)' = w + x - late /\ ToCome(k + 1)' = w + (x + Lag) - late
  <2>1. ToCome(k)' = w + x - late /\ ToCome(k + 1)' = w + (k + 1) * Lag - late
    BY <1>1, <1>3 DEF ToCome, w, x
  <2> QED BY <1>10, <2>1
<1>14. SenderTypeOK' /\ Alternating' /\ \E j \in Nat : Bounded(j)'
  <2>1. CASE ~Asked'
    <3>1. signals' = q
      <4>1. AskToStop = <<>>
        BY <1>8, <2>1 DEF AskToStop
      <4> QED BY <1>11, <1>12, <4>1
    <3>2. ToCome(k)' <= RX_BUFFER_SIZE - 1
      BY ONLY <1>6, <1>9, <1>10, <1>13
    <3>3. Len(signals') + One(Asked') = 2 * k + One(stopped')
      <4>1. One(Asked') = 0 /\ One(stopped') = s
        BY <1>1, <2>1 DEF One, s
      <4> QED BY <1>9, <1>10, <1>11, <3>1, <4>1
    <3>4. Bounded(k)'
      BY <1>1, <2>1, <3>2, <3>3 DEF Bounded
    <3>5. Alternating'
      BY <1>1, <1>11, <2>1, <3>1 DEF Alternating, first
    <3> QED BY <1>1, <1>2, <1>11, <3>1, <3>4, <3>5 DEF SenderTypeOK
  <2>2. CASE Asked'
    <3>1. signals' = Append(q, "XOFF")
      <4>1. AskToStop = <<"XOFF">>
        BY <1>5, <1>8, <2>2 DEF AskToStop, AtTheLine
      <4> QED BY <1>11, <1>12, <4>1
    <3>2. signals' \in Seq({"XOFF", "XON"}) /\ Len(signals') = n + 2 /\ InTurn(signals', first, "XOFF")
      <4>1. q # <<>>
        BY <1>10, <1>11
      <4>2. Len(signals') = (n + 1) + 1
        BY <1>11, <3>1, <4>1, SignalAdded
      <4>3. signals' \in Seq({"XOFF", "XON"}) /\ InTurn(signals', first, "XOFF")
        BY <1>11, <3>1, <4>1, SignalAdded
      <4> QED BY <1>10, <4>2, <4>3
    <3>3. ln' - LINEBUFTHRESHOLD + InHand' + ToCome(k + 1)' <= RX_BUFFER_SIZE - 1 + Lag
      <4> DEFINE l == ln'
                 i == InHand'
      <4>1. l = LINEBUFTHRESHOLD /\ i = 0
        BY <1>3, <1>8, <1>9, <2>2
      <4> HIDE DEF l, i
      <4>2. l - LINEBUFTHRESHOLD + i + ToCome(k + 1)' <= RX_BUFFER_SIZE - 1 + Lag
        BY ONLY <1>6, <1>9, <1>10, <1>13, <4>1
      <4> QED BY <4>2 DEF l, i
    <3>4. Len(signals') + One(Asked') = 2 * (k + 1) + One(stopped') /\ k + 1 \in Nat
      <4>1. One(Asked') = 1 /\ One(stopped') = s
        BY <1>1, <2>2 DEF One, s
      <4>2. (n + 2) + 1 = 2 * (k + 1) + s
        BY ONLY <1>9, <1>10, k \in Nat
      <4> QED BY <3>2, <4>1, <4>2
    <3>5. Bounded(k + 1)'
      BY <1>1, <2>2, <3>3, <3>4 DEF Bounded
    <3>6. Alternating'
      BY <1>1, <2>2, <3>2 DEF Alternating, first
    <3> QED BY <1>1, <1>2, <3>2, <3>4, <3>5, <3>6 DEF SenderTypeOK
  <2> QED BY <2>1, <2>2
<1>15. Arrived' /\ Typing'
  BY <1>1, <1>2, <1>3, <1>5 DEF Arrived, Typing
<1> QED BY <1>1, <1>3, <1>14, <1>15 DEF LineInv

LEMMA TextChangesKeepLine ==
  ASSUME LineInv, ~storing, ~AtTheLine', UNCHANGED <<sendervars, storing, ringvars>>,
         autostore \/ (stage # "loop" /\ stage' # "loop" /\ text' = text), autostore' = autostore
  PROVE  LineInv'
<1>1. RingInv /\ SenderTypeOK /\ Arrived /\ Typing
  BY DEF LineInv
<1>2. RingInv' /\ UNCHANGED <<Unread, InHand, fifo, reader, accepted, taken>>
  BY <1>1, RingStays
<1>3. UNCHANGED <<sent, stopped, signals, late, storing>>
  BY DEF sendervars
<1>4. SenderTypeOK' /\ Arrived' /\ Typing'
  BY <1>1, <1>2, <1>3 DEF SenderTypeOK, Arrived, Typing
<1> QED BY <1>2, <1>3, <1>4 DEF LineInv

LEMMA LineStarts == ProgramInit => LineInv
<1> SUFFICES ASSUME ProgramInit PROVE LineInv
  OBVIOUS
<1>1. /\ RingInit /\ text = <<>> /\ ln = 0 /\ stage = "loop" /\ sent = <<>> /\ signals = <<>>
      /\ ~stopped /\ stopped \in BOOLEAN /\ late = 0 /\ ~storing /\ storing \in BOOLEAN
  BY DEF ProgramInit, Init
<1>2. RingInv /\ fifo = <<>> /\ accepted = <<>> /\ taken = <<>> /\ Unread = 0
  BY <1>1, RingAssumption
  DEF RingInit, RingInv, RingTypeOK, ReaderAt, Lengths, Returned, Waiting, InHand, Unread, Slots
<1>3. Lag \in Nat /\ LINEBUFTHRESHOLD \in Nat \ {0} /\ RX_BUFFER_SIZE \in Nat /\ RX_BUFFER_SIZE >= 2
  BY SenderAssumption, BufferAssumption, RingAssumption
<1>4. SenderTypeOK
  <2>1. <<>> \in Seq({"XOFF", "XON"}) /\ 0 \in 0 .. Lag
    BY <1>3
  <2> QED BY <1>1, <2>1 DEF SenderTypeOK
<1>5. Arrived /\ Typing
  BY <1>1, <1>2, <1>3 DEF Arrived, Typing
<1>6. ~Asked
  BY <1>1, <1>3 DEF Asked
<1>7. Alternating
  BY <1>1 DEF Alternating, InTurn
<1>8. Bounded(0)
  <2>1. ToCome(0) = 0
    BY <1>1, <1>2, <1>3 DEF ToCome
  <2> QED BY <1>1, <1>3, <1>6, <2>1 DEF Bounded, One
<1> QED BY <1>1, <1>2, <1>4, <1>5, <1>7, <1>8 DEF LineInv

LEMMA LineStep == TextInv /\ LineInv /\ [ProgramNext]_allvars => LineInv'
<1> SUFFICES ASSUME TextInv, LineInv, [ProgramNext]_allvars PROVE LineInv'
  OBVIOUS
<1>1. CASE UNCHANGED allvars
  <2>1. RingInv' /\ UNCHANGED <<Unread, InHand, fifo, reader, accepted, taken>>
    BY <1>1, RingStays DEF allvars, LineInv
  <2>2. UNCHANGED <<sent, stopped, signals, late, storing, autostore, text, ln, stage>>
    BY <1>1 DEF allvars, textvars, sendervars
  <2>3. SenderTypeOK' /\ Arrived' /\ Typing' /\ (storing => AtTheLine)'
    BY <2>1, <2>2 DEF LineInv, SenderTypeOK, Arrived, Typing, AtTheLine
  <2>4. (AtTheLine => Alternating)'
    BY <2>2 DEF LineInv, Alternating, InTurn, AtTheLine, Asked
  <2>5. \A k \in Nat : Bounded(k) => Bounded(k)'
    BY <2>1, <2>2 DEF Bounded, ToCome, Asked, One
  <2>6. AtTheLine' => \E k \in Nat : Bounded(k)'
    BY <2>2, <2>5 DEF LineInv, AtTheLine
  <2> QED BY <2>1, <2>3, <2>4, <2>6 DEF LineInv
<1>2. CASE EndTyped
  <2>1. /\ stage = "ended" /\ stage' = "done" /\ text' = text /\ autostore' = autostore
        /\ UNCHANGED <<sendervars, storing, ringvars>>
    BY <1>2 DEF EndTyped, Finish
  <2>2. ~storing /\ ~AtTheLine'
    BY <2>1 DEF LineInv, AtTheLine
  <2> QED BY <2>1, <2>2, TextChangesKeepLine
<1>3. CASE Upload
  <2>1. autostore /\ autostore' = autostore /\ UNCHANGED <<sendervars, storing, ringvars>>
    BY <1>3 DEF Upload, Input, InputEnds, Finish
  <2>2. ~storing /\ ~AtTheLine'
    BY <2>1 DEF LineInv, AtTheLine
  <2> QED BY <2>1, <2>2, TextChangesKeepLine
<1> QED
  BY <1>1, <1>2, <1>3, SendKeepsLine, HearKeepsLine, HandlerKeepsLine, PollKeepsLine, KeyInputKeepsLine,
     StartStoreKeepsLine, EndStoreKeepsLine DEF ProgramNext

LEMMA LineHolds == ProgramSpec => []LineInv
<1>1. ProgramSpec => []TextInv
  BY ProgramIsRetoken, TextHolds
<1> QED BY <1>1, LineStarts, LineStep, PTL DEF ProgramSpec

(* Under doprogram the handler and getkey_serial0 do what they do under    *)
(* any caller: what was shown of the ring holds while a program is typed.  *)
THEOREM ProgramIsRing == ProgramSpec => RingSpec
<1>1. ProgramInit => RingInit
  BY DEF ProgramInit
<1>2. ASSUME [ProgramNext]_allvars PROVE [RingNext]_ringvars
  <2>1. CASE UNCHANGED allvars
    BY <2>1 DEF allvars
  <2>2. ASSUME NEW c \in Typed \union {EndKey}, Send(c) \/ KeyInput(c) PROVE RingNext
    <3>1. c \in Keys
      BY KeysAre
    <3> QED BY <2>2, <3>1 DEF Send, KeyInput, RingNext
  <2>3. CASE Handler \/ Poll
    BY <2>3 DEF Handler, Poll, RingNext
  <2>4. CASE Hear \/ StartStore \/ EndStore \/ EndTyped \/ Upload
    BY <2>4 DEF Hear, StartStore, EndStore, EndTyped, Upload
  <2> QED BY <1>2, <2>1, <2>2, <2>3, <2>4 DEF ProgramNext
<1> QED BY <1>1, <1>2, PTL DEF ProgramSpec, RingSpec

(* Whatever is typed, and whenever the sender hears that it should stop,   *)
(* what doprogram has read is what was sent; and a listing of the program  *)
(* in flash is its text, wherever it came from.                            *)
THEOREM NothingLostOnTheLine == ProgramSpec => []ListsAsSent
<1>1. LineInv => (~autostore /\ AllRead => sent = IF stage = "loop" THEN text ELSE Append(text, EndKey))
  <2> SUFFICES ASSUME LineInv, ~autostore, AllRead
               PROVE  sent = IF stage = "loop" THEN text ELSE Append(text, EndKey)
    OBVIOUS
  <2>1. taken = accepted
    BY QueueFollows DEF LineInv, AllRead, Queue
  <2>2. sent = accepted \o <<>> /\ accepted \in Seq(Keys)
    BY DEF LineInv, Arrived, AllRead, RingInv, RingTypeOK
  <2>3. sent = taken
    BY <2>1, <2>2
  <2> QED BY <2>3 DEF LineInv, Typing
<1>2. TextInv => (stage = "done" => Listed(out) = Append(text, Zero))
  <2> SUFFICES ASSUME TextInv, stage = "done" PROVE Listed(out) = Append(text, Zero)
    OBVIOUS
  <2> DEFINE F == Append(text, Zero)
  <2>1. out = Whole.out /\ text \in Seq(Char)
    BY DEF TextInv, Shape
  <2>2. /\ F \in Seq(Char \union {Zero}) /\ F # <<>> /\ F[Len(F)] = Zero
        /\ Whole = tokenizeline(Array(F), 0, Len(F), FreshState, <<>>)
    BY <2>1, WholeIs
  <2> HIDE DEF F
  <2>3. Listed(Whole.out) = F
    BY <2>2, ListedBack
  <2> QED BY <2>1, <2>3 DEF F
<1>3. ProgramSpec => []TextInv
  BY ProgramIsRetoken, TextHolds
<1>4. TextInv /\ LineInv => ListsAsSent
  BY <1>1, <1>2 DEF ListsAsSent
<1> QED BY <1>3, <1>4, LineHolds, PTL

(* The same of a program whose sender is at the line: the properties of    *)
(* Retoken that the run of SerialProgram checks.                           *)
THEOREM TypedAsAny == ProgramSpec => [](CutsDoNotShow /\ NeverStuck)
BY ProgramIsRetoken, OnePiece, Unwedged, PTL
=============================================================================
