----------------------------- MODULE FlashWriter -----------------------------
(***************************************************************************)
(* How an upload reaches flash: addchar (lpc1700/iap.c) collects bytes in  *)
(* a page buffer, erases a sector when it first writes into it, writes     *)
(* page after page and stops at the last page of the area it was given.    *)
(* initretoken aims it at a bank or at the configuration space.            *)
(*                                                                         *)
(* Addresses count pages of IAPBUFLEN bytes: every address of the flash    *)
(* tables is a multiple of a page.  A byte of flash is 0 when erased, or   *)
(* names the upload and the position it came from, or Mixed when two       *)
(* different values were programmed over each other, which flash resolves  *)
(* bit by bit.  noerase is always 0 and left out.                          *)
(***************************************************************************)
EXTENDS Integers

CONSTANTS
  IAPBUFLEN,    \* bytes per page
  SectorEnd,    \* SectorEnd[i]: the first page after sector i (the table)
  Areas,        \* <<address, endaddress>> of the banks and the configuration
  MaxUploads,   \* bound: uploads in a behaviour
  MaxBytes,     \* bound: bytes in an upload
  MaxFaults     \* bound: IAP commands that fail for no reason of ours

Sectors == DOMAIN SectorEnd

ASSUME PageAssumption == IAPBUFLEN \in Nat \ {0}
ASSUME SectorAssumption ==
  /\ SectorEnd \in [Sectors -> Nat]
  /\ Sectors \subseteq Nat
ASSUME AreaAssumption ==
  /\ Areas # {}
  /\ Areas \subseteq Nat \X Nat
  /\ \A r \in Areas : r[1] <= r[2]
ASSUME BoundAssumption == MaxUploads \in Nat /\ MaxBytes \in Nat /\ MaxFaults \in Nat

VARIABLES
  target,      \* the area of the upload, as given to initiapaddbuf
  phase,       \* "idle", "adding" or "done"
  upload,      \* number of the upload
  passed,      \* bytes passed to addchar
  address,     \* adb->address
  lastsec,     \* adb->lastsec
  ct,          \* adb->ct
  pagebuf,     \* adb->buf, which keeps the bytes of the page before
  device       \* flash memory and the state of the IAP commands

flashvars == <<target, phase, upload, passed, address, lastsec, ct, pagebuf, device>>

Pages == UNION {r[1] .. r[2] : r \in Areas}
Offset == 0 .. IAPBUFLEN - 1

Erased == <<0, 0>>
Mixed == <<0, 1>>
(* <<u, i>> is byte i of upload u; <<u, 0>> is what malloc left in buf.    *)
Byte == (0 .. MaxUploads) \X (0 .. MaxBytes)

Cell == Byte \union {Erased, Mixed}
Memory == [Pages -> [Offset -> Cell]]
Device ==
  [flash : Memory, prepared : SUBSET Sectors,
   reported : BOOLEAN, faults : 0 .. MaxFaults]

start == target[1]
endaddress == target[2]

-------------------------------------------------------------------------------
(* The IAP commands.  Each returns the set of devices it may leave behind; *)
(* doiap prints an error that does not stop the upload.  Sectors are       *)
(* locked again by every erase and write.                                  *)

Within(a, i) ==
  a < SectorEnd[i] /\ \A j \in Sectors : a < SectorEnd[j] => i <= j

iapAddressToSector(a) ==
  IF \E i \in Sectors : Within(a, i) THEN CHOOSE i \in Sectors : Within(a, i)
                                     ELSE -1

(* No two areas share a sector.                                            *)
ASSUME SeparateAssumption ==
  \A q, r \in Areas : q # r =>
    \A a \in q[1] .. q[2], b \in r[1] .. r[2] :
      iapAddressToSector(a) # iapAddressToSector(b)

Fails(d) == {[d EXCEPT !.reported = TRUE]}

Faulted(d) ==
  IF d.faults < MaxFaults
    THEN {[d EXCEPT !.reported = TRUE, !.faults = @ + 1]} ELSE {}

iapPrepareSectors(d, sec) ==
  IF sec \in Sectors THEN {[d EXCEPT !.prepared = @ \union {sec}]} \union Faulted(d)
                     ELSE Fails(d)

iapEraseSectors(d, sec) ==
  UNION {
    IF sec \in e.prepared
      THEN {[e EXCEPT !.prepared = {},
                      !.flash = [p \in DOMAIN @ |->
                         IF iapAddressToSector(p) = sec
                           THEN [k \in Offset |-> Erased] ELSE @[p]]]}
           \union Faulted(e)
      ELSE Fails(e) : e \in iapPrepareSectors(d, sec)}

Programmed(old, new) ==
  CASE old = Erased -> new
    [] old = new    -> old
    [] OTHER        -> Mixed

iapWriteSectors(d, a, page) ==
  IF iapAddressToSector(a) \in d.prepared
    THEN {[d EXCEPT !.prepared = {},
                    !.flash[a] = [k \in Offset |-> Programmed(@[k], page[k])]]}
         \union Faulted(d)
    ELSE Fails(d)

-------------------------------------------------------------------------------
(* addchar.  The definitions whose names begin with Faulty are bugs for    *)
(* PROJECT.json, each beside the definition it would replace.              *)

FaultyNewSector(sec) == lastsec = -1

NewSector(sec) == sec # lastsec

FaultyNextPage(a) == a + 1

NextPage(a) == IF a + 1 > endaddress THEN endaddress ELSE a + 1

(* Write the buffer to the current page, whatever part of it is new.       *)
Flush(page) ==
  LET sec == iapAddressToSector(address)
      erased == IF NewSector(sec)
                  THEN UNION {iapEraseSectors(d, sec) : d \in iapPrepareSectors(device, sec)}
                  ELSE {device}
      ready == UNION {iapPrepareSectors(d, sec) : d \in erased}
  IN  /\ device' \in UNION {iapWriteSectors(d, address, page) : d \in ready}
      /\ lastsec' = sec
      /\ address' = NextPage(address)

FlashInit ==
  /\ target \in Areas
  /\ phase = "idle"
  /\ upload = 0
  /\ passed = 0
  /\ address = target[1]
  /\ lastsec = -1
  /\ ct = 0
  /\ pagebuf = [k \in Offset |-> <<0, 0>>]
  /\ device = [flash |-> [p \in Pages |-> [k \in Offset |-> Erased]],
               prepared |-> {}, reported |-> FALSE, faults |-> 0]

(* initiapaddbuf on a buffer that malloc has just returned.  It may follow *)
(* a finished upload or one whose connection is gone.                      *)
initiapaddbuf(r) ==
  /\ upload < MaxUploads
  /\ upload' = upload + 1
  /\ target' = r
  /\ phase' = "adding"
  /\ passed' = 0
  /\ address' = r[1]
  /\ lastsec' = -1
  /\ ct' = 0
  /\ pagebuf' = [k \in Offset |-> <<upload', 0>>]
  /\ device' = [device EXCEPT !.reported = FALSE]

(* addchar(c) for the next byte of the upload.                             *)
AddByte ==
  LET page == [pagebuf EXCEPT ![ct] = <<upload, passed + 1>>]
  IN  /\ phase = "adding"
      /\ passed < MaxBytes
      /\ passed' = passed + 1
      /\ pagebuf' = page
      /\ IF ct + 1 = IAPBUFLEN
           THEN Flush(page) /\ ct' = 0
           ELSE ct' = ct + 1 /\ UNCHANGED <<address, lastsec, device>>
      /\ UNCHANGED <<target, phase, upload>>

(* addchar(-1): what is left in the buffer is written as a whole page.     *)
AddLast ==
  /\ phase = "adding"
  /\ IF ct > 0 THEN Flush(pagebuf) /\ ct' = 0
               ELSE UNCHANGED <<address, lastsec, ct, device>>
  /\ phase' = "done"
  /\ UNCHANGED <<target, upload, passed, pagebuf>>

FlashNext ==
  \/ \E r \in Areas : initiapaddbuf(r)
  \/ AddByte
  \/ AddLast

FlashSpec == FlashInit /\ [][FlashNext]_flashvars

-------------------------------------------------------------------------------
(* The values the state can take; in particular the buffer never holds     *)
(* more than a page and the address never leaves the area of the upload.   *)
FlashTypeOK ==
  /\ target \in Areas
  /\ phase \in {"idle", "adding", "done"}
  /\ upload \in 0 .. MaxUploads
  /\ passed \in 0 .. MaxBytes
  /\ address \in start .. endaddress
  /\ lastsec \in Sectors \union {-1}
  /\ ct \in Offset
  /\ pagebuf \in [Offset -> Byte]
  /\ device \in Device

PageOf(i) == start + (i - 1) \div IAPBUFLEN

Fits == passed <= (endaddress - start + 1) * IAPBUFLEN

(* An upload that printed no error is in flash, byte for byte, whatever    *)
(* the area held before and however earlier uploads ended.  Of one that is *)
(* too long everything below the last page is.                             *)
Stored ==
  phase = "done" /\ ~device.reported =>
    \A i \in 1 .. passed :
      Fits \/ PageOf(i) < endaddress =>
        device.flash[PageOf(i)][(i - 1) % IAPBUFLEN] = <<upload, i>>

(* An upload never changes another bank or the configuration, however long *)
(* it is and whatever fails.                                               *)
OthersKept ==
  [][\A r \in Areas \ {target} : \A p \in r[1] .. r[2] :
       device'.flash[p] = device.flash[p]]_flashvars
===============================================================================
