------------------------------- MODULE Retoken -------------------------------
(***************************************************************************)
(* How program text becomes tokens on its way to flash.  Text arrives a    *)
(* character at a time, from a web page, a file, the editor or, by P on    *)
(* the menu, from the keyboard.  retokenize (main.c) keeps it in a line    *)
(* buffer and hands the first half to tokenizeline (basic.c) once the      *)
(* buffer is so full that a keyword which begins in that half is complete. *)
(* At the keyboard nothing is handed over until the sender has been asked  *)
(* to stop (XOFF) and has paused, or the buffer is nearly full.            *)
(*                                                                         *)
(* Characters stand for their classes.  The search in the keyword table is *)
(* the set of keywords that match, which are never two here; the flash     *)
(* below addchar is FlashWriter; a character with the high bit set, which  *)
(* a listing would take for a token, is not a character here.              *)
(***************************************************************************)
EXTENDS Integers, SequencesExt

CONSTANTS
  LINEBUFLEN, LINEBUFHALFLEN, LINEBUFTHRESHOLD,
  Keywords,     \* records: name, token, and whether a whole word is asked for
  Plain,        \* characters of the text, apart from the quote and newline
  Alnum,        \* those of them for which isalnum holds
  MaxChars      \* bound: characters of a text

Quote == "quote"
Newline == "newline"
Zero == "zero"          \* the character that ends a program
Stale == "stale"        \* what malloc left in the buffer
Char == Plain \union {Quote, Newline}

(* A keyword which begins in the first half, and the character after it,   *)
(* lie below the threshold; half a buffer does not pass the threshold.     *)
ASSUME BufferAssumption ==
  /\ LINEBUFLEN \in Nat /\ LINEBUFTHRESHOLD \in Nat /\ LINEBUFHALFLEN \in Nat \ {0}
  /\ LINEBUFHALFLEN < LINEBUFTHRESHOLD
  /\ LINEBUFTHRESHOLD < LINEBUFLEN - 2
  /\ LINEBUFLEN - 2 - LINEBUFHALFLEN <= LINEBUFTHRESHOLD
  /\ \A k \in Keywords :
       /\ k.name \in Seq(Plain) /\ k.name # <<>>
       /\ Len(k.name) < LINEBUFTHRESHOLD - LINEBUFHALFLEN

(* A token is a byte with the high bit set, and of one keyword.            *)
ASSUME TokenAssumption ==
  /\ {Quote, Newline, Zero, Stale} \intersect Plain = {}
  /\ Alnum \subseteq Plain
  /\ \A k \in Keywords :
       /\ k.token \notin Char \union {Zero, Stale}
       /\ \A k2 \in Keywords : k2.token = k.token => k2 = k

VARIABLES
  autostore,  \* as given to initretoken: FALSE only for P on the menu
  text,     \* the characters passed to retokenize so far
  buf, ln,  \* the line buffer and how much of it is used
  tk,       \* the tokenizer's state between two calls
  out,      \* what addchar has received
  xoff,     \* XOFF sent, XON not yet
  stage     \* "loop", "ended" (the zero is in) or "done"

vars == <<autostore, text, buf, ln, tk, out, xoff, stage>>

-------------------------------------------------------------------------------
(* tokenizeline, one turn of its loop: what it emits, how far it moves and *)
(* the state it leaves.  s may be read beyond the part to be tokenized.    *)

CharAt(s, i) == IF i \in DOMAIN s THEN s[i] ELSE Stale

Matches(k, s, i) ==
  /\ \A j \in DOMAIN k.name : CharAt(s, i + j - 1) = k.name[j]
  /\ k.word => CharAt(s, i + Len(k.name)) \notin Alnum

QuotedTurn(s, i, t) ==
  IF CharAt(s, i) # Quote
    THEN [emit |-> <<CharAt(s, i)>>, width |-> 1,
          tk |-> [t EXCEPT !.inquote = CharAt(s, i) # Newline]]
  ELSE IF CharAt(s, i + 1) = Quote
    THEN [emit |-> <<Quote, Quote>>, width |-> 2, tk |-> t]
    ELSE [emit |-> <<Quote>>, width |-> 1, tk |-> [t EXCEPT !.inquote = FALSE]]

PlainTurn(s, i, t) ==
  LET found == IF CharAt(s, i) = Quote \/ t.notlastspace
                 THEN {} ELSE {k \in Keywords : Matches(k, s, i)}
  IN  IF found # {}
        THEN LET k == CHOOSE k \in found : TRUE
             IN  [emit |-> <<k.token>>, width |-> Len(k.name),
                  tk |-> [t EXCEPT !.notlastspace = FALSE]]
        ELSE [emit |-> <<CharAt(s, i)>>, width |-> 1,
              tk |-> [inquote |-> CharAt(s, i) = Quote,
                      notlastspace |-> CharAt(s, i) \in Alnum]]

FreshState == [inquote |-> FALSE, notlastspace |-> FALSE]

Turn(s, r) ==
  LET turn == IF r.tk.inquote THEN QuotedTurn(s, r.at, r.tk) ELSE PlainTurn(s, r.at, r.tk)
  IN  [at |-> r.at + turn.width, tk |-> turn.tk, out |-> r.out \o turn.emit]

(* The whole loop: from str to the first turn that ends at end or later.   *)
tokenizeline(s, str, end, t, emitted) ==
  LET turns[n \in 0 .. end - str] ==
        IF n = 0 THEN [at |-> str, tk |-> t, out |-> emitted]
        ELSE LET r == turns[n - 1] IN IF r.at < end THEN Turn(s, r) ELSE r
  IN  turns[end - str]

(* untokenizecode, over a whole program up to the zero.                    *)
Spell(c) == IF \E k \in Keywords : k.token = c
              THEN (CHOOSE k \in Keywords : k.token = c).name ELSE <<c>>
Listed(tokens) == FlattenSeq([n \in DOMAIN tokens |-> Spell(tokens[n])])

-------------------------------------------------------------------------------
(* retokenize.                                                             *)

(* Tokenize buf up to end, and move what is left to its beginning.         *)
Tokenize(b, length, end) ==
  LET r == tokenizeline(b, 0, end, tk, out)
  IN  /\ out' = r.out
      /\ tk' = r.tk
      /\ buf' = [i \in DOMAIN b |-> IF i + r.at < LINEBUFLEN THEN b[i + r.at] ELSE b[i]]
      /\ ln' = length - r.at

FaultyStore(c) ==
  LET stored == [buf EXCEPT ![ln] = c]
  IN  IF autostore /\ ln + 1 >= LINEBUFHALFLEN
        THEN Tokenize(stored, ln + 1, LINEBUFHALFLEN)
        ELSE buf' = stored /\ ln' = ln + 1 /\ UNCHANGED <<tk, out>>

(* retokenize(c) for a character.  A full buffer drops it.                 *)
Store(c) ==
  LET stored == [buf EXCEPT ![ln] = c]
  IN  IF ln >= LINEBUFLEN - 1
        THEN UNCHANGED <<buf, ln, tk, out>>
      ELSE IF autostore /\ ln + 1 >= LINEBUFTHRESHOLD
        THEN Tokenize(stored, ln + 1, LINEBUFHALFLEN)
        ELSE buf' = stored /\ ln' = ln + 1 /\ UNCHANGED <<tk, out>>

(* retokenize(-2).                                                         *)
StoreHalf == Tokenize(buf, ln, LINEBUFHALFLEN)

(* retokenize(-1): the rest of the buffer, and then the rest of the page.  *)
StoreRest == Tokenize(buf, ln, ln)

Init ==
  /\ autostore \in BOOLEAN
  /\ text = <<>>
  /\ buf = [i \in 0 .. LINEBUFLEN - 1 |-> Stale]
  /\ ln = 0
  /\ tk = FreshState
  /\ out = <<>>
  /\ xoff = FALSE
  /\ stage = "loop"

-------------------------------------------------------------------------------
(* The callers.  do_program_basic, loadprogram and the editor pass one     *)
(* character after another; an action of P is a turn of doprogram's loop.  *)

(* XOFF goes out when the buffer has just reached the threshold.           *)
TurnStarts == xoff' = (xoff \/ (~autostore /\ ln = LINEBUFTHRESHOLD))

NearlyFull == ~autostore /\ ln >= LINEBUFLEN - 2

(* A character comes.                                                      *)
Input(c) ==
  /\ stage = "loop"
  /\ ~NearlyFull
  /\ Len(text) < MaxChars
  /\ TurnStarts
  /\ text' = Append(text, c)
  /\ Store(c)
  /\ UNCHANGED <<autostore, stage>>

(* CTRL-D, the end of the file or of the form.                             *)
InputEnds ==
  /\ stage = "loop"
  /\ ~NearlyFull
  /\ TurnStarts
  /\ Store(Zero)
  /\ stage' = "ended"
  /\ UNCHANGED <<autostore, text>>

FaultyPause ==
  /\ stage = "loop"
  /\ ~autostore
  /\ xoff \/ ln = LINEBUFTHRESHOLD
  /\ xoff' = FALSE
  /\ UNCHANGED <<autostore, text, buf, ln, tk, out, stage>>

(* P only: no key for a while, or no room for one.  Only a sender that has *)
(* been told to stop makes the buffer be emptied, and is told to go on.    *)
Pause ==
  /\ stage = "loop"
  /\ ~autostore
  /\ xoff \/ ln = LINEBUFTHRESHOLD
  /\ xoff' = FALSE
  /\ StoreHalf
  /\ UNCHANGED <<autostore, text, stage>>

Finish ==
  /\ stage = "ended"
  /\ StoreRest
  /\ stage' = "done"
  /\ UNCHANGED <<autostore, text, xoff>>

Next ==
  \/ \E c \in Char : Input(c)
  \/ InputEnds
  \/ Pause
  \/ Finish

Spec == Init /\ [][Next]_vars

-------------------------------------------------------------------------------
(* The values the state can take; the buffer is never filled to its end,   *)
(* so that retokenize drops no character.                                  *)
TypeOK ==
  /\ autostore \in BOOLEAN
  /\ text \in Seq(Char)
  /\ buf \in [0 .. LINEBUFLEN - 1 -> Char \union {Zero, Stale}]
  /\ ln \in 0 .. LINEBUFLEN - 1
  /\ tk \in [inquote : BOOLEAN, notlastspace : BOOLEAN]
  /\ out \in Seq(Char \union {Zero} \union {k.token : k \in Keywords})
  /\ xoff \in BOOLEAN
  /\ stage \in {"loop", "ended", "done"}

WholeText == LET s == Append(text, Zero) IN [i \in 0 .. Len(text) |-> s[i + 1]]

(* The program in flash is the text tokenized in one piece: it does not    *)
(* matter where the halves of the buffer cut keywords, strings or words,   *)
(* when the sender paused, or what was in the buffer before.               *)
CutsDoNotShow ==
  stage = "done" =>
    out = tokenizeline(WholeText, 0, Len(text) + 1, FreshState, <<>>).out

(* doprogram never spins on a buffer it can neither fill nor empty: by the *)
(* time it stops reading keys the sender has been told to stop.            *)
NeverStuck == stage = "loop" /\ NearlyFull => xoff
===============================================================================
