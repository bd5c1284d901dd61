------------------------------ MODULE UipEvents ------------------------------
(***************************************************************************)
(* What an application may rely on when uIP calls it, over the life of one *)
(* connection: which events come in which phase, what an acknowledgement   *)
(* acknowledges, and which bytes it hears.  SocketApp, TelnetSession and   *)
(* WebRelay are written against these promises; UipTcp implements them.    *)
(*                                                                         *)
(* The bytes of the peer are numbered 1, 2, ..., so hearing them in order, *)
(* each once, is that heard always is 1 .. n.                              *)
(***************************************************************************)
EXTENDS Naturals, Sequences

VARIABLES
  phase,     \* "closed", "opening", "open", "closing" (we closed), "left" (the peer did)
  stopped,   \* between uip_stop and uip_restart
  flight,    \* bytes the application has handed over and not seen acknowledged
  acked,     \* bytes it has seen acknowledged
  heard      \* bytes of the peer it has been given

vars == <<phase, stopped, flight, acked, heard>>

Init == phase = "closed" /\ ~stopped /\ flight = 0 /\ acked = 0 /\ heard = <<>>

-------------------------------------------------------------------------------
(* Parts of a call.                                                        *)

Hears == /\ ~stopped
         /\ Len(heard') >= Len(heard)
         /\ heard' = [i \in 1 .. Len(heard') |-> i]

(* An acknowledgement is of all that was handed over, never of a part.     *)
Acknowledges == flight > 0 /\ acked' = acked + flight

(* More is taken only when nothing is under way.                           *)
Sends == flight' \in Nat /\ acked' + flight' >= acked + flight

-------------------------------------------------------------------------------
(* A SYN is answered, or uip_connect takes the connection.                 *)
Opening ==
  /\ phase = "closed" /\ phase' = "opening"
  /\ UNCHANGED <<stopped, flight, acked, heard>>

(* The first call of the connection.  The application may answer every     *)
(* call with a close ("closing") or an abort ("closed").                   *)
Connected ==
  /\ phase = "opening" /\ phase' \in {"open", "closing", "closed"}
  /\ Hears
  /\ UNCHANGED acked /\ Sends
  /\ stopped' \in BOOLEAN

Called ==
  /\ phase = "open" /\ phase' \in {"open", "closing", "closed"}
  /\ Hears \/ UNCHANGED heard
  /\ \/ Acknowledges /\ Sends
     \/ UNCHANGED acked /\ (flight = 0 => Sends) /\ (flight > 0 => UNCHANGED flight)
  /\ stopped' \in BOOLEAN

(* The peer's FIN is passed on when it has acknowledged everything, and    *)
(* not to an application that stopped it.                                  *)
PeerCloses ==
  /\ phase = "open" /\ phase' = "left"
  /\ Hears
  /\ Acknowledges \/ (flight = 0 /\ UNCHANGED acked)
  /\ flight' = 0 /\ stopped' = FALSE

(* A reset, too many retransmissions, the last acknowledgement, the end of *)
(* a wait: nothing is heard or acknowledged any more.                      *)
Ends ==
  /\ phase # "closed" /\ phase' = "closed"
  /\ UNCHANGED <<flight, acked, heard>>
  /\ stopped' \in BOOLEAN

Next == Opening \/ Connected \/ Called \/ PeerCloses \/ Ends

Spec == Init /\ [][Next]_vars
=============================================================================
