---------------------------- MODULE MCFlashWriter ----------------------------
(* FlashWriter on a small flash with the shape of the LPC1768's: a bank    *)
(* over two sectors, a bank that fills one sector, and a configuration     *)
(* space that fills the first half of one.  Pages have two bytes.          *)
EXTENDS FlashWriter

MCSectorEnd == [i \in 0 .. 3 |-> 2 * (i + 1)]
MCAreas == {<<0, 3>>, <<4, 5>>, <<6, 6>>}
===============================================================================
