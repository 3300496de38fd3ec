----------------------------- MODULE MCFraming -----------------------------
(* Framing of a peer that sends three lines as the protocol wants them, and  *)
(* of one that ends its lines with LF.                                       *)
EXTENDS Framing

Two == {4, 5}
Texts == [s \in Two |-> IF s = 4 THEN <<TEXT, TEXT, CR, LF, TEXT, CR, LF, TEXT, TEXT, CR, LF>>
                      ELSE <<TEXT, LF, TEXT, LF>>]
=============================================================================
