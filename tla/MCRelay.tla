------------------------------- MODULE MCRelay -------------------------------
(* Relay on servers in a row, a - b - c, with one client each; c is started *)
(* later.  And on two servers, a - b.                                       *)
EXTENDS Relay

CONSTANTS a, b, c, amy, bob, cat

Row == [x \in {a, b, c} |-> [z \in {a, b, c} |-> IF x = z \/ x = b THEN z
                           ELSE b]]
OneEach == [u \in {amy, bob, cat} |-> IF u = amy THEN a ELSE IF u = bob THEN b ELSE c]

Pair == [x \in {a, b} |-> [z \in {a, b} |-> z]]
AmyAndBob == [u \in {amy, bob} |-> IF u = amy THEN a ELSE b]
=============================================================================
