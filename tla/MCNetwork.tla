------------------------------ MODULE MCNetwork ------------------------------
(* Network on two or three servers, with one client at the first.  Its real *)
(* name has two words, so that a NICK can be read at two servers in a row,  *)
(* or one.                                                                  *)
EXTENDS Network

CONSTANTS a, b, c, amy

AtA == [u \in Users |-> a]
OneWord == [u \in Users |-> 1]
TwoWords == [u \in Users |-> 2]
NoCommands == [x \in Servers |-> {}]
SomeCommands ==
    [x \in Servers |-> IF x = c THEN {"SQUIT"}
                       ELSE IF x = b THEN {"CONNECT", "SQUIT"} ELSE {"CONNECT", "NICK", "SQUIT"}]
=============================================================================
