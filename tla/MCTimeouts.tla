----------------------------- MODULE MCTimeouts -----------------------------
(* Timeouts on two descriptors and small numbers of seconds. *)
EXTENDS Timeouts

OneSock == {4}
TwoSocks == {4, 5}
=============================================================================
