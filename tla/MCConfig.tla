------------------------------ MODULE MCConfig ------------------------------
(***************************************************************************)
(* Files with at most one line for each timeout, in the order of           *)
(* irisha.conf, after a line of another setting such as the welcome        *)
(* message, the value of which is free text.                               *)
(***************************************************************************)
EXTENDS Config

CONSTANT NaN

Numbers == {0, 1, 20, 120, 10000, 10001, NaN}

TimeoutLine(s, n) == [name |-> s, says |-> {}, number |-> n]
FreeText == [name : {Other}, says : {{}} \cup {{s} : s \in Settings}, number : {NaN}]

\* The lines of one setting: none, or one.
Lines(s) == {<<>>} \cup {<<TimeoutLine(s, n)>> : n \in Numbers}

BoundaryFiles ==
    {<<text>> \o p \o r \o c :
        text \in FreeText, p \in Lines("ping-timeout"),
        r \in Lines("register-timeout"), c \in Lines("connection-timeout")}

TwoPings ==
    {<<TimeoutLine("ping-timeout", m), TimeoutLine("register-timeout", 20),
       TimeoutLine("connection-timeout", 120), TimeoutLine("ping-timeout", n)>> :
        m, n \in Numbers}

MCFiles == BoundaryFiles \cup TwoPings

Uninitialised == {-1, 7}
=============================================================================
