----------------------------- MODULE Membership -----------------------------
(***************************************************************************)
(* What the channels of a server promise to an observer who sees only who  *)
(* is online, which channels are open, who is a member of each and who     *)
(* holds operator rights on it.  Keys, modes, the users' own records, the  *)
(* pointers the code keeps and the ways it can fail are hidden.            *)
(***************************************************************************)

CONSTANTS Users, Chans

VARIABLES
    online,     \* users known to the server
    open,       \* channels that exist
    member,     \* [Chans -> SUBSET Users]
    chanop      \* [Chans -> SUBSET Users], holders of operator rights

vars == <<online, open, member, chanop>>

Init ==
    /\ online = {}
    /\ open = {}
    /\ member = [c \in Chans |-> {}]
    /\ chanop = [c \in Chans |-> {}]

\* Somebody comes, on no channel and with no rights.
SignOn(u) ==
    /\ u \notin online
    /\ online' = online \cup {u}
    /\ UNCHANGED <<open, member, chanop>>

\* u goes out of the channels of S, with its rights; the ones it was the last
\* member of close, and among S a channel without members may close.
Depart(u, S) ==
    \E closed \in SUBSET S :
        /\ \A c \in closed : member[c] \subseteq {u}
        /\ \A c \in S : member[c] = {u} => c \in closed
        /\ open' = open \ closed
        /\ member' = [c \in Chans |-> IF c \in closed THEN {} ELSE IF c \in S THEN member[c] \ {u} ELSE member[c]]
        /\ chanop' = [c \in Chans |-> IF c \in closed THEN {} ELSE IF c \in S THEN chanop[c] \ {u} ELSE chanop[c]]

\* After SignOff nothing of u is left anywhere.
SignOff(u) ==
    /\ u \in online
    /\ online' = online \ {u}
    /\ Depart(u, open)

Part(u, c) ==
    /\ u \in online /\ c \in open
    /\ Depart(u, {c})
    /\ UNCHANGED online

\* A channel opens with its first members, if any, some of them operators.  One
\* that opens for nobody never has an operator.
Open(c, us, os) ==
    /\ c \notin open
    /\ us \subseteq online /\ os \subseteq us
    /\ open' = open \cup {c}
    /\ member' = [member EXCEPT ![c] = us]
    /\ chanop' = [chanop EXCEPT ![c] = os]
    /\ UNCHANGED online

\* Joining an open channel gives no rights.
Enter(u, c) ==
    /\ u \in online /\ c \in open
    /\ member' = [member EXCEPT ![c] = @ \cup {u}]
    /\ UNCHANGED <<online, open, chanop>>

\* Only an operator kicks, grants or revokes, and only a member is kicked,
\* granted or revoked.  A kicked operator keeps its rights.
KickOut(s, v, c) ==
    /\ c \in open /\ s \in chanop[c] /\ v \in member[c]
    /\ member' = [member EXCEPT ![c] = @ \ {v}]
    /\ UNCHANGED <<online, open, chanop>>

Appoint(s, v, c, on) ==
    /\ c \in open /\ s \in chanop[c] /\ v \in member[c]
    /\ chanop' = [chanop EXCEPT ![c] = IF on THEN @ \cup {v} ELSE @ \ {v}]
    /\ UNCHANGED <<online, open, member>>

Next ==
    \/ \E u \in Users : SignOn(u) \/ SignOff(u)
    \/ \E u \in Users, c \in Chans :
          \/ Part(u, c)
          \/ Enter(u, c)
          \/ \E v \in Users : KickOut(u, v, c) \/ \E on \in BOOLEAN : Appoint(u, v, c, on)
    \/ \E c \in Chans, us, os \in SUBSET Users : Open(c, us, os)

Spec == Init /\ [][Next]_vars
=============================================================================
