------------------------------ MODULE Timeouts ------------------------------
(***************************************************************************)
(* The select loop of one server and its three timeouts.  A socket is      *)
(* accepted with a registration form in reg_expect, becomes a connection   *)
(* in connections_ (NICK, or SERVER), loses the form when registered       *)
(* (USER, or SERVER), and is closed by its peer, by QUIT or KILL, by       *)
(* check_reg_timeouts or by ping_connections.                              *)
(*                                                                         *)
(* Time is counted in whole seconds, as time() does.  An age is capped at  *)
(* MaxAge, above every threshold it is compared with.  One iteration of    *)
(* the loop is taken to be handled within a second.                        *)
(* Bound: nothing follows a QUIT in the text it came with; module Registry *)
(* has that case.                                                          *)
(***************************************************************************)
EXTENDS Integers, Sequences

CONSTANTS
    Socks,      \* file descriptors a peer may get (bound on open connections)
    PingT,      \* ping_timeout_
    ConnT,      \* conn_timeout_
    RegT,       \* reg_timeout_
    MaxAge,     \* cap of every counter of seconds
    MaxForms,   \* bound on the forms one socket may have
    Victims     \* those whose users an IRC operator may KILL

ASSUME SocksAssumption == Socks \subseteq Nat

\* What check_timeout_values establishes.
ASSUME ConfigAssumption ==
    /\ PingT \in Nat \ {0} /\ ConnT \in Nat \ {0} /\ RegT \in Nat \ {0}
    /\ PingT <= ConnT /\ RegT <= ConnT

ASSUME BoundAssumption ==
    /\ MaxAge \in Nat /\ MaxAge > ConnT + PingT + RegT
    /\ MaxForms \in {1, 2}
    /\ Victims \subseteq Socks

VARIABLES
    stage,      \* "select", "checks", "ping", "dispatch": where the loop is
    waited,     \* seconds since the checks
    remaining,  \* the timeval given to select, which Linux counts down
    since_ping, \* now - last_ping
    knock,      \* the listener is readable
    ready,      \* the other sockets in read_fds_
    open,       \* the sockets in all_fds_
    mute,       \* open sockets whose peer has died without closing
    conn,       \* entry of connections_: "none", "half" (no USER yet), "full"
    idle,       \* now - last_msg_time_ of that entry
    asked,      \* connections sent a PING since they last sent something
    forms       \* reg_expect, by socket: now - connection_time_ of each form

loopVars == <<stage, waited, remaining, since_ping>>
vars == <<stage, waited, remaining, since_ping, knock, ready, open, mute, conn, idle, asked, forms>>

IsLowest(s, S) == s \in S /\ \A t \in S : s <= t

Init ==
    /\ stage = "select"
    /\ waited = 0
    /\ remaining = IF RegT < PingT THEN RegT ELSE PingT
    /\ since_ping = 0
    /\ knock = FALSE
    /\ ready = {} /\ open = {} /\ mute = {} /\ asked = {}
    /\ conn = [s \in Socks |-> "none"]
    /\ idle = [s \in Socks |-> 0]
    /\ forms = [s \in Socks |-> <<>>]

-----------------------------------------------------------------------------
(* Waiting in select. *)

\* With nothing left in the timeval select polls, and a second goes by over
\* many iterations: the checks are then run at least once in each.
Patience == IF remaining = 0 THEN 1 ELSE remaining

Older(n) == IF n < MaxAge THEN n + 1 ELSE n

Tick ==
    /\ stage = "select" /\ waited < Patience
    /\ waited' = waited + 1
    /\ since_ping' = Older(since_ping)
    /\ idle' = [s \in Socks |-> IF conn[s] # "none" THEN Older(idle[s]) ELSE 0]
    /\ forms' = [s \in Socks |-> [i \in DOMAIN forms[s] |-> Older(forms[s][i])]]
    /\ UNCHANGED <<stage, remaining, knock, ready, open, mute, conn, asked>>

\* A peer dies, or the way to it is lost: it is neither heard nor seen to close.
GoSilent(s) ==
    /\ stage = "select"
    /\ s \in open \ mute
    /\ mute' = mute \cup {s}
    /\ UNCHANGED <<loopVars, knock, ready, open, conn, idle, asked, forms>>

\* Mutant: select is given the whole time again in each iteration.
WakeFullTime ==
    /\ stage = "select"
    /\ ready' \in SUBSET (open \ mute)
    /\ knock' \in {FALSE, open # Socks}
    /\ ready' # {} \/ knock' \/ waited >= remaining
    /\ waited' = 0
    /\ stage' = "checks"
    /\ UNCHANGED <<remaining, since_ping, open, mute, conn, idle, asked, forms>>

\* select returns with what can be read, or because the time is over.
Wake ==
    /\ stage = "select"
    /\ ready' \in SUBSET (open \ mute)
    /\ knock' \in {FALSE, open # Socks}
    /\ ready' # {} \/ knock' \/ waited >= remaining
    /\ remaining' = IF waited >= remaining THEN 0 ELSE remaining - waited
    /\ waited' = 0
    /\ stage' = "checks"
    /\ UNCHANGED <<since_ping, open, mute, conn, idle, asked, forms>>

-----------------------------------------------------------------------------
(* The two checks. *)

\* Mutant: the descriptor is not cleared from read_fds_.
CloseReadable(S) ==
    /\ open' = open \ S
    /\ ready' = ready
    /\ mute' = mute \ S
    /\ asked' = asked \ S
    /\ conn' = [s \in Socks |-> IF s \in S THEN "none" ELSE conn[s]]
    /\ idle' = [s \in Socks |-> IF s \in S THEN 0 ELSE idle[s]]

\* The part of close_connection that concerns the socket and the connection.
Close(S) ==
    /\ open' = open \ S
    /\ ready' = ready \ S
    /\ mute' = mute \ S
    /\ asked' = asked \ S
    /\ conn' = [s \in Socks |-> IF s \in S THEN "none" ELSE conn[s]]
    /\ idle' = [s \in Socks |-> IF s \in S THEN 0 ELSE idle[s]]

\* Mutant: forms of sockets without a connection are passed over.
LateConnected(s) == {i \in DOMAIN forms[s] : conn[s] # "none" /\ forms[s][i] >= RegT}

\* Each form that is too old closes its socket and takes the first form of that
\* socket, which need not be itself, out of reg_expect (there are at most two).
Late(s) == {i \in DOMAIN forms[s] : forms[s][i] >= RegT}

\* Mutant: the form is not erased.
FirstsKept(s) == forms[s]

FirstsGone(s) ==
    LET late == Late(s) IN
    IF late = {} THEN forms[s]
    ELSE IF late = DOMAIN forms[s] THEN <<>> ELSE Tail(forms[s])

CheckRegTimeouts ==
    /\ stage = "checks"
    /\ Close({s \in Socks : Late(s) # {}})
    /\ forms' = [s \in Socks |-> FirstsGone(s)]
    /\ stage' = "ping"
    /\ UNCHANGED <<waited, remaining, since_ping, knock>>

Connected == {s \in Socks : conn[s] # "none"}
\* Mutant: nobody is sent a PING before the connection timeout.
QuietTooLate == {s \in Connected : idle[s] >= ConnT}

Quiet == {s \in Connected : idle[s] >= PingT}
\* Mutant: > in place of >=.
TimedOutStrictly == {s \in Quiet : idle[s] > ConnT}

TimedOut == {s \in Quiet : idle[s] >= ConnT}

\* The forms are not consulted.  last_ping stays as it is while connections_ is
\* empty, which it is not when it holds users left behind by a lost link.
PingConnections ==
    /\ stage = "ping"
    /\ since_ping >= PingT
    /\ open' = open \ TimedOut
    /\ ready' = ready \ TimedOut
    /\ mute' = mute \ TimedOut
    /\ asked' = (asked \cup Quiet) \ TimedOut
    /\ conn' = [s \in Socks |-> IF s \in TimedOut THEN "none" ELSE conn[s]]
    /\ idle' = [s \in Socks |-> IF s \in TimedOut THEN 0 ELSE idle[s]]
    /\ since_ping' \in IF Connected = {} THEN {0, since_ping} ELSE {0}
    /\ stage' = "dispatch"
    /\ UNCHANGED <<waited, remaining, knock, forms>>

NoPingYet ==
    /\ stage = "ping"
    /\ since_ping < PingT
    /\ stage' = "dispatch"
    /\ UNCHANGED <<waited, remaining, since_ping, knock, ready, open, mute, conn, idle, asked, forms>>

-----------------------------------------------------------------------------
(* Dispatch: the listener has the lowest descriptor, then the peers ascend. *)

\* The kernel hands out the lowest descriptor that is closed.  (Bound: nobody
\* is accepted on a descriptor that has MaxForms forms.)
Accept(s) ==
    /\ stage = "dispatch" /\ knock
    /\ IsLowest(s, Socks \ open)
    /\ knock' = FALSE
    /\ IF Len(forms[s]) < MaxForms
       THEN /\ open' = open \cup {s}
            /\ forms' = [forms EXCEPT ![s] = Append(@, 0)]
       ELSE UNCHANGED <<open, forms>>
    /\ UNCHANGED <<loopVars, ready, mute, conn, idle, asked>>

Serves(s) ==
    /\ stage = "dispatch" /\ ~knock
    /\ IsLowest(s, ready)

Pending(s) == forms[s] # <<>>

\* choose_buff notes the time in the connection if there is one, otherwise in
\* the first form of the socket.
Heard(s) ==
    IF Pending(s) /\ conn[s] = "none" THEN [forms[s] EXCEPT ![1] = 0] ELSE forms[s]

\* Data, without a change of registration: other commands, a bad password,
\* half a line.
Receive(s) ==
    /\ Serves(s)
    /\ ready' = ready \ {s}
    /\ idle' = [idle EXCEPT ![s] = 0]
    /\ asked' = asked \ {s}
    /\ forms' = [forms EXCEPT ![s] = Heard(s)]
    /\ UNCHANGED <<loopVars, knock, open, mute, conn>>

\* NICK of a form whose password was received.
ReceiveNick(s) ==
    /\ Serves(s)
    /\ Pending(s) /\ conn[s] = "none"
    /\ ready' = ready \ {s}
    /\ conn' = [conn EXCEPT ![s] = "half"]
    /\ idle' = [idle EXCEPT ![s] = 0]
    /\ forms' = [forms EXCEPT ![s] = Heard(s)]
    /\ UNCHANGED <<loopVars, knock, open, mute, asked>>

\* Mutant: the form stays in reg_expect.
RegistrationKeepsForm(s) ==
    /\ Serves(s)
    /\ Pending(s) /\ conn[s] # "full"
    /\ ready' = ready \ {s}
    /\ conn' = [conn EXCEPT ![s] = "full"]
    /\ idle' = [idle EXCEPT ![s] = 0]
    /\ asked' = asked \ {s}
    /\ UNCHANGED <<loopVars, knock, open, mute, forms>>

\* USER after NICK, or SERVER: the form that was found first is taken out.
ReceiveRegistration(s) ==
    /\ Serves(s)
    /\ Pending(s) /\ conn[s] # "full"
    /\ ready' = ready \ {s}
    /\ conn' = [conn EXCEPT ![s] = "full"]
    /\ idle' = [idle EXCEPT ![s] = 0]
    /\ asked' = asked \ {s}
    /\ forms' = [forms EXCEPT ![s] = Tail(@)]
    /\ UNCHANGED <<loopVars, knock, open, mute>>

\* QUIT.  A socket with a form is not asked what it wants: its commands are
\* taken as a registration.
ReceiveQuit(s) ==
    /\ Serves(s)
    /\ ~Pending(s) /\ conn[s] = "full"
    /\ Close({s})
    /\ UNCHANGED <<loopVars, knock, forms>>

\* KILL of a local user, registered or not; close_connection is not given
\* reg_expect and leaves the forms of the victim.
ReceiveKill(s, v) ==
    /\ v \in Victims
    /\ Serves(s)
    /\ ~Pending(s) /\ conn[s] = "full"
    /\ conn[v] # "none"
    /\ open' = open \ {v}
    /\ ready' = ready \ {s, v}
    /\ mute' = mute \ {v}
    /\ asked' = asked \ {s, v}
    /\ conn' = [conn EXCEPT ![v] = "none"]
    /\ idle' = [idle EXCEPT ![s] = 0, ![v] = 0]
    /\ UNCHANGED <<loopVars, knock, forms>>

\* recv returns 0.  What choose_buff then finds is the next form, if any.
ReceiveHangup(s) ==
    /\ Serves(s)
    /\ Close({s})
    /\ forms' = [forms EXCEPT ![s] =
                    IF Len(@) > 1 THEN [Tail(@) EXCEPT ![1] = 0] ELSE <<>>]
    /\ UNCHANGED <<loopVars, knock>>

EndDispatch ==
    /\ stage = "dispatch" /\ ~knock /\ ready = {}
    /\ stage' = "select"
    /\ UNCHANGED <<waited, remaining, since_ping, knock, ready, open, mute, conn, idle, asked, forms>>

-----------------------------------------------------------------------------
Dispatch ==
    \/ EndDispatch
    \/ \E s \in Socks :
          \/ Accept(s)
          \/ Receive(s)
          \/ ReceiveNick(s)
          \/ ReceiveRegistration(s)
          \/ ReceiveQuit(s)
          \/ ReceiveHangup(s)
          \/ \E v \in Socks : ReceiveKill(s, v)

Loop == Wake \/ CheckRegTimeouts \/ PingConnections \/ NoPingYet \/ Dispatch

Next == Tick \/ Loop \/ \E s \in Socks : GoSilent(s)

Spec == Init /\ [][Next]_vars

\* The process is scheduled and the clock advances, also while the loop polls:
\* Tick is disabled outside select, so that its fairness has to be strong.
\* Nothing is assumed of the peers.
FairSpec == Spec /\ WF_vars(Loop) /\ SF_vars(Tick)

-----------------------------------------------------------------------------
(* Properties. *)

Age == 0..MaxAge

\* Every variable has the shape the code gives it.
TypeOK ==
    /\ stage \in {"select", "checks", "ping", "dispatch"}
    /\ waited \in Age /\ remaining \in Age /\ since_ping \in Age
    /\ knock \in BOOLEAN
    /\ open \subseteq Socks
    /\ ready \subseteq open /\ mute \subseteq open /\ asked \subseteq open
    /\ conn \in [Socks -> {"none", "half", "full"}]
    /\ \A s \in Socks : conn[s] # "none" => s \in open
    /\ idle \in [Socks -> Age]
    /\ forms \in [Socks -> Seq(Age)]

\* Where there was no KILL, reg_expect holds the sockets that are open and not
\* registered, each once.  Two closers, the ping round and recv, look at a connection: the
\* ping round knows nothing of forms, and must never meet one that has both.
FormsArePending ==
    \A s \in Socks \ Victims :
        /\ Len(forms[s]) <= 1
        /\ Pending(s) <=> s \in open /\ conn[s] # "full"

\* Where there was no KILL, a form is never older than reg_timeout_.  The loop may wait longer than one
\* second only before select has used up its timeval once, and that is at most
\* reg_timeout_ from the start; later it polls, once a second at the least.
RegBound ==
    \A s \in Socks \ Victims : \A i \in DOMAIN forms[s] : forms[s][i] <= RegT

\* A connection that sends nothing is kept for less than the connection timeout
\* plus one ping period, although last_ping is not touched while there are no
\* connections and the ping round is not run at every wake.
IdleBound ==
    \A s \in Connected : idle[s] < ConnT + PingT

\* A registered connection that the checks close has been silent for the
\* connection timeout: no form shortens that, not even those that a KILL has
\* left on another socket.
TalkersStay ==
    [][\A s \in Socks \ Victims : stage \in {"checks", "ping"} /\ conn[s] = "full" /\ conn'[s] = "none"
                            => idle[s] >= ConnT]_vars

\* The ping round closes only who was sent a PING and did not answer.  It holds
\* when two ping periods fit into the connection timeout (as with the defaults,
\* 20 and 120): one round always asks before another one closes.
AskedFirst ==
    [][\A s \in Socks : stage = "ping" /\ conn[s] # "none" /\ conn'[s] = "none"
                            => s \in asked]_vars

\* The socket of a dead peer is closed in the end, registered or not, also with
\* a form on it that a KILL has left.
DeadPeersAreClosed == \A s \in Socks : s \in mute ~> s \notin mute

\* (Does not hold.)  The connection timeout is the "Time until disconnection
\* since last message", also on a socket that had another owner.
EveryTalkerStays ==
    [][\A s \in Socks : stage \in {"checks", "ping"} /\ conn[s] = "full" /\ conn'[s] = "none"
                            => idle[s] >= ConnT]_vars
=============================================================================
