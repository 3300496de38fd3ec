------------------------------ MODULE Registry ------------------------------
(***************************************************************************)
(* Who is connected to one server: the sockets of all_fds_, the forms of   *)
(* reg_expect, the User objects, and connections_, the map from names to   *)
(* those objects in which everybody is looked up.  A map entry is made     *)
(* under the nick a user registers with and stays there when NICK changes  *)
(* the nick of the object.                                                 *)
(*                                                                         *)
(* The server handles all commands of one received text before it looks at *)
(* another socket; a QUIT in the middle does not stop it.                  *)
(*                                                                         *)
(* Users of this server only: links and the users behind them are not      *)
(* here.  A client's prefix, when it is not refused, is its own nick.  The *)
(* seconds are those of module Timeouts: here a timeout may come whenever  *)
(* the checks run.                                                         *)
(***************************************************************************)
EXTENDS Naturals, Sequences, Functions

CONSTANTS
    Socks,      \* file descriptors a client may get
    Nicks,      \* valid nicknames
    Objs,       \* addresses of User objects (bound on those that ever leak)
    NoSock,     \* the server is in select or at its checks
    MaxForms    \* bound on the forms one socket may have

ASSUME NoSockAssumption == NoSock \notin Socks
ASSUME BoundAssumption == MaxForms \in Nat \ {0}

VARIABLES
    all_fds,        \* open sockets of clients
    reg_expect,     \* by socket: pass_received_ of each of its forms
    connections,    \* nick -> User
    users,          \* User -> its fields, of every object that is allocated
    serving,        \* the socket whose received text is being handled
    renamed,        \* has any NICK changed a nick
    status          \* "running", "terminated" (uncaught exception), "undefined"

vars == <<all_fds, reg_expect, connections, users, serving, renamed, status>>

User == [socket : Socks, nick : Nicks, named : BOOLEAN]

Init ==
    /\ all_fds = {}
    /\ reg_expect = [s \in Socks |-> <<>>]
    /\ connections = [n \in {} |-> {}]
    /\ users = [o \in {} |-> {}]
    /\ serving = NoSock
    /\ renamed = FALSE
    /\ status = "running"

-----------------------------------------------------------------------------
(* Looking up, sending, removing. *)

Entries == {connections[n] : n \in DOMAIN connections}

\* Every lookup walks over connections_ and reads the objects it points at.
Sound == Entries \subseteq DOMAIN users

\* find_user and find_connection by socket, and find_user by nick.
OnSocket(s) == {o \in Entries : users[o].socket = s}
WithNick(n) == {o \in Entries : users[o].nick = n}

Pending(s) == reg_expect[s] # <<>>

Idle == status = "running" /\ Sound /\ serving = NoSock

Handles(s) == status = "running" /\ Sound /\ serving = s

\* The next command of the text is not taken for a registration.
TakesCommand(s) == Handles(s) /\ ~Pending(s)

\* The next command of the text goes to the handler of the registration.
Takes(s) == Handles(s) /\ (Pending(s) => Head(reg_expect[s]))

\* send_msg to a descriptor that has been closed fails, and throws.
Sent(s) == status' = IF s \in all_fds THEN "running" ELSE "terminated"

\* Mutant: the object is marked as having no socket, and stays.
DeleteMarks(o) ==
    /\ users' = [users EXCEPT ![o].socket = NoSock]
    /\ UNCHANGED connections

\* remove_user: the map entry goes by the nick of the object.
Delete(o) ==
    /\ connections' = Restrict(connections, DOMAIN connections \ {users[o].nick})
    /\ users' = Restrict(users, DOMAIN users \ {o})

\* The part of close_connection after the forms.
CloseSocket(s) ==
    /\ all_fds' = all_fds \ {s}
    /\ IF OnSocket(s) = {} THEN UNCHANGED <<connections, users>>
       ELSE \E o \in OnSocket(s) : Delete(o)

FirstFormGone(s) ==
    reg_expect' = IF Pending(s) THEN [reg_expect EXCEPT ![s] = Tail(@)] ELSE reg_expect

-----------------------------------------------------------------------------
(* The loop. *)

Accept(s) ==
    /\ Idle /\ s \notin all_fds
    /\ Len(reg_expect[s]) < MaxForms
    /\ all_fds' = all_fds \cup {s}
    /\ reg_expect' = [reg_expect EXCEPT ![s] = Append(@, FALSE)]
    /\ UNCHANGED <<connections, users, serving, renamed, status>>

\* A text is received; and all of its commands have been handled.
Receive(s) ==
    /\ Idle /\ s \in all_fds
    /\ serving' = s
    /\ UNCHANGED <<all_fds, reg_expect, connections, users, renamed, status>>

EndText(s) ==
    /\ Handles(s)
    /\ serving' = NoSock
    /\ UNCHANGED <<all_fds, reg_expect, connections, users, renamed, status>>

\* recv returns 0, or the form is too old.
CloseWithForm(s) ==
    /\ Idle /\ s \in all_fds
    /\ CloseSocket(s)
    /\ FirstFormGone(s)
    /\ UNCHANGED <<serving, renamed, status>>

\* A form that an earlier owner of the descriptor left is too old: the
\* descriptor is closed once more, whoever has it now.
CloseLeftForm(s) ==
    /\ Idle /\ Pending(s) /\ s \notin all_fds
    /\ CloseSocket(s)
    /\ FirstFormGone(s)
    /\ UNCHANGED <<serving, renamed, status>>

\* ping_connections: a connection that has been silent is sent a PING or, after
\* the connection timeout, is closed.  A form of its socket is never younger than
\* its last message and is too old before that (reg_timeout_ <= conn_timeout_).
PingTimeout(s) ==
    /\ Idle /\ OnSocket(s) # {} /\ ~Pending(s)
    /\ CloseSocket(s)
    /\ UNCHANGED <<reg_expect, serving, renamed, status>>

PingClosed(s) ==
    /\ Idle /\ OnSocket(s) # {}
    /\ Sent(s)
    /\ UNCHANGED <<all_fds, reg_expect, connections, users, serving, renamed>>

-----------------------------------------------------------------------------
(* Commands. *)

PASS(s) ==
    /\ Handles(s) /\ Pending(s)
    /\ reg_expect' = [reg_expect EXCEPT ![s][1] = TRUE]
    /\ UNCHANGED <<all_fds, connections, users, serving, renamed, status>>

\* add_user: insert leaves the map alone when the name is there.
NewUser(o, s, n) ==
    /\ users' = [p \in DOMAIN users \cup {o} |->
                    IF p = o THEN [socket |-> s, nick |-> n, named |-> FALSE] ELSE users[p]]
    /\ connections' = [m \in DOMAIN connections \cup {n} |->
                          IF m \in DOMAIN connections THEN connections[m] ELSE o]

\* Mutant: the nick is not looked up.
NickUnchecked(s, n) ==
    /\ Takes(s) /\ OnSocket(s) = {} /\ s \in all_fds
    /\ \E o \in Objs \ DOMAIN users : NewUser(o, s, n)
    /\ UNCHANGED <<all_fds, reg_expect, serving, renamed, status>>

\* NICK of a socket without a connection.  One that an earlier command of the
\* text has closed has no host: User's constructor builds a string of nullptr.
NickNew(s, n) ==
    /\ Takes(s) /\ OnSocket(s) = {} /\ WithNick(n) = {}
    /\ IF s \in all_fds
       THEN (\E o \in Objs \ DOMAIN users : NewUser(o, s, n)) /\ UNCHANGED status
       ELSE status' = "terminated" /\ UNCHANGED <<connections, users>>
    /\ UNCHANGED <<all_fds, reg_expect, serving, renamed>>

\* Mutant: the new nick is not looked up for a user that has one.
NickChangeUnchecked(s, n) ==
    /\ Takes(s)
    /\ \E o \in OnSocket(s) : users[o].nick # n /\ users' = [users EXCEPT ![o].nick = n]
    /\ renamed' = TRUE
    /\ Sent(s)
    /\ UNCHANGED <<all_fds, reg_expect, connections, serving>>

\* NICK of a socket with a connection, which is told before the nick changes.
NickChange(s, n) ==
    /\ Takes(s) /\ WithNick(n) = {}
    /\ \E o \in OnSocket(s) : users' = [users EXCEPT ![o].nick = n]
    /\ renamed' = TRUE
    /\ Sent(s)
    /\ UNCHANGED <<all_fds, reg_expect, connections, serving>>

\* Mutant: the form goes although there is no user with that socket.
UserAcceptedForNobody(s) ==
    /\ Takes(s)
    /\ \A o \in OnSocket(s) : ~users[o].named
    /\ users' = [o \in DOMAIN users |->
                    IF o \in OnSocket(s) THEN [users[o] EXCEPT !.named = TRUE] ELSE users[o]]
    /\ FirstFormGone(s)
    /\ Sent(s)
    /\ UNCHANGED <<all_fds, connections, serving, renamed>>

\* USER.  The user name is set even when the real name is refused; the form,
\* if any, then stays.
UserAccepted(s) ==
    /\ Takes(s)
    /\ \E o \in OnSocket(s) : ~users[o].named /\ users' = [users EXCEPT ![o].named = TRUE]
    /\ FirstFormGone(s)
    /\ Sent(s)
    /\ UNCHANGED <<all_fds, connections, serving, renamed>>

UserWithoutRealname(s) ==
    /\ Takes(s)
    /\ \E o \in OnSocket(s) : ~users[o].named /\ users' = [users EXCEPT ![o].named = TRUE]
    /\ UNCHANGED <<all_fds, reg_expect, connections, serving, renamed, status>>

\* A refusal or a reply: NICK of a nick that is used, USER again, a command
\* from a socket that has no user any more.
Answered(s) ==
    /\ Takes(s)
    /\ Sent(s)
    /\ UNCHANGED <<all_fds, reg_expect, connections, users, serving, renamed>>

QUIT(s) ==
    /\ TakesCommand(s)
    /\ OnSocket(s) # {}
    /\ CloseSocket(s)
    /\ UNCHANGED <<reg_expect, serving, renamed, status>>

\* A prefix that is the name of another connection closes this one.
WrongPrefix(s) ==
    /\ TakesCommand(s)
    /\ \E o \in OnSocket(s) : \E n \in DOMAIN connections : n # users[o].nick
    /\ s \in all_fds
    /\ CloseSocket(s)
    /\ UNCHANGED <<reg_expect, serving, renamed, status>>

\* KILL from an operator: the victim is looked up in the map by name, told, and
\* closed without reg_expect.
KILL(s, n) ==
    /\ TakesCommand(s)
    /\ \E o \in OnSocket(s) : users[o].named
    /\ n \in DOMAIN connections
    /\ LET v == users[connections[n]].socket IN
       IF v \in all_fds
       THEN CloseSocket(v) /\ UNCHANGED status
       ELSE Sent(v) /\ UNCHANGED <<all_fds, connections, users>>
    /\ UNCHANGED <<reg_expect, serving, renamed>>

\* The first lookup after an entry has lost its object.
ReadFreed ==
    /\ status = "running" /\ ~Sound
    /\ status' = "undefined"
    /\ UNCHANGED <<all_fds, reg_expect, connections, users, serving, renamed>>

Stopped == status # "running" /\ UNCHANGED vars

-----------------------------------------------------------------------------
LoopStep(s) ==
    \/ Accept(s) \/ Receive(s) \/ EndText(s)
    \/ CloseWithForm(s) \/ CloseLeftForm(s) \/ PingTimeout(s) \/ PingClosed(s)

CommandStep(s) ==
    \/ PASS(s) \/ UserAccepted(s) \/ UserWithoutRealname(s)
    \/ Answered(s) \/ QUIT(s) \/ WrongPrefix(s)
    \/ \E n \in Nicks : NickNew(s, n) \/ NickChange(s, n) \/ KILL(s, n)

Next == (\E s \in Socks : LoopStep(s) \/ CommandStep(s)) \/ ReadFreed \/ Stopped

Spec == Init /\ [][Next]_vars

-----------------------------------------------------------------------------
(* Properties. *)

\* Every variable has the shape the code gives it.
TypeOK ==
    /\ all_fds \subseteq Socks
    /\ reg_expect \in [Socks -> Seq(BOOLEAN)]
    /\ DOMAIN connections \subseteq Nicks /\ Entries \subseteq Objs
    /\ DOMAIN users \subseteq Objs
    /\ \A o \in DOMAIN users : users[o] \in User
    /\ serving \in Socks \cup {NoSock}
    /\ renamed \in BOOLEAN
    /\ status \in {"running", "terminated", "undefined"}

\* Lookups by socket and by nick have one answer: two entries are two users, on
\* different sockets and with different nicks, although the names of the map and
\* the nicks it is searched for have come apart and descriptors are used again.
Unambiguous ==
    \A m, n \in DOMAIN connections :
        m # n /\ {connections[m], connections[n]} \subseteq DOMAIN users =>
            /\ connections[m] # connections[n]
            /\ users[connections[m]].socket # users[connections[n]].socket
            /\ users[connections[m]].nick # users[connections[n]].nick

\* Until a nick is changed for the first time, connections_ holds every User
\* that is allocated, under its nick, and nothing else: no order of
\* registrations, refusals, kills and closed sockets leaks or frees one.
Consistent ==
    ~renamed =>
        /\ Entries = DOMAIN users
        /\ \A n \in DOMAIN connections : users[connections[n]].nick = n

\* Every open socket has a form or a connection, and so a timeout that closes
\* it if it falls silent.
Watched ==
    status = "running" /\ Sound =>
        \A s \in all_fds : Pending(s) \/ OnSocket(s) # {}

\* (does not hold) remove_user removes the user from connections_, by nick: what
\* is there afterwards are users that exist.
EntriesExist == Sound
=============================================================================
