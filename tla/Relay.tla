-------------------------------- MODULE Relay --------------------------------
(***************************************************************************)
(* The channels of several linked servers: the command of a client is done *)
(* by its own server and told to the others, JOIN, PART, KICK, MODE, TOPIC *)
(* and PRIVMSG by send_channel, QUIT and NICK by send_servers, and each of *)
(* them does it again by the same handler and tells the servers behind it. *)
(* Private messages, and questions to another server with their answers,   *)
(* are passed on from link to link to the one they are for.                *)
(* A server that is started later is introduced to the channels by its     *)
(* parent (send_channels, NJOIN).  Module Channels has one server with all *)
(* that can happen to a channel, module Network how the links come and go. *)
(*                                                                         *)
(* Bounds: links form a tree and last; a late server is a leaf, registers  *)
(* its clients when linked, and has the real names read to the end (see    *)
(* module Network); no nick is a domain name (both are keys of             *)
(* connections_); clients give MaxCommands commands; nobody is invited, no *)
(* channel has a key; PART of the last user works, in spite of the         *)
(* iterator, and a nick that is used again gets the address it had (see    *)
(* module Channels); all ends with the first process.                      *)
(***************************************************************************)
EXTENDS Integers, Sequences, FiniteSets, SequencesExt

CONSTANTS
    Servers,    \* domain names
    Route,      \* Route[x][z]: the server x reaches z by; x itself for x
    Late,       \* the servers that are started later
    Users,      \* nicks
    Home,       \* the server each nick is used at
    Chans,      \* channel names
    Founders,   \* the users who have joined every channel at the start
    Creator,    \* the first of them
    Modes,      \* the mode characters in use, of "i", "m", "n" and "t"
    Rights,     \* those of a member: "o", "v"
    Topics,     \* topics; None is the empty one, that clears what was there
    Asked,      \* the servers that clients ask for their VERSION
    Crossing,   \* bound, if FALSE: TOPICs cross only while no server has two links
    MaxCommands, None

\* Links are made both ways, and the next hop is the other end of one.
ASSUME RouteAssumption ==
    /\ Route \in [Servers -> [Servers -> Servers]]
    /\ \A x \in Servers, z \in Servers :
          /\ Route[x][z] = x <=> z = x
          /\ Route[x][z] = z <=> Route[z][x] = x
          /\ Route[x][Route[x][z]] = Route[x][z]

\* They form a tree: every server is at one side of a link, and both ends of a
\* link are reached the same way by the others.
ASSUME TreeAssumption ==
    \A x, y, z \in Servers :
        y # x /\ Route[x][y] = y =>
            /\ Route[x][z] = y <=> Route[y][z] # x
            /\ z \notin {x, y} => Route[z][x] = Route[z][y]

\* The servers that are there at the start are linked to each other.
ASSUME LateAssumption ==
    /\ Late \subseteq Servers /\ Asked \subseteq Servers
    /\ \A x \in Servers \ Late, z \in Servers \ Late : Route[x][z] \notin Late
ASSUME HomeAssumption == Home \in [Users -> Servers] /\ Users \cap Servers = {}
ASSUME FiniteAssumption == IsFiniteSet(Users) /\ IsFiniteSet(Chans)
ASSUME FoundersAssumption ==
    /\ Founders \subseteq {u \in Users : Home[u] \notin Late}
    /\ Creator \in Founders
ASSUME ModesAssumption == Modes \subseteq {"i", "m", "n", "t"} /\ Rights \subseteq {"o", "v"}
ASSUME NoneAssumption == None \notin Servers \cup Topics
ASSUME BoundAssumption == MaxCommands \in Nat /\ Crossing \in BOOLEAN

VARIABLES
    peers,      \* the servers at the other ends of the links
    usr,        \* User entries: the link, or the server itself
    channels,   \* channels_ of each server, name -> Channel
    chan_of,    \* User::channels_ of each entry
    queue,      \* queue[x][y]: sent by x, not yet handled by y
    status,     \* "running", "terminated" (uncaught exception), "undefined"
    given,      \* number of commands given by clients
    said,       \* history: PRIVMSGs and answers, whom they are from and to, and
                \*   those who are to be sent them and have stayed
    heard,      \* history: the numbers of what each client was sent
    apart       \* history: the <<user, channel>> pairs not told the same to all

views == <<usr, channels, chan_of>>
history == <<said, heard, apart>>
vars == <<peers, views, queue, status, given, history>>

NewChannel(us, os, vs) ==
    [users |-> us, operators |-> os, moderators |-> vs,
     modes |-> Modes \cap {"t"}, topic |-> None]

Channel ==
    [users : SUBSET Users, operators : SUBSET Users, moderators : SUBSET Users,
     modes : SUBSET Modes, topic : Topics \cup {None}]

Init ==
    /\ peers = [x \in Servers |-> {y \in Servers \ (Late \cup {x}) : x \notin Late /\ Route[x][y] = y}]
    /\ usr = [x \in Servers |-> [u \in Users |->
                 IF x \in Late \/ Home[u] \in Late THEN None ELSE Route[x][Home[u]]]]
    /\ channels = [x \in Servers |-> [c \in IF x \in Late THEN {} ELSE Chans |->
                 NewChannel(Founders, {Creator}, {})]]
    /\ chan_of = [x \in Servers |-> [u \in Users |->
                 IF u \in Founders /\ x \notin Late THEN Chans ELSE {}]]
    /\ queue = [x \in Servers |-> [y \in Servers |-> <<>>]]
    /\ status = "running"
    /\ given = 0
    /\ said = <<>>
    /\ heard = [u \in Users |-> <<>>]
    /\ apart = {}

-----------------------------------------------------------------------------
(* Messages. *)

NICKof(u) == [type |-> "NICK", who |-> u]
QUITof(u) == [type |-> "QUIT", who |-> u]
JOINof(u, c) == [type |-> "JOIN", who |-> u, chan |-> c]
PARTof(u, c) == [type |-> "PART", who |-> u, chan |-> c]
KICKof(u, v, c) == [type |-> "KICK", who |-> u, chan |-> c, whom |-> v]
FLAGof(u, c, m, on) == [type |-> "FLAG", who |-> u, chan |-> c, mode |-> m, on |-> on]
RIGHTof(u, c, r, on, v) ==
    [type |-> "RIGHT", who |-> u, chan |-> c, mode |-> r, on |-> on, whom |-> v]
QUERYof(u, c) == [type |-> "QUERY", who |-> u, chan |-> c]
TOPICof(u, c, t) == [type |-> "TOPIC", who |-> u, chan |-> c, topic |-> t]
SAYof(u, c, n) == [type |-> "SAY", who |-> u, chan |-> c, number |-> n]
TELLof(u, v, n) == [type |-> "TELL", who |-> u, whom |-> v, number |-> n]
ASKof(u, z, n) == [type |-> "ASK", who |-> u, server |-> z, number |-> n]
ANSWERof(v, n) == [type |-> "ANSWER", whom |-> v, number |-> n]

\* Mutant: the link a message came by is not left out.
OthersAndSource(x, y) == peers[x]

Others(x, y) == peers[x] \ {y}

\* q after x has sent m to every server of S.
Sent(q, x, S, m) == [q EXCEPT ![x] = [y \in Servers |-> IF y \in S THEN Append(@[y], m) ELSE @[y]]]

Taken(x, y) == [queue EXCEPT ![y][x] = Tail(@)]

\* What x sends on when it has handled m from y.
Passed(x, y, m) == Sent(Taken(x, y), x, Others(x, y), m)

\* The command of a client that its server handles.
Gives(u) ==
    /\ status = "running" /\ given < MaxCommands
    /\ usr[Home[u]][u] = Home[u]
    /\ given' = given + 1

\* Messages that need no entry of a sender.  A TOPIC may have come back to the
\* server of a user who has quit.
Unsigned == {"NICK", "TOPIC", "ANSWER", "NJOIN", "STOPIC", "SMODE"}

\* x handles a message from y.
Receives(x, y, type) ==
    /\ status = "running"
    /\ queue[y][x] # <<>> /\ Head(queue[y][x]).type = type
    /\ type \notin Unsigned => usr[x][Head(queue[y][x]).who] # None
    /\ UNCHANGED <<peers, given>>

\* A refusal is sent to user->socket(), -1 for the user of another server: the
\* send fails, send_msg throws.
Dies == status' = "terminated" /\ UNCHANGED <<views, queue, history>>

\* An iterator at the end of channels_ or a null user is used.
Undefined == status' = "undefined" /\ UNCHANGED <<views, queue, history>>

\* A refusal is sent to the link, whose server does not know such a command.
Dropped(x, y) == queue' = Taken(x, y) /\ UNCHANGED <<views, status, history>>

-----------------------------------------------------------------------------
(* What a handler does to the channels of one server. *)

Exists(x, c) == c \in DOMAIN channels[x]

Member(x, u, c) == Exists(x, c) /\ u \in channels[x][c].users
Operator(x, u, c) == Exists(x, c) /\ u \in channels[x][c].operators

Put(x, c, ch) ==
    channels' = [channels EXCEPT ![x] = [d \in DOMAIN @ \cup {c} |-> IF d = c THEN ch ELSE @[d]]]

\* The first user of a name creates the channel.
Enter(x, u, c) ==
    /\ Put(x, c, IF Exists(x, c) THEN [channels[x][c] EXCEPT !.users = @ \cup {u}]
                 ELSE NewChannel({u}, {u}, {}))
    /\ chan_of' = [chan_of EXCEPT ![x][u] = @ \cup {c}]

\* check_mode_channel.
Admits(x, c) == Exists(x, c) => "i" \notin channels[x][c].modes

WithoutUser(u, ch) == [ch EXCEPT !.users = @ \ {u}, !.operators = @ \ {u}]

\* Mutant: a channel goes with its last operator.
LeaveOpless(x, u, S) ==
    /\ channels' = [channels EXCEPT ![x] =
          [c \in DOMAIN @ \ {d \in S : @[d].operators \subseteq {u}} |->
              IF c \in S THEN WithoutUser(u, @[c]) ELSE @[c]]]
    /\ chan_of' = [chan_of EXCEPT ![x][u] = @ \ S]

\* delUser, delOperators, and the deletion of channels left without users.
Leave(x, u, S) ==
    /\ channels' = [channels EXCEPT ![x] =
          [c \in DOMAIN @ \ {d \in S : @[d].users \subseteq {u}} |->
              IF c \in S THEN WithoutUser(u, @[c]) ELSE @[c]]]
    /\ chan_of' = [chan_of EXCEPT ![x][u] = @ \ S]

\* The modes of a channel after m was switched.
Switch(S, m, on) == IF on THEN S \cup {m} ELSE S \ {m}

\* return_mode has what has changed.  Without any change it is empty, and the
\* MODE that is sent on has one argument, as a query has.
FlagSent(x, u, c, m, on) ==
    IF (m \in channels[x][c].modes) = on THEN QUERYof(u, c) ELSE FLAGof(u, c, m, on)

SetFlag(x, c, m, on) ==
    /\ Put(x, c, [channels[x][c] EXCEPT !.modes = Switch(@, m, on)])
    /\ UNCHANGED <<usr, chan_of>>

\* Mutant: no break after the right, which is taken for a flag as well.
SetRightAndFlag(x, c, r, on, v) == SetFlag(x, c, r, on)

SetRight(x, c, r, on, v) ==
    /\ Put(x, c, IF r = "o" THEN [channels[x][c] EXCEPT !.operators = Switch(@, v, on)]
                 ELSE [channels[x][c] EXCEPT !.moderators = Switch(@, v, on)])
    /\ UNCHANGED <<usr, chan_of>>

\* The checks of TOPIC, in their order the 442, 482 and 477.
TopicAllowed(x, u, c) ==
    Member(x, u, c) /\ Operator(x, u, c) /\ ("t" \in Modes => "t" \in channels[x][c].modes)

SetTopic(x, c, t) ==
    /\ Put(x, c, [channels[x][c] EXCEPT !.topic = t])
    /\ UNCHANGED <<usr, chan_of>>

\* The two reasons for a 404.
SayAllowed(x, u, c) ==
    LET ch == channels[x][c] IN
    /\ "n" \in ch.modes => u \in ch.users
    /\ "m" \in ch.modes => u \in ch.moderators \cup ch.operators

\* x sends the PRIVMSG to its own members of the channel.
Hears(x, u, c, n) ==
    heard' = [v \in Users |->
                 IF v \in channels[x][c].users \ {u} /\ usr[x][v] = x
                 THEN Append(heard[v], n) ELSE heard[v]]

-----------------------------------------------------------------------------
(* Commands of clients. *)

\* NICK and USER of a client; nothing is known of it before.
NICK(u) ==
    LET x == Home[u] IN
    /\ status = "running" /\ given < MaxCommands
    /\ peers[x] # {} /\ usr[x][u] = None
    /\ given' = given + 1
    /\ usr' = [usr EXCEPT ![x][u] = x]
    /\ queue' = Sent(queue, x, peers[x], NICKof(u))
    /\ UNCHANGED <<peers, channels, chan_of, status, history>>

JOIN(u, c) ==
    LET x == Home[u] IN
    /\ Gives(u)
    /\ Admits(x, c)
    /\ Enter(x, u, c)
    /\ queue' = Sent(queue, x, peers[x], JOINof(u, c))
    /\ UNCHANGED <<peers, usr, status, history>>

\* Those who go are not expected to hear what is on its way.
Gone(u) == said' = [i \in DOMAIN said |-> [said[i] EXCEPT !.readers = @ \ {u}]]

PART(u, c) ==
    LET x == Home[u] IN
    /\ Gives(u)
    /\ Member(x, u, c)
    /\ Leave(x, u, {c})
    /\ queue' = Sent(queue, x, peers[x], PARTof(u, c))
    /\ Gone(u)
    /\ UNCHANGED <<peers, usr, status, heard, apart>>

\* QUIT of a client, and of an entry at another server: every channel it
\* records is looked up, and used without a look at what was found.
Removed(x, u) ==
    IF chan_of[x][u] \subseteq DOMAIN channels[x]
    THEN /\ Leave(x, u, chan_of[x][u])
         /\ usr' = [usr EXCEPT ![x][u] = None]
         /\ UNCHANGED status
    ELSE status' = "undefined" /\ UNCHANGED views

QUIT(u) ==
    LET x == Home[u] IN
    /\ Gives(u)
    /\ Removed(x, u)
    /\ queue' = Sent(queue, x, peers[x], QUITof(u))
    /\ Gone(u)
    /\ UNCHANGED <<peers, heard, apart>>

Kicked(x, v, c) ==
    /\ Put(x, c, [channels[x][c] EXCEPT !.users = @ \ {v}])
    /\ UNCHANGED <<usr, chan_of>>

\* A KICK meets what its victim does at another server.
KICK(u, v, c) ==
    LET x == Home[u] IN
    /\ Gives(u)
    /\ Operator(x, u, c) /\ Member(x, v, c) /\ usr[x][v] # None
    /\ Kicked(x, v, c)
    /\ queue' = Sent(queue, x, peers[x], KICKof(u, v, c))
    /\ Gone(v)
    /\ apart' = apart \cup {<<v, c>>}
    /\ UNCHANGED <<peers, status, heard>>

MODE(u, c, m, on) ==
    LET x == Home[u] IN
    /\ Gives(u)
    /\ Operator(x, u, c)
    /\ SetFlag(x, c, m, on)
    /\ queue' = Sent(queue, x, peers[x], FlagSent(x, u, c, m, on))
    /\ UNCHANGED <<peers, status, history>>

ModeRight(u, c, r, on, v) ==
    LET x == Home[u] IN
    /\ Gives(u)
    /\ Operator(x, u, c) /\ Member(x, v, c) /\ usr[x][v] # None
    /\ SetRight(x, c, r, on, v)
    /\ queue' = Sent(queue, x, peers[x], RIGHTof(u, c, r, on, v))
    /\ UNCHANGED <<peers, status, history>>

\* Bound: where a server has two links, TOPICs that cross multiply without end
\* (see OnlyTopicsGoRound).
NoTopicSent ==
    Crossing \/ \A x, y \in Servers : \A i \in DOMAIN queue[x][y] : queue[x][y][i].type # "TOPIC"
TopicBound == NoTopicSent \/ \A x \in Servers : \A y, z \in peers[x] : y = z

TOPIC(u, c, t) ==
    LET x == Home[u] IN
    /\ Gives(u) /\ TopicBound
    /\ TopicAllowed(x, u, c) /\ t # channels[x][c].topic
    /\ SetTopic(x, c, t)
    /\ queue' = Sent(queue, x, peers[x], TOPICof(u, c, t))
    /\ UNCHANGED <<peers, status, history>>

\* PRIVMSG or NOTICE to a channel.
PRIVMSG(u, c) ==
    LET x == Home[u]
        n == Len(said) + 1 IN
    /\ Gives(u)
    /\ Exists(x, c) /\ SayAllowed(x, u, c)
    /\ Hears(x, u, c, n)
    /\ queue' = Sent(queue, x, peers[x], SAYof(u, c, n))
    /\ said' = Append(said, [from |-> u, to |-> c, readers |->
                  {v \in channels[x][c].users \ {u} : Member(Home[v], v, c) /\ <<v, c>> \notin apart}])
    /\ UNCHANGED <<peers, views, status, apart>>

\* The message m is for v alone: to its socket, or to the link it is known by.
Forward(q, x, v, m) ==
    /\ queue' = IF usr[x][v] \in Servers \ {x} THEN Sent(q, x, {usr[x][v]}, m) ELSE q
    /\ heard' = IF usr[x][v] = x THEN [heard EXCEPT ![v] = Append(@, m.number)] ELSE heard

\* v is there, and is nobody who has taken the nick of one who has quit.
Settled(v) ==
    /\ usr[Home[v]][v] = Home[v]
    /\ \A x, y \in Servers : \A i \in DOMAIN queue[x][y] : queue[x][y][i] # QUITof(v)

\* v may be u.
PrivmsgUser(u, v) ==
    LET x == Home[u]
        n == Len(said) + 1 IN
    /\ Gives(u)
    /\ usr[x][v] # None
    /\ Forward(queue, x, v, TELLof(u, v, n))
    /\ said' = Append(said, [from |-> u, to |-> v, readers |-> {w \in {v} : Settled(w)}])
    /\ UNCHANGED <<peers, views, status, apart>>

\* A server is known to the late one before its users are.
KnowsServer(x, z) ==
    \/ z \in peers[x]
    \/ \E v \in Users : Home[v] = z /\ usr[x][v] \in peers[x]

\* VERSION of another server; ADMIN and LINKS are answered likewise.  (MOTD and
\* LUSERS are not: what is sent on is "MOTD :" and the name of the server, which
\* is looked for with the colon.)
VERSION(u, z) ==
    LET x == Home[u] IN
    /\ Gives(u)
    /\ z # x /\ KnowsServer(x, z)
    /\ queue' = Sent(queue, x, {Route[x][z]}, ASKof(u, z, Len(said) + 1))
    /\ said' = Append(said, [from |-> z, to |-> u, readers |-> {u}])
    /\ UNCHANGED <<peers, views, status, heard, apart>>

-----------------------------------------------------------------------------
(* The same at the servers that are told. *)

\* Mutant: the NICK is not passed on.
ReceiveNickUnrelayed(x, y) ==
    LET u == Head(queue[y][x]).who IN
    /\ Receives(x, y, "NICK")
    /\ usr' = IF usr[x][u] = None THEN [usr EXCEPT ![x][u] = y] ELSE usr
    /\ queue' = Taken(x, y)
    /\ UNCHANGED <<channels, chan_of, status, history>>

ReceiveNick(x, y) ==
    LET u == Head(queue[y][x]).who IN
    /\ Receives(x, y, "NICK")
    /\ usr' = IF usr[x][u] = None THEN [usr EXCEPT ![x][u] = y] ELSE usr
    /\ queue' = Passed(x, y, NICKof(u))
    /\ UNCHANGED <<channels, chan_of, status, history>>

\* Mutant: only a JOIN that creates a channel is passed on.
ReceiveJoinUnrelayed(x, y) ==
    LET m == Head(queue[y][x]) IN
    /\ Receives(x, y, "JOIN")
    /\ Admits(x, m.chan)
    /\ Enter(x, m.who, m.chan)
    /\ queue' = IF Exists(x, m.chan) THEN Taken(x, y) ELSE Passed(x, y, m)
    /\ UNCHANGED <<usr, status, history>>

\* A JOIN that is refused is not passed on.
ReceiveJoin(x, y) ==
    LET m == Head(queue[y][x]) IN
    /\ Receives(x, y, "JOIN")
    /\ \/ /\ Admits(x, m.chan)
          /\ Enter(x, m.who, m.chan)
          /\ queue' = Passed(x, y, m)
          /\ UNCHANGED <<usr, status, history>>
       \/ /\ ~Admits(x, m.chan)
          /\ queue' = Taken(x, y)
          /\ apart' = apart \cup {<<m.who, m.chan>>}
          /\ UNCHANGED <<views, status, said, heard>>

\* Neither the channel nor the membership is checked.
ReceivePart(x, y) ==
    LET m == Head(queue[y][x]) IN
    /\ Receives(x, y, "PART")
    /\ IF Exists(x, m.chan)
       THEN /\ Leave(x, m.who, {m.chan})
            /\ queue' = Passed(x, y, m)
            /\ UNCHANGED <<usr, status, history>>
       ELSE Undefined

ReceiveQuit(x, y) ==
    LET u == Head(queue[y][x]).who IN
    /\ Receives(x, y, "QUIT")
    /\ Removed(x, u)
    /\ queue' = Passed(x, y, QUITof(u))
    /\ UNCHANGED history

ReceiveKick(x, y) ==
    LET m == Head(queue[y][x]) IN
    /\ Receives(x, y, "KICK")
    /\ IF usr[x][m.whom] # None /\ Operator(x, m.who, m.chan) /\ Member(x, m.whom, m.chan)
       THEN /\ Kicked(x, m.whom, m.chan)
            /\ queue' = Passed(x, y, m)
            /\ UNCHANGED <<status, history>>
       ELSE Dropped(x, y)

ReceiveMode(x, y) ==
    LET m == Head(queue[y][x]) IN
    /\ Receives(x, y, "FLAG")
    /\ IF Operator(x, m.who, m.chan)
       THEN /\ SetFlag(x, m.chan, m.mode, m.on)
            /\ queue' = Passed(x, y, FlagSent(x, m.who, m.chan, m.mode, m.on))
            /\ UNCHANGED <<status, history>>
       ELSE Dies

ReceiveRight(x, y) ==
    LET m == Head(queue[y][x]) IN
    /\ Receives(x, y, "RIGHT")
    /\ IF Operator(x, m.who, m.chan) /\ usr[x][m.whom] # None /\ Member(x, m.whom, m.chan)
       THEN /\ SetRight(x, m.chan, m.mode, m.on, m.whom)
            /\ queue' = Passed(x, y, m)
            /\ UNCHANGED <<status, history>>
       ELSE Dies

\* 324 or 403, to the user of another server.
ReceiveQuery(x, y) == Receives(x, y, "QUERY") /\ Dies

\* Mutant: a topic is set and sent on that is set already.
ReceiveTopicAgain(x, y) ==
    LET m == Head(queue[y][x]) IN
    /\ Receives(x, y, "TOPIC")
    /\ IF usr[x][m.who] = None THEN Dropped(x, y)
       ELSE IF ~TopicAllowed(x, m.who, m.chan)
       THEN IF usr[x][m.who] = x THEN Dropped(x, y) ELSE Dies
       ELSE /\ SetTopic(x, m.chan, m.topic)
            /\ queue' = Sent(Taken(x, y), x, peers[x], m)
            /\ UNCHANGED <<status, history>>

\* Unlike the others a TOPIC is sent to all servers, also where it came from.
ReceiveTopic(x, y) ==
    LET m == Head(queue[y][x]) IN
    /\ Receives(x, y, "TOPIC")
    /\ IF usr[x][m.who] = None THEN Dropped(x, y)
       ELSE IF ~TopicAllowed(x, m.who, m.chan)
       THEN IF usr[x][m.who] = x THEN Dropped(x, y) ELSE Dies
       ELSE IF m.topic = channels[x][m.chan].topic THEN Dropped(x, y)
       ELSE /\ SetTopic(x, m.chan, m.topic)
            /\ queue' = Sent(Taken(x, y), x, peers[x], m)
            /\ UNCHANGED <<status, history>>

\* Mutant: a message is not passed on where it has found a reader.
ReceivePrivmsgFirst(x, y) ==
    LET m == Head(queue[y][x]) IN
    /\ Receives(x, y, "SAY")
    /\ Exists(x, m.chan) /\ SayAllowed(x, m.who, m.chan)
    /\ Hears(x, m.who, m.chan, m.number)
    /\ queue' = IF heard' # heard THEN Taken(x, y) ELSE Passed(x, y, m)
    /\ UNCHANGED <<views, status, said, apart>>

ReceivePrivmsg(x, y) ==
    LET m == Head(queue[y][x]) IN
    /\ Receives(x, y, "SAY")
    /\ IF Exists(x, m.chan) /\ SayAllowed(x, m.who, m.chan)
       THEN /\ Hears(x, m.who, m.chan, m.number)
            /\ queue' = Passed(x, y, m)
            /\ UNCHANGED <<views, status, said, apart>>
       ELSE Dies

ReceivePrivmsgUser(x, y) ==
    LET m == Head(queue[y][x]) IN
    /\ Receives(x, y, "TELL")
    /\ Forward(Taken(x, y), x, m.whom, m)
    /\ UNCHANGED <<views, status, said, apart>>

ReceiveVersion(x, y) ==
    LET m == Head(queue[y][x]) IN
    /\ Receives(x, y, "ASK")
    /\ queue' = IF m.server = x THEN Sent(Taken(x, y), x, {y}, ANSWERof(m.who, m.number))
                ELSE Sent(Taken(x, y), x, {Route[x][m.server]}, m)
    /\ UNCHANGED <<views, status, history>>

\* 351, or resend_msg: the answer for one who has quit is dropped.
ReceiveAnswer(x, y) ==
    LET m == Head(queue[y][x]) IN
    /\ Receives(x, y, "ANSWER")
    /\ Forward(Taken(x, y), x, m.whom, m)
    /\ UNCHANGED <<views, status, said, apart>>

-----------------------------------------------------------------------------
(* The introduction of a server that is started later. *)

Listed(ch) == ch.users \cup ch.operators \cup ch.moderators

\* send_channels.  The text of names is not emptied between two channels, and
\* no comma is put between what was there and what comes.
NJOINof(x, c, i) ==
    LET ch == channels[x][c] IN
    [type |-> "NJOIN", chan |-> c, users |-> Listed(ch), operators |-> ch.operators,
     moderators |-> ch.moderators, glued |-> i > 1]
STOPICof(x, c) == [type |-> "STOPIC", chan |-> c, topic |-> channels[x][c].topic]
SMODEof(c, ms) == [type |-> "SMODE", chan |-> c, modes |-> ms]

Burst(x) ==
    LET cs == SetToSeq(DOMAIN channels[x]) IN
    [n \in 1..(3 * Len(cs)) |->
        LET i == (n + 2) \div 3 IN
        <<SMODEof(cs[i], channels[x][cs[i]].modes), NJOINof(x, cs[i], i), STOPICof(x, cs[i])>>[(n % 3) + 1]]

Known(x) == {u \in Users : usr[x][u] # None}

Introduction(x) ==
    LET us == SetToSeq(Known(x)) IN [i \in DOMAIN us |-> NICKof(us[i])] \o Burst(x)

\* y is started, and its parent p handles its registration.  The nick of a
\* voiced user who has gone is read where the user was.
LinkUp(y, p) ==
    /\ status = "running" /\ NoTopicSent
    /\ y \in Late /\ peers[y] = {} /\ p # y /\ Route[y][p] = p /\ p \notin Late
    /\ peers' = [peers EXCEPT ![y] = {p}, ![p] = @ \cup {y}]
    /\ IF \A c \in DOMAIN channels[p] : Listed(channels[p][c]) \subseteq Known(p)
       THEN queue' = [queue EXCEPT ![p][y] = Introduction(p)] /\ UNCHANGED status
       ELSE status' = "undefined" /\ UNCHANGED queue
    /\ apart' = apart \cup UNION {(Listed(channels[p][c]) \ channels[p][c].users) \X {c} :
                                     c \in DOMAIN channels[p]}
    /\ UNCHANGED <<views, given, said, heard>>

\* A channel that is known is left as it is.
ReceiveNjoin(x, y) ==
    LET m == Head(queue[y][x]) IN
    /\ Receives(x, y, "NJOIN")
    /\ \/ /\ Exists(x, m.chan)
          /\ queue' = Taken(x, y)
          /\ apart' = apart \cup {<<u, m.chan>> : u \in m.users}
          /\ UNCHANGED <<views, status, said, heard>>
       \/ /\ ~Exists(x, m.chan) /\ (m.glued \/ ~(m.users \subseteq Known(x)))
          /\ Undefined
       \/ /\ ~Exists(x, m.chan) /\ ~m.glued /\ m.users \subseteq Known(x)
          /\ Put(x, m.chan, NewChannel(m.users, m.operators, m.moderators))
          /\ chan_of' = [chan_of EXCEPT ![x] =
                [u \in Users |-> IF u \in m.users THEN @[u] \cup {m.chan} ELSE @[u]]]
          /\ queue' = Taken(x, y)
          /\ UNCHANGED <<usr, status, history>>

\* TOPIC and MODE of a server.  For a channel that is not there its name is
\* taken for a user's, who is not found.  An empty topic is no argument.
ReceiveServerTopic(x, y) ==
    LET m == Head(queue[y][x]) IN
    /\ Receives(x, y, "STOPIC")
    /\ IF Exists(x, m.chan) /\ m.topic # None
       THEN /\ SetTopic(x, m.chan, m.topic)
            /\ queue' = Taken(x, y)
            /\ UNCHANGED <<status, history>>
       ELSE Dropped(x, y)

ReceiveServerMode(x, y) ==
    LET m == Head(queue[y][x]) IN
    /\ Receives(x, y, "SMODE")
    /\ IF Exists(x, m.chan)
       THEN /\ Put(x, m.chan, [channels[x][m.chan] EXCEPT !.modes = @ \cup m.modes])
            /\ queue' = Passed(x, y, m)
            /\ UNCHANGED <<usr, chan_of, status, history>>
       ELSE Dropped(x, y)

-----------------------------------------------------------------------------
Command ==
    \E u \in Users :
        \/ NICK(u) \/ QUIT(u)
        \/ \E v \in Users : PrivmsgUser(u, v)
        \/ \E z \in Asked : VERSION(u, z)
        \/ \E c \in Chans :
              \/ JOIN(u, c) \/ PART(u, c) \/ PRIVMSG(u, c)
              \/ \E v \in Users : KICK(u, v, c)
              \/ \E m \in Modes, on \in BOOLEAN : MODE(u, c, m, on)
              \/ \E r \in Rights, on \in BOOLEAN, v \in Users : ModeRight(u, c, r, on, v)
              \/ \E t \in Topics \cup {None} : TOPIC(u, c, t)

Handle(x, y) ==
    \/ ReceiveNick(x, y) \/ ReceiveQuit(x, y)
    \/ ReceiveJoin(x, y) \/ ReceivePart(x, y) \/ ReceiveKick(x, y)
    \/ ReceiveMode(x, y) \/ ReceiveRight(x, y) \/ ReceiveQuery(x, y) \/ ReceiveTopic(x, y)
    \/ ReceivePrivmsg(x, y) \/ ReceivePrivmsgUser(x, y)
    \/ ReceiveVersion(x, y) \/ ReceiveAnswer(x, y)
    \/ ReceiveNjoin(x, y) \/ ReceiveServerTopic(x, y) \/ ReceiveServerMode(x, y)

Next ==
    \/ Command
    \/ \E x, y \in Servers : Handle(x, y) \/ LinkUp(x, y)

Spec == Init /\ [][Next]_vars

\* Every server goes on reading every link.
Links == {l \in Servers \X Servers : l[1] # l[2] /\ Route[l[1]][l[2]] = l[2]}
FairSpec == Spec /\ \A l \in Links : WF_vars(Handle(l[1], l[2]))

-----------------------------------------------------------------------------
(* Properties. *)

\* Every variable has the shape the code gives it.
TypeOK ==
    /\ peers \in [Servers -> SUBSET Servers]
    /\ usr \in [Servers -> [Users -> Servers \cup {None}]]
    /\ \A x \in Servers :
          /\ DOMAIN channels[x] \subseteq Chans
          /\ \A c \in DOMAIN channels[x] : channels[x][c] \in Channel
    /\ chan_of \in [Servers -> [Users -> SUBSET Chans]]
    /\ status \in {"running", "terminated", "undefined"}
    /\ given \in 0..MaxCommands
    /\ \A i \in DOMAIN said : said[i].readers \subseteq Users
    /\ heard \in [Users -> Seq(DOMAIN said)]

\* Will u be a member of c at x, when x has handled what y has sent?
WillBeMember(x, y, u, c) ==
    LET q == queue[y][x]
        njoin(i) == q[i].type = "NJOIN" /\ q[i].chan = c
        in(i) == q[i] = JOINof(u, c) \/ (njoin(i) /\ u \in q[i].users)
        out(i) == q[i] \in {NICKof(u), QUITof(u), PARTof(u, c)} \/ (njoin(i) /\ u \notin q[i].users)
        never_out_after(i) == \A j \in DOMAIN q : j > i => ~out(j)
    IN \/ Member(x, u, c) /\ never_out_after(0)
       \/ \E i \in DOMAIN q : in(i) /\ never_out_after(i)

\* What a server has been told of a channel is true, or is being put right: for
\* each link, a user who is known from the other way is a member at one end iff
\* the messages under way make it one at the other.  It fails for those who
\* are kicked, refused by another server, or introduced too late, and for
\* nobody else, although JOINs cross the PART that deletes the channel, QUITs,
\* the introduction of a server, and the creation of the channel elsewhere.
LinkTellsTruth ==
    \A x \in Servers : \A y \in peers[x] : \A u \in Users, c \in Chans :
        status = "running" /\ <<u, c>> \notin apart =>
            /\ usr[y][u] \notin {None, x} => (WillBeMember(x, y, u, c) <=> Member(y, u, c))
            /\ usr[y][u] = None /\ usr[x][u] = y => ~WillBeMember(x, y, u, c)

\* As long as nobody was kicked, refused or introduced too late, no handler
\* uses a channel that is not there: a PART finds its channel and a QUIT all it
\* has recorded, at every server.  (Two channels in one introduction apart.)
ChannelsAreFound ==
    status = "undefined" => apart # {} \/ Len(SetToSeq(Chans)) > 1

\* Nobody is sent the same message twice, or what he has said himself, unless he
\* said it to his own nick, and the messages of one user come in the order they
\* were given, over any number of servers.
HeardOnceInOrder ==
    \A u \in Users : \A i \in DOMAIN heard[u] :
        /\ said[heard[u][i]].from = u => said[heard[u][i]].to = u
        /\ \A j \in 1..(i - 1) :
              /\ heard[u][j] # heard[u][i]
              /\ said[heard[u][j]].from = said[heard[u][i]].from => heard[u][j] < heard[u][i]

\* When a message is no more under way, every member of whom the sender's server
\* knew has been sent it, unless the user has left, quit or been kicked; and who
\* has asked has been sent the answer.
NobodyMissed ==
    \A n \in DOMAIN said :
        \/ status # "running"
        \/ \E x, y \in Servers : \E i \in DOMAIN queue[x][y] :
              queue[x][y][i].type \in {"SAY", "TELL", "ASK", "ANSWER"} /\ queue[x][y][i].number = n
        \/ \A u \in said[n].readers : n \in ToSet(heard[u])

\* The entry of the sender is there when a message is handled: who is known
\* nowhere behind a link is heard of no more from it.
SendersAreKnown ==
    \A x \in Servers : \A y \in peers[x] :
        LET q == queue[y][x] IN
        status = "running" /\ q # <<>>
        /\ Head(q).type \notin Unsigned => usr[x][Head(q).who] # None

\* When the clients are silent, nothing goes round for ever but TOPICs that have
\* crossed: one is sent on, and back, where it changes the topic, and that ends
\* only when all that are under way are the same.
OnlyTopicsGoRound ==
    <>[](status # "running" \/
         \A x, y \in Servers : \A i \in DOMAIN queue[x][y] :
            \E v, w \in Servers : \E j \in DOMAIN queue[v][w] :
               LET m == queue[x][y][i]
                   n == queue[v][w][j] IN
               {m.type, n.type} = {"TOPIC"} /\ m.chan = n.chan /\ m.topic # n.topic)

\* When the clients are silent the servers fall silent: the handlers are made
\* "for server safety of infinite loops".  (Does not hold: a topic that is set
\* and cleared before the first TOPIC has come back is two TOPICs, each of them
\* the change of the other, which go back and forth for ever.)
Settles == <>[](status # "running" \/ \A x, y \in Servers : queue[x][y] = <<>>)
=============================================================================
