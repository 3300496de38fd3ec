------------------------------- MODULE Network -------------------------------
(***************************************************************************)
(* Irisha servers linked to a network: who knows which servers and which   *)
(* users, over which link, and the SERVER, NICK, QUIT and SQUIT messages   *)
(* that make them know.  A server is started with the address of another   *)
(* one, its parent, or is told by CONNECT to link to one; the parent sends *)
(* what it knows when the SERVER message of the child has come, the child  *)
(* sends nothing when the parent has answered.                             *)
(*                                                                         *)
(* A link is a pair of queues: TCP keeps the order.  A queue ends with the *)
(* socket of its reader.  Messages to a socket that the reader has closed  *)
(* are lost; the error that a later send or recv may get, and that ends    *)
(* the process, is a Crash.                                                *)
(*                                                                         *)
(* parent_fd_ is not reset when the link to the parent is lost: a server   *)
(* accepted later may be given that descriptor, is taken for the parent    *)
(* and hears nothing (heirs).                                              *)
(*                                                                         *)
(* Bounds: every server runs once and has one parent at most, links form   *)
(* no cycle, passwords fit, no nick is taken at two servers, a client that *)
(* has changed its nick does no more (module Registry has what it does to  *)
(* its entry), and nothing is said of a server once it is sent something   *)
(* else than the registration on a link that is not registered.            *)
(***************************************************************************)
EXTENDS Integers, Sequences, FiniteSets, SequencesExt

CONSTANTS
    Servers,    \* domain names
    Users,      \* nicks
    Home,       \* the server each nick is used at
    Words,      \* number of words of each user's real name
    Commands,   \* those that may be given at each server: "CONNECT", "SQUIT", "NICK"
    MaxQueue,   \* bound: clients wait while so many messages are on their way
    None

\* A client before USER, after it, and with a nick that is not its key.
Local == {"half", "full", "renamed"}

ASSUME HomeAssumption == Home \in [Users -> Servers]
ASSUME WordsAssumption == Words \in [Users -> Nat \ {0}]
ASSUME NoneAssumption == None \notin Servers \cup Local /\ Local \cap Servers = {}
ASSUME FiniteAssumption == IsFiniteSet(Servers) /\ IsFiniteSet(Users)
ASSUME CommandsAssumption == Commands \in [Servers -> SUBSET {"CONNECT", "SQUIT", "NICK"}]
ASSUME BoundAssumption == MaxQueue \in Nat \ {0}

VARIABLES
    status,     \* "off", "running", "ended", "undefined"
    parent,     \* the server x has linked to, by parent_fd_
    heirs,      \* those accepted on the descriptor in parent_fd_ after its link was lost
    open,       \* the servers at the other ends of the open sockets
    srv,        \* Server entries: the link each is known by (itself: direct)
    usr,        \* User entries: the link, or, of a client, one of Local
    queue       \* queue[x][y]: sent by x, not yet handled by y

vars == <<status, parent, heirs, open, srv, usr, queue>>

SERVERof(name) == [type |-> "SERVER", who |-> name]
QUITof(name) == [type |-> "QUIT", who |-> name]
SQUITof(name) == [type |-> "SQUIT", who |-> name]
RENAMEof(name) == [type |-> "RENAME", who |-> name]

\* reads: how many servers in a row will find the seven arguments of a NICK.
\* A relayed NICK glues the mode to the first word of the real name.
NICKof(u, reads) == [type |-> "NICK", who |-> u, reads |-> reads]

Msg ==
    [type : {"SERVER", "SQUIT"}, who : Servers] \cup
    [type : {"QUIT", "RENAME"}, who : Users] \cup
    [type : {"NICK"}, who : Users, reads : 0..2]

Init ==
    /\ status = [x \in Servers |-> "off"]
    /\ parent = [x \in Servers |-> None]
    /\ heirs = [x \in Servers |-> {}]
    /\ open = [x \in Servers |-> {}]
    /\ srv = [x \in Servers |-> [z \in Servers |-> None]]
    /\ usr = [x \in Servers |-> [u \in Users |-> None]]
    /\ queue = [x \in Servers |-> [y \in Servers |-> <<>>]]

-----------------------------------------------------------------------------
(* Sending. *)

Running(x) == status[x] = "running"

\* Servers with a socket of their own; send_servers goes to these.
Direct(x) == {z \in Servers : srv[x][z] = z}

\* Mutant: the link a message came by is not left out.
OthersAndSource(x, y) == Direct(x)

Others(x, y) == Direct(x) \ {y}

\* q after x has sent the messages ms to every server of S.
Sent(q, x, S, ms) ==
    [q EXCEPT ![x] = [y \in Servers |-> IF y \in S /\ x \in open[y] THEN @[y] \o ms ELSE @[y]]]

\* Mutant: users behind other links are not introduced.
LocalsOnly(x) ==
    SetToSeq({NICKof(u, 2) : u \in {v \in Users : usr[x][v] \in Local}})

\* send_servers_info and send_clients_info.  A client has no real name before
\* USER, and the one of an external user is kept as its user name, one word.
ServersInfo(x, y) == SetToSeq({SERVERof(z) : z \in {w \in Servers \ {y} : srv[x][w] # None}})
Reads(x, u) == IF usr[x][u] \in {"full", "renamed"} /\ Words[u] > 1 THEN 2 ELSE 1
ClientsInfo(x) == SetToSeq({NICKof(u, Reads(x, u)) : u \in {v \in Users : usr[x][v] # None}})

\* What is left for x to read when the first message from y is taken.
Taken(x, y) == [queue EXCEPT ![y][x] = Tail(@)]

Arrives(x, y) == Running(x) /\ y \in open[x] /\ queue[y][x] # <<>>

\* On a link that is registered.
Receives(x, y, type) ==
    Arrives(x, y) /\ srv[x][y] = y /\ Head(queue[y][x]).type = type

\* A server that is given a command by a client.
Takes(x) ==
    /\ Running(x)
    /\ \A y \in Servers : \A z \in open[y] : Len(queue[z][y]) < MaxQueue

-----------------------------------------------------------------------------
(* Servers come. *)

\* The descriptor in parent_fd_ may be that of the next socket.
Reused(p) == parent[p] # None /\ parent[p] \notin open[p] /\ heirs[p] \cap open[p] = {}

\* The servers that x, by their descriptor, takes for its parent.
ByParentFd(x) == {parent[x]} \cup heirs[x]

\* A socket from x to p; x registers with ms.
LinkTo(x, p, ms) ==
    /\ parent' = [parent EXCEPT ![x] = p]
    /\ \/ UNCHANGED heirs
       \/ Reused(p) /\ heirs' = [heirs EXCEPT ![p] = @ \cup {x}]
    /\ open' = [open EXCEPT ![x] = @ \cup {p}, ![p] = @ \cup {x}]
    /\ queue' = [queue EXCEPT ![x][p] = <<SERVERof(x)>> \o ms]

Start(x) ==
    /\ status[x] = "off"
    /\ status' = [status EXCEPT ![x] = "running"]
    /\ \/ UNCHANGED <<parent, heirs, open, queue>>
       \/ \E p \in Servers : Running(p) /\ LinkTo(x, p, <<>>)
    /\ UNCHANGED <<srv, usr>>

\* p is not reached from x by going from children to parents.
NotUnder(p, x) ==
    \E S \in SUBSET (Servers \ {x}) :
        p \in S /\ \A y \in S : parent[y] \in S \cup {None}

\* CONNECT of an operator: all that is known is sent at once.
CONNECT(x, p) ==
    /\ "CONNECT" \in Commands[x]
    /\ Takes(x) /\ Running(p) /\ parent[x] = None
    /\ NotUnder(p, x)
    /\ LinkTo(x, p, ServersInfo(x, p) \o ClientsInfo(x))
    /\ UNCHANGED <<status, srv, usr>>

\* Mutant: the others are not told of the new server.
ReceiveRegistrationAlone(x, y) ==
    /\ Arrives(x, y) /\ Head(queue[y][x]) = SERVERof(y) /\ srv[x][y] = None
    /\ srv' = [srv EXCEPT ![x][y] = y]
    /\ queue' =
          IF y \in ByParentFd(x) THEN Taken(x, y)
          ELSE Sent(Taken(x, y), x, {y}, <<SERVERof(x)>> \o ServersInfo(x, y) \o ClientsInfo(x))
    /\ UNCHANGED <<status, parent, heirs, open, usr>>

\* The first message of a link.  Only a server on another socket than parent_fd_
\* is told what is known, and only it is announced to others.  (Bound: a link
\* is not registered while its server is known by another one.)
ReceiveRegistration(x, y) ==
    /\ Arrives(x, y) /\ Head(queue[y][x]) = SERVERof(y) /\ srv[x][y] = None
    /\ srv' = [srv EXCEPT ![x][y] = y]
    /\ queue' =
          IF y \in ByParentFd(x) THEN Taken(x, y)
          ELSE Sent(Sent(Taken(x, y), x, {y}, <<SERVERof(x)>> \o ServersInfo(x, y) \o ClientsInfo(x)),
                    x, Others(x, y), <<SERVERof(y)>>)
    /\ UNCHANGED <<status, parent, heirs, open, usr>>

\* A server that was taken for the parent has not registered the other end, and
\* takes what is relayed to it for what a client or a new server says (bound:
\* nothing is said of it from then on).
ReceiveStray(x, y) ==
    /\ Arrives(x, y) /\ Head(queue[y][x]) # SERVERof(y) /\ srv[x][y] # y
    /\ queue' = Taken(x, y)
    /\ status' = [status EXCEPT ![x] = "undefined"]
    /\ UNCHANGED <<parent, heirs, open, srv, usr>>

\* A known server tells of another one; insert changes nothing if that is known.
ReceiveServer(x, y) ==
    /\ Receives(x, y, "SERVER")
    /\ LET z == Head(queue[y][x]).who IN
       /\ srv' = IF srv[x][z] = None THEN [srv EXCEPT ![x][z] = y] ELSE srv
       /\ queue' = Sent(Taken(x, y), x, Others(x, y), <<SERVERof(z)>>)
    /\ UNCHANGED <<status, parent, heirs, open, usr>>

-----------------------------------------------------------------------------
(* Servers go. *)

\* remove_local_server, with what is known by the link.  Users known by it were
\* never given the name of its server in server_, and stay.
LinkRemoved(x, y) ==
    /\ open' = [open EXCEPT ![x] = @ \ {y}]
    /\ srv' = [srv EXCEPT ![x] = [z \in Servers |-> IF @[z] = y THEN None ELSE @[z]]]

\* remove_server: z alone.
ServerRemoved(x, z) ==
    IF srv[x][z] = z THEN LinkRemoved(x, z)
    ELSE srv' = [srv EXCEPT ![x][z] = None] /\ UNCHANGED open

\* q when x has closed its sockets to S: what was sent to them is not read.
Unread(q, x, S) == [y \in Servers |-> IF y \in S THEN [q[y] EXCEPT ![x] = <<>>] ELSE q[y]]

\* close_connection of a link: the other end has closed it, or was silent for
\* the connection timeout.
HangUp(x, y) ==
    /\ Running(x) /\ y \in open[x]
    /\ LinkRemoved(x, y)
    /\ queue' = Sent(Unread(queue, x, {y}), x,
                     IF srv[x][y] = y THEN Others(x, y) ELSE {}, <<SQUITof(y)>>)
    /\ UNCHANGED <<status, parent, heirs, usr>>

\* The process ends, without a word.
Ended(x) ==
    /\ status' = [status EXCEPT ![x] = "ended"]
    /\ open' = [open EXCEPT ![x] = {}]

Crash(x) ==
    /\ Running(x)
    /\ Ended(x)
    /\ queue' = Unread(queue, x, Servers)
    /\ UNCHANGED <<parent, heirs, srv, usr>>

\* SQUIT of a client, for another server and for this one.
SQUIT(x, z) ==
    /\ "SQUIT" \in Commands[x]
    /\ Takes(x) /\ srv[x][z] # None
    /\ ServerRemoved(x, z)
    /\ queue' = LET q == Sent(queue, x, {srv[x][z]}, <<SQUITof(z)>>) IN
                IF srv[x][z] = z THEN Unread(q, x, {z}) ELSE q
    /\ UNCHANGED <<status, parent, heirs, usr>>

SquitSelf(x) ==
    /\ "SQUIT" \in Commands[x]
    /\ Takes(x)
    /\ Ended(x)
    /\ queue' = Unread(Sent(queue, x, Direct(x), <<SQUITof(x)>>), x, Servers)
    /\ UNCHANGED <<parent, heirs, srv, usr>>

ReceiveSquitSelf(x, y) ==
    /\ Receives(x, y, "SQUIT") /\ Head(queue[y][x]).who = x
    /\ Ended(x)
    /\ queue' = Unread(Sent(queue, x, Others(x, y), <<SQUITof(x)>>), x, Servers)
    /\ UNCHANGED <<parent, heirs, srv, usr>>

ReceiveSquit(x, y) ==
    /\ Receives(x, y, "SQUIT")
    /\ LET z == Head(queue[y][x]).who IN
       /\ z # x
       /\ IF srv[x][z] = None
          THEN queue' = Taken(x, y) /\ UNCHANGED <<srv, open>>
          ELSE /\ ServerRemoved(x, z)
               /\ queue' = LET q == Sent(Taken(x, y), x, Others(x, y), <<SQUITof(z)>>) IN
                           IF srv[x][z] = z THEN Unread(q, x, {z}) ELSE q
    /\ UNCHANGED <<status, parent, heirs, usr>>

-----------------------------------------------------------------------------
(* Users. *)

\* NICK of a client: known here, and not announced.
LocalNick(u) ==
    LET x == Home[u] IN
    /\ Running(x) /\ usr[x][u] = None
    /\ usr' = [usr EXCEPT ![x][u] = "half"]
    /\ UNCHANGED <<status, parent, heirs, open, srv, queue>>

\* USER of a client: announced.
LocalUser(u) ==
    LET x == Home[u] IN
    /\ Takes(x) /\ usr[x][u] = "half"
    /\ usr' = [usr EXCEPT ![x][u] = "full"]
    /\ queue' = Sent(queue, x, Direct(x), <<NICKof(u, IF Words[u] > 1 THEN 2 ELSE 1)>>)
    /\ UNCHANGED <<status, parent, heirs, open, srv>>

\* QUIT, KILL, a closed or timed out connection of a client.
LocalQuit(u) ==
    LET x == Home[u] IN
    /\ Takes(x) /\ usr[x][u] \in {"half", "full"}
    /\ usr' = [usr EXCEPT ![x][u] = None]
    /\ queue' = Sent(queue, x, Direct(x), <<QUITof(u)>>)
    /\ UNCHANGED <<status, parent, heirs, open, srv>>

\* NICK of a client that has one (bound: after USER): u names the client, whatever its nick.
LocalRename(u) ==
    LET x == Home[u] IN
    /\ "NICK" \in Commands[x]
    /\ Takes(x) /\ usr[x][u] = "full"
    /\ usr' = [usr EXCEPT ![x][u] = "renamed"]
    /\ queue' = Sent(queue, x, Direct(x), <<RENAMEof(u)>>)
    /\ UNCHANGED <<status, parent, heirs, open, srv>>

\* Arguments that are not there are read: nothing is said of x from then on.
ReadsBeyond(x) == status' = [status EXCEPT ![x] = "undefined"]

\* NICK_server.  The message is relayed whether or not the user is new; insert
\* changes nothing if the nick is known.
ReceiveNick(x, y) ==
    /\ Receives(x, y, "NICK")
    /\ LET m == Head(queue[y][x]) IN
       \/ /\ m.reads > 0
          /\ queue' = Sent(Taken(x, y), x, Others(x, y), <<NICKof(m.who, m.reads - 1)>>)
          /\ usr' = IF usr[x][m.who] = None THEN [usr EXCEPT ![x][m.who] = y] ELSE usr
          /\ UNCHANGED status
       \/ /\ m.reads = 0
          /\ queue' = Taken(x, y)
          /\ ReadsBeyond(x)
          /\ UNCHANGED usr
    /\ UNCHANGED <<parent, heirs, open, srv>>

\* A NICK with one argument goes the same way, and the relay reads seven.
ReceiveRename(x, y) ==
    /\ Receives(x, y, "RENAME")
    /\ queue' = Taken(x, y)
    /\ ReadsBeyond(x)
    /\ UNCHANGED <<parent, heirs, open, srv, usr>>

\* Mutant: the QUIT is not relayed.
ReceiveQuitUnrelayed(x, y) ==
    /\ Receives(x, y, "QUIT")
    /\ queue' = Taken(x, y)
    /\ usr' = [usr EXCEPT ![x][Head(queue[y][x]).who] = None]
    /\ UNCHANGED <<status, parent, heirs, open, srv>>

\* QUIT of an external user; of an unknown one it is answered with an error.
ReceiveQuit(x, y) ==
    /\ Receives(x, y, "QUIT")
    /\ LET u == Head(queue[y][x]).who IN
       /\ usr[x][u] \notin Local
       /\ queue' = Sent(Taken(x, y), x, IF usr[x][u] = None THEN {} ELSE Others(x, y), <<QUITof(u)>>)
       /\ usr' = [usr EXCEPT ![x][u] = None]
    /\ UNCHANGED <<status, parent, heirs, open, srv>>

-----------------------------------------------------------------------------
UserStep(u) == LocalNick(u) \/ LocalUser(u) \/ LocalQuit(u) \/ LocalRename(u)

ServerStep(x) == Start(x) \/ Crash(x) \/ SquitSelf(x)

LinkStep(x, y) ==
    \/ CONNECT(x, y) \/ HangUp(x, y) \/ SQUIT(x, y)
    \/ ReceiveRegistration(x, y) \/ ReceiveStray(x, y) \/ ReceiveServer(x, y)
    \/ ReceiveSquitSelf(x, y) \/ ReceiveSquit(x, y)
    \/ ReceiveNick(x, y) \/ ReceiveRename(x, y) \/ ReceiveQuit(x, y)

Next ==
    \/ \E u \in Users : UserStep(u)
    \/ \E x \in Servers : ServerStep(x)
    \/ \E x, y \in Servers : LinkStep(x, y)

Spec == Init /\ [][Next]_vars

-----------------------------------------------------------------------------
(* Properties. *)

\* Every variable has the shape the code gives it.
TypeOK ==
    /\ status \in [Servers -> {"off", "running", "ended", "undefined"}]
    /\ parent \in [Servers -> Servers \cup {None}]
    /\ heirs \in [Servers -> SUBSET Servers]
    /\ open \in [Servers -> SUBSET Servers]
    /\ srv \in [Servers -> [Servers -> Servers \cup {None}]]
    /\ usr \in [Servers -> [Users -> Servers \cup Local \cup {None}]]
    /\ queue \in [Servers -> [Servers -> Seq(Msg)]]

\* A link between two servers that run, open at both ends.
Linked(x, y) ==
    Running(x) /\ Running(y) /\ y \in open[x] /\ x \in open[y]

\* The users that x will know by its link to y when the queue is handled.
Told(x, y) ==
    {u \in Users :
        LET q == queue[y][x]
            about == {i \in DOMAIN q : q[i].type \in {"NICK", "QUIT"} /\ q[i].who = u}
        IN IF about = {} THEN usr[x][u] = y
           ELSE \E i \in about : q[i].type = "NICK" /\ \A j \in about : j <= i}

Introduced(x, y) == {u \in Users : usr[x][u] \in (Servers \cup {"full"}) \ {y}}
Known(x, y) == {u \in Users : usr[x][u] \notin {None, y}}

\* Once a parent has registered a child, the child will know by that link every
\* user the parent knows and nobody else, although NICKs and QUITs are relayed
\* while the introduction is under way and other links come and go.  (Not a
\* child on the descriptor that parent_fd_ has kept: it is told nothing.)
ParentTellsAll ==
    \A c \in Servers : \A p \in Servers :
        parent[c] = p /\ Linked(p, c) /\ srv[p][c] = c /\ c \notin heirs[p] =>
            Introduced(p, c) \subseteq Told(c, p) /\ Told(c, p) \subseteq Known(p, c)

\* A parent learns of users from a child that the child knows, or else a QUIT
\* is on its way; unless the child was linked by CONNECT, which sends what may
\* change before the answer has come.
ChildTellsTrue ==
    \A c \in Servers : \A p \in Servers :
        parent[c] = p /\ Linked(p, c) /\ "CONNECT" \notin Commands[c] =>
            Told(p, c) \subseteq Known(c, p)

\* A message never comes back: no server learns of its own client by a link.
OwnUsersAreLocal ==
    \A u \in Users : usr[Home[u]][u] \in Local \cup {None}

\* z knows of y, will be told of it by x, or is giving it up.
HearsOf(x, y, z) ==
    \/ srv[z][y] # None
    \/ \E i \in DOMAIN queue[x][z] : queue[x][z][i] = SERVERof(y)
    \/ \E i \in DOMAIN queue[z][x] : queue[z][x][i] = SQUITof(y)

\* Two children of a server know of each other, or are about to, or one is
\* giving the other up: whichever registers first is told of the second, and the
\* second finds the first in its introduction, while others come and go.  (The
\* parent of their parent they may never hear of, if they register before it has
\* answered, nor of a child on the descriptor that parent_fd_ has kept.)
SiblingsAreAnnounced ==
    \A x \in Servers : \A y, z \in Direct(x) :
        y # z /\ parent[y] = x /\ parent[z] = x /\ Linked(x, z) /\ {y, z} \cap heirs[x] = {} =>
            HearsOf(x, y, z)

-----------------------------------------------------------------------------
(* What the comments say and the code does not do. *)

\* (Does not hold.)  Users go with the link they are known by: "Removes local
\* server with all its (users and servers)".  remove_server_users compares
\* server_, which no external user has.
UsersHaveLinks ==
    \A x \in Servers : \A u \in Users :
        Running(x) /\ usr[x][u] \in Servers => usr[x][u] \in open[x]
=============================================================================
