----------------------------- MODULE RelayProofs -----------------------------
(***************************************************************************)
(* Proofs about module Relay, for any tree of servers, any users, channels *)
(* and modes, and any number of commands: the types, where messages are    *)
(* found, and what the servers know of users.                              *)
(***************************************************************************)
EXTENDS Relay, SequenceTheorems, FiniteSetTheorems, FunctionTheorems, TLAPS

\* The messages.
Msg ==
    [type : {"NICK", "QUIT"}, who : Users] \cup
    [type : {"JOIN", "PART", "QUERY"}, who : Users, chan : Chans] \cup
    [type : {"KICK"}, who : Users, chan : Chans, whom : Users] \cup
    [type : {"FLAG"}, who : Users, chan : Chans, mode : Modes, on : BOOLEAN] \cup
    [type : {"RIGHT"}, who : Users, chan : Chans, mode : Rights, on : BOOLEAN, whom : Users] \cup
    [type : {"TOPIC"}, who : Users, chan : Chans, topic : Topics \cup {None}] \cup
    [type : {"SAY"}, who : Users, chan : Chans, number : Nat] \cup
    [type : {"TELL"}, who : Users, whom : Users, number : Nat] \cup
    [type : {"ASK"}, who : Users, server : Servers, number : Nat] \cup
    [type : {"ANSWER"}, whom : Users, number : Nat] \cup
    [type : {"NJOIN"}, chan : Chans, users : SUBSET Users, operators : SUBSET Users,
     moderators : SUBSET Users, glued : BOOLEAN] \cup
    [type : {"STOPIC"}, chan : Chans, topic : Topics \cup {None}] \cup
    [type : {"SMODE"}, chan : Chans, modes : SUBSET Modes]

Queues == [Servers -> [Servers -> Seq(Msg)]]
ChannelMaps == UNION {[D -> Channel] : D \in SUBSET Chans}
Sayings == Seq([from : Users \cup Servers, to : Users \cup Chans, readers : SUBSET Users])

ViewsTyped ==
    /\ usr \in [Servers -> [Users -> Servers \cup {None}]]
    /\ channels \in [Servers -> ChannelMaps]
    /\ chan_of \in [Servers -> [Users -> SUBSET Chans]]

HistoryTyped ==
    /\ said \in Sayings
    /\ \A i \in DOMAIN said : said[i].readers \subseteq Users
    /\ heard \in [Users -> Seq(DOMAIN said)]
    /\ apart \subseteq Users \X Chans

TypeInv ==
    /\ peers \in [Servers -> SUBSET Servers]
    /\ queue \in Queues
    /\ status \in {"running", "terminated", "undefined"}
    /\ given \in 0..MaxCommands
    /\ ViewsTyped /\ HistoryTyped

\* A server that was there at the start, or has been linked since.
Up(x) == x \notin Late \/ peers[x] # {}

\* Links are seen from both ends, and nothing is sent elsewhere.
Peered ==
    /\ \A x \in Servers : \A y \in peers[x] : y # x /\ Route[x][y] = y /\ x \in peers[y]
    /\ \A x, y \in Servers : queue[x][y] # <<>> => y \in peers[x]

\* The servers that are up are linked, the late ones by one link.
Connected ==
    /\ \A x, z \in Servers : Up(x) /\ Up(z) /\ x # z => Route[x][z] \in peers[x]
    /\ \A y \in Late : \A x \in peers[y] : peers[y] = {x} /\ x \notin Late

\* A user is known by the link that leads home.
UsersFit ==
    \A x \in Servers, u \in Users :
        usr[x][u] # None => usr[x][u] = Route[x][Home[u]] /\ Up(x) /\ Up(Home[u])

\* Messages that go away from the user they name first.
Outward == {"NICK", "QUIT", "JOIN", "PART", "KICK", "FLAG", "RIGHT", "QUERY", "SAY", "TELL", "ASK"}
Numbered == {"SAY", "TELL", "ASK", "ANSWER"}

\* Those that every server behind a link is to get.
Plain == Outward \ {"TELL", "ASK"}

\* m may be on its way from y to x.
Fits(m, y, x) ==
    /\ m.type \in Outward => Route[x][Home[m.who]] = y /\ Up(Home[m.who])
    /\ m.type = "TELL" => Route[y][Home[m.whom]] = x
    /\ m.type = "ASK" => Route[y][m.server] = x /\ Up(m.server)
    /\ m.type = "ANSWER" =>
          /\ Route[y][Home[m.whom]] = x /\ Up(Home[m.whom])
          /\ said[m.number].from \in Servers /\ Route[x][said[m.number].from] = y
    /\ m.type \in {"NJOIN", "STOPIC", "SMODE"} => x \in Late /\ peers[x] = {y}
    /\ m.type = "NJOIN" =>
          /\ \A u \in m.users : Route[x][Home[u]] = y
          /\ m.operators \subseteq m.users /\ m.moderators \subseteq m.users
          /\ m.glued => \E c, d \in Chans : c # d

\* The number of m is the one of what was said.
Refers(m) ==
    /\ m.type \in Numbered => m.number \in DOMAIN said
    /\ m.type \in {"SAY", "TELL"} => said[m.number].from = m.who
    /\ m.type = "SAY" => said[m.number].readers \subseteq Users \ {m.who}
    /\ m.type = "TELL" => said[m.number].to = m.whom
    /\ m.type = "ASK" => said[m.number].from = m.server /\ said[m.number].readers \subseteq {m.who}
    /\ m.type \in {"TELL", "ANSWER"} => said[m.number].readers \subseteq {m.whom}
    /\ m.type = "KICK" => <<m.whom, m.chan>> \in apart

Traffic ==
    \A y, x \in Servers : \A m \in ToSet(queue[y][x]) : Fits(m, y, x) /\ Refers(m)

IInv == TypeInv /\ Peered /\ Connected /\ UsersFit /\ Traffic

-----------------------------------------------------------------------------
(* The tree of links. *)

LEMMA NextHop ==
    ASSUME NEW x \in Servers, NEW z \in Servers
    PROVE  /\ Route[x][z] \in Servers
           /\ Route[x][z] = x <=> z = x
           /\ Route[x][Route[x][z]] = Route[x][z]
BY RouteAssumption

LEMMA Neighbours ==
    ASSUME NEW x \in Servers, NEW y \in Servers, Route[x][y] = y
    PROVE  Route[y][x] = x
BY RouteAssumption

\* What is reached by y is not reached by x from y, and the other way round.
LEMMA OneSide ==
    ASSUME NEW x \in Servers, NEW y \in Servers, NEW z \in Servers, y # x, Route[x][y] = y
    PROVE  Route[x][z] = y <=> Route[y][z] # x
BY TreeAssumption

\* Both ends of a link are reached the same way.
LEMMA SameWay ==
    ASSUME NEW x \in Servers, NEW y \in Servers, NEW z \in Servers, y # x, Route[x][y] = y,
           z # x, z # y
    PROVE  Route[z][x] = Route[z][y]
BY TreeAssumption

\* What comes to x from y goes on to w, away from where it came from.
LEMMA Onward ==
    ASSUME NEW x \in Servers, NEW y \in Servers, NEW w \in Servers, NEW h \in Servers,
           Route[x][h] = y, w # y, w # x, Route[x][w] = w
    PROVE  Route[w][h] = x
BY OneSide

-----------------------------------------------------------------------------
(* Messages. *)

\* What the fields of a message are, by its type.
LEMMA Fields ==
    ASSUME NEW m \in Msg
    PROVE  /\ m.type \in Outward \cup {"TOPIC"} => m.who \in Users
           /\ m.type \in {"JOIN", "PART", "QUERY", "KICK", "FLAG", "RIGHT", "TOPIC", "SAY",
                          "NJOIN", "STOPIC", "SMODE"} => m.chan \in Chans
           /\ m.type \in {"KICK", "RIGHT", "TELL", "ANSWER"} => m.whom \in Users
           /\ m.type \in Numbered => m.number \in Nat
           /\ m.type = "ASK" => m.server \in Servers
           /\ m.type = "NICK" => m = NICKof(m.who)
           /\ m.type = "QUIT" => m = QUITof(m.who)
           /\ m.type = "JOIN" => m = JOINof(m.who, m.chan)
           /\ m.type = "PART" => m = PARTof(m.who, m.chan)
           /\ m.type \in {"FLAG", "RIGHT"} => m.on \in BOOLEAN
           /\ m.type = "FLAG" => m.mode \in Modes
           /\ m.type = "RIGHT" => m.mode \in Rights
           /\ m.type \in {"TOPIC", "STOPIC"} => m.topic \in Topics \cup {None}
           /\ m.type = "SMODE" => m.modes \subseteq Modes
           /\ m.type = "NJOIN" => m.users \subseteq Users /\ m.operators \subseteq Users
                                  /\ m.moderators \subseteq Users
           /\ m.type \in Outward \cup {"TOPIC", "ANSWER", "NJOIN", "STOPIC", "SMODE"}
BY DEF Msg, Outward, Numbered, NICKof, QUITof, JOINof, PARTof

\* The messages that are made.
LEMMA UserMessages ==
    ASSUME NEW u \in Users
    PROVE  /\ NICKof(u) \in Msg /\ NICKof(u).type = "NICK" /\ NICKof(u).who = u
           /\ QUITof(u) \in Msg /\ QUITof(u).type = "QUIT" /\ QUITof(u).who = u
BY DEF Msg, NICKof, QUITof

LEMMA MemberMessages ==
    ASSUME NEW u \in Users, NEW c \in Chans
    PROVE  /\ JOINof(u, c) \in Msg /\ JOINof(u, c).type = "JOIN"
           /\ JOINof(u, c).who = u /\ JOINof(u, c).chan = c
           /\ PARTof(u, c) \in Msg /\ PARTof(u, c).type = "PART"
           /\ PARTof(u, c).who = u /\ PARTof(u, c).chan = c
           /\ QUERYof(u, c) \in Msg /\ QUERYof(u, c).type = "QUERY"
           /\ QUERYof(u, c).who = u /\ QUERYof(u, c).chan = c
BY DEF Msg, JOINof, PARTof, QUERYof

LEMMA KickMessage ==
    ASSUME NEW u \in Users, NEW v \in Users, NEW c \in Chans
    PROVE  /\ KICKof(u, v, c) \in Msg /\ KICKof(u, v, c).type = "KICK"
           /\ KICKof(u, v, c).who = u /\ KICKof(u, v, c).chan = c /\ KICKof(u, v, c).whom = v
BY DEF Msg, KICKof

LEMMA FlagMessage ==
    ASSUME NEW u \in Users, NEW c \in Chans, NEW m \in Modes, NEW on \in BOOLEAN
    PROVE  /\ FLAGof(u, c, m, on) \in Msg /\ FLAGof(u, c, m, on).type = "FLAG"
           /\ FLAGof(u, c, m, on).who = u
BY DEF Msg, FLAGof

LEMMA RightMessage ==
    ASSUME NEW u \in Users, NEW c \in Chans, NEW r \in Rights, NEW on \in BOOLEAN, NEW v \in Users
    PROVE  /\ RIGHTof(u, c, r, on, v) \in Msg /\ RIGHTof(u, c, r, on, v).type = "RIGHT"
           /\ RIGHTof(u, c, r, on, v).who = u
BY DEF Msg, RIGHTof

LEMMA TopicMessage ==
    ASSUME NEW u \in Users, NEW c \in Chans, NEW t \in Topics \cup {None}
    PROVE  TOPICof(u, c, t) \in Msg /\ TOPICof(u, c, t).type = "TOPIC"
BY DEF Msg, TOPICof

LEMMA SayMessage ==
    ASSUME NEW u \in Users, NEW c \in Chans, NEW n \in Nat
    PROVE  /\ SAYof(u, c, n) \in Msg /\ SAYof(u, c, n).type = "SAY"
           /\ SAYof(u, c, n).who = u /\ SAYof(u, c, n).chan = c /\ SAYof(u, c, n).number = n
BY DEF Msg, SAYof

LEMMA TellMessage ==
    ASSUME NEW u \in Users, NEW v \in Users, NEW n \in Nat
    PROVE  /\ TELLof(u, v, n) \in Msg /\ TELLof(u, v, n).type = "TELL"
           /\ TELLof(u, v, n).who = u /\ TELLof(u, v, n).whom = v /\ TELLof(u, v, n).number = n
BY DEF Msg, TELLof

LEMMA AskMessage ==
    ASSUME NEW u \in Users, NEW z \in Servers, NEW n \in Nat
    PROVE  /\ ASKof(u, z, n) \in Msg /\ ASKof(u, z, n).type = "ASK"
           /\ ASKof(u, z, n).who = u /\ ASKof(u, z, n).server = z /\ ASKof(u, z, n).number = n
BY DEF Msg, ASKof

LEMMA AnswerMessage ==
    ASSUME NEW v \in Users, NEW n \in Nat
    PROVE  /\ ANSWERof(v, n) \in Msg /\ ANSWERof(v, n).type = "ANSWER"
           /\ ANSWERof(v, n).whom = v /\ ANSWERof(v, n).number = n
BY DEF Msg, ANSWERof

-----------------------------------------------------------------------------
(* What is sent and taken. *)

LEMMA AppendIs ==
    ASSUME NEW q \in Seq(Msg), NEW m \in Msg
    PROVE  /\ Append(q, m) \in Seq(Msg) /\ Append(q, m) # <<>>
           /\ Len(q) \in Nat /\ DOMAIN q = 1..Len(q)
           /\ Len(Append(q, m)) = Len(q) + 1 /\ DOMAIN Append(q, m) = 1..(Len(q) + 1)
           /\ \A i \in DOMAIN q : Append(q, m)[i] = q[i]
           /\ Append(q, m)[Len(q) + 1] = m
           /\ ToSet(Append(q, m)) = ToSet(q) \cup {m}
<1>1. /\ Append(q, m) \in Seq(Msg) /\ Len(Append(q, m)) = Len(q) + 1
      /\ \A i \in 1..Len(q) : Append(q, m)[i] = q[i]
      /\ Append(q, m)[Len(q) + 1] = m
  BY AppendProperties
<1>2. Len(q) \in Nat /\ DOMAIN q = 1..Len(q) /\ DOMAIN Append(q, m) = 1..Len(Append(q, m))
  BY <1>1, LenProperties
<1>3. Append(q, m) # <<>>
  BY <1>1, <1>2, EmptySeq
<1>4. ToSet(Append(q, m)) = ToSet(q) \cup {m}
  <2>1. \A i \in 1..(Len(q) + 1) : i \in 1..Len(q) \/ i = Len(q) + 1
    BY <1>2
  <2>2. Len(q) + 1 \in 1..(Len(q) + 1) /\ 1..Len(q) \subseteq 1..(Len(q) + 1)
    BY <1>2
  <2> QED BY <1>1, <1>2, <2>1, <2>2 DEF ToSet
<1> QED BY <1>1, <1>2, <1>3, <1>4

LEMMA TailIs ==
    ASSUME NEW q \in Seq(Msg), q # <<>>
    PROVE  /\ Head(q) \in Msg /\ Tail(q) \in Seq(Msg) /\ Head(q) = q[1] /\ 1 \in DOMAIN q
           /\ Len(q) \in Nat \ {0} /\ DOMAIN q = 1..Len(q)
           /\ Len(Tail(q)) = Len(q) - 1 /\ DOMAIN Tail(q) = 1..(Len(q) - 1)
           /\ \A i \in DOMAIN Tail(q) : i + 1 \in DOMAIN q /\ Tail(q)[i] = q[i + 1]
           /\ Head(q) \in ToSet(q) /\ ToSet(Tail(q)) \subseteq ToSet(q)
<1>1. /\ Head(q) \in Msg /\ Tail(q) \in Seq(Msg) /\ Len(Tail(q)) = Len(q) - 1
      /\ \A i \in 1..Len(Tail(q)) : Tail(q)[i] = q[i + 1]
  BY HeadTailProperties
<1>2. DOMAIN q = 1..Len(q) /\ DOMAIN Tail(q) = 1..(Len(q) - 1) /\ Len(q) \in Nat \ {0}
  BY <1>1, LenProperties, EmptySeq
<1>3. Head(q) = q[1] /\ 1 \in DOMAIN q
  BY <1>2
<1>4. \A i \in DOMAIN Tail(q) : i + 1 \in DOMAIN q /\ Tail(q)[i] = q[i + 1]
  BY <1>1, <1>2
<1>5. Head(q) \in ToSet(q) /\ ToSet(Tail(q)) \subseteq ToSet(q)
  BY <1>3, <1>4 DEF ToSet
<1> QED BY <1>1, <1>2, <1>3, <1>4, <1>5

LEMMA SentEffect ==
    ASSUME NEW q \in Queues, NEW x \in Servers, NEW S, NEW m \in Msg
    PROVE  /\ Sent(q, x, S, m) \in Queues
           /\ \A a, b \in Servers :
                 Sent(q, x, S, m)[a][b] = IF a = x /\ b \in S THEN Append(q[a][b], m) ELSE q[a][b]
           /\ S = {} => Sent(q, x, S, m) = q
<1>1. \A b \in Servers : q[x][b] \in Seq(Msg) /\ Append(q[x][b], m) \in Seq(Msg)
  BY AppendIs DEF Queues
<1>2. [y \in Servers |-> IF y \in S THEN Append(q[x][y], m) ELSE q[x][y]] \in [Servers -> Seq(Msg)]
  BY <1>1
<1>3. Sent(q, x, S, m) \in Queues
  BY <1>2 DEF Queues, Sent
<1>4. \A a, b \in Servers :
         Sent(q, x, S, m)[a][b] = IF a = x /\ b \in S THEN Append(q[a][b], m) ELSE q[a][b]
  BY DEF Queues, Sent
<1>5. S = {} => Sent(q, x, S, m) = q
  BY <1>3, <1>4 DEF Queues
<1> QED BY <1>3, <1>4, <1>5

LEMMA TakenEffect ==
    ASSUME TypeInv, NEW x \in Servers, NEW y \in Servers, queue[y][x] # <<>>
    PROVE  /\ Taken(x, y) \in Queues
           /\ \A a, b \in Servers :
                 Taken(x, y)[a][b] = IF a = y /\ b = x THEN Tail(queue[a][b]) ELSE queue[a][b]
           /\ Head(queue[y][x]) \in Msg
<1>1. queue \in Queues /\ queue[y][x] \in Seq(Msg)
  BY DEF TypeInv, Queues
<1>2. Tail(queue[y][x]) \in Seq(Msg) /\ Head(queue[y][x]) \in Msg
  BY <1>1, TailIs
<1> QED BY <1>1, <1>2 DEF Queues, Taken

\* x takes the first message from y, or handles a command (take), and sends m
\* to the servers of S.
Transfer(x, y, take, S, m) ==
    /\ x \in Servers /\ y \in Servers /\ take \in BOOLEAN
    /\ S \subseteq peers[x] /\ m \in Msg
    /\ take => queue[y][x] # <<>>
    /\ queue' = Sent(IF take THEN Taken(x, y) ELSE queue, x, S, m)
    /\ peers' = peers

LEMMA TransferEffect ==
    ASSUME TypeInv, Peered, NEW x, NEW y, NEW take, NEW S, NEW m, Transfer(x, y, take, S, m)
    PROVE  /\ queue' \in Queues
           /\ \A a, b \in Servers :
                 queue'[a][b] = IF a = x /\ b \in S THEN Append(queue[a][b], m)
                                ELSE IF take /\ a = y /\ b = x THEN Tail(queue[a][b])
                                ELSE queue[a][b]
<1> DEFINE q == IF take THEN Taken(x, y) ELSE queue
<1>1. q \in Queues
  BY TakenEffect DEF Transfer, TypeInv
<1>2. \A a, b \in Servers :
         q[a][b] = IF take /\ a = y /\ b = x THEN Tail(queue[a][b]) ELSE queue[a][b]
  BY TakenEffect DEF Transfer, TypeInv
<1>3. queue' = Sent(q, x, S, m) /\ x \in Servers /\ m \in Msg
  BY DEF Transfer
<1> HIDE DEF q
<1>4. /\ queue' \in Queues
      /\ \A a, b \in Servers : queue'[a][b] = IF a = x /\ b \in S THEN Append(q[a][b], m) ELSE q[a][b]
  BY <1>1, <1>3, SentEffect
<1>5. \A b \in S : b # x
  BY DEF Transfer, Peered
<1> QED BY <1>2, <1>4, <1>5

\* What was said stays, but who is expected to hear it.
SaidKept ==
    /\ DOMAIN said \subseteq DOMAIN said'
    /\ \A n \in DOMAIN said : said'[n].from = said[n].from /\ said'[n].to = said[n].to
                           /\ said'[n].readers \subseteq said[n].readers
    /\ apart \subseteq apart'

LEMMA SaidStays ==
    ASSUME UNCHANGED history
    PROVE  SaidKept
BY DEF SaidKept, history

LEMMA StillFits ==
    ASSUME peers' = peers, SaidKept, NEW m, NEW y, NEW x, Fits(m, y, x), Refers(m)
    PROVE  Fits(m, y, x)' /\ Refers(m)'
<1>1. Refers(m)'
  BY DEF Refers, SaidKept, Numbered
<1>2. m.type = "ANSWER" => m.number \in DOMAIN said
  BY DEF Refers, Numbered
<1>3. Up(Home[m.who])' = Up(Home[m.who]) /\ Up(Home[m.whom])' = Up(Home[m.whom]) /\ Up(m.server)' = Up(m.server)
  BY DEF Up
<1>4. m.type = "ANSWER" => said'[m.number].from = said[m.number].from
  BY <1>2 DEF SaidKept
<1>5. Fits(m, y, x)'
  BY <1>3, <1>4 DEF Fits
<1> QED BY <1>1, <1>5

\* A transfer leaves links and queues as they have to be, if m may go where it
\* is sent to.
LEMMA TransferKeeps ==
    ASSUME IInv, NEW x, NEW y, NEW take, NEW S, NEW m, Transfer(x, y, take, S, m), SaidKept,
           Refers(m)', \A w \in S : Fits(m, x, w)'
    PROVE  queue' \in Queues /\ Peered' /\ Connected' /\ Traffic'
<1>1. /\ queue' \in Queues /\ queue \in Queues
      /\ \A a, b \in Servers :
            queue'[a][b] = IF a = x /\ b \in S THEN Append(queue[a][b], m)
                           ELSE IF take /\ a = y /\ b = x THEN Tail(queue[a][b])
                           ELSE queue[a][b]
  BY TransferEffect DEF IInv, TypeInv
<1>2. m \in Msg /\ peers' = peers /\ S \subseteq peers[x]
  BY DEF Transfer
<1>3. Peered'
  <2> SUFFICES ASSUME NEW a \in Servers, NEW b \in Servers, queue'[a][b] # <<>>
               PROVE  b \in peers[a]
    BY <1>2 DEF Peered, IInv
  <2>1. CASE a = x /\ b \in S
    BY <1>2, <2>1
  <2>2. CASE ~(a = x /\ b \in S)
    <3>1. queue[a][b] \in Seq(Msg)
      BY <1>1 DEF Queues
    <3>2. CASE queue[a][b] = <<>>
      <4>1. ~(take /\ a = y /\ b = x)
        BY <3>2 DEF Transfer
      <4> QED BY <1>1, <2>2, <3>2, <4>1
    <3> QED BY <3>2 DEF Peered, IInv
  <2> QED BY <2>1, <2>2
<1>4. Connected'
  BY <1>2 DEF IInv, Connected, Up
<1>5. Traffic'
  <2> SUFFICES ASSUME NEW a \in Servers, NEW b \in Servers, NEW o \in ToSet(queue'[a][b])
               PROVE  Fits(o, a, b)' /\ Refers(o)'
    BY DEF Traffic
  <2>1. queue[a][b] \in Seq(Msg)
    BY <1>1 DEF Queues
  <2>2. CASE o \in ToSet(queue[a][b])
    <3>1. Fits(o, a, b) /\ Refers(o)
      BY <2>2 DEF IInv, Traffic
    <3> QED BY <1>2, <3>1, StillFits
  <2>3. CASE a = x /\ b \in S
    <3>1. queue'[a][b] = Append(queue[a][b], m)
      BY <1>1, <2>3
    <3>2. o \in ToSet(queue[a][b]) \/ o = m
      BY <1>2, <2>1, <3>1, AppendIs
    <3> QED BY <2>2, <2>3, <3>2
  <2>4. CASE ~(a = x /\ b \in S) /\ take /\ a = y /\ b = x
    <3>1. queue'[a][b] = Tail(queue[a][b]) /\ queue[a][b] # <<>>
      BY <1>1, <2>4 DEF Transfer
    <3> QED BY <2>1, <2>2, <3>1, TailIs
  <2>5. CASE ~(a = x /\ b \in S) /\ ~(take /\ a = y /\ b = x)
    <3>1. queue'[a][b] = queue[a][b]
      BY <1>1, <2>5
    <3> QED BY <2>2, <3>1
  <2> QED BY <2>3, <2>4, <2>5
<1> QED BY <1>1, <1>3, <1>4, <1>5

\* All that is left to show of a transfer.
LEMMA Kept ==
    ASSUME IInv, queue' \in Queues, Peered', Connected', Traffic', peers' = peers,
           ViewsTyped', UsersFit', HistoryTyped',
           status' \in {"running", "terminated", "undefined"},
           given' = given \/ (given < MaxCommands /\ given' = given + 1)
    PROVE  IInv'
<1>1. given' \in 0..MaxCommands
  BY BoundAssumption DEF IInv, TypeInv
<1> QED BY <1>1 DEF IInv, TypeInv

LEMMA FitsStays ==
    ASSUME peers' = peers, NEW m, NEW y, NEW x, Fits(m, y, x), m.type # "ANSWER"
    PROVE  Fits(m, y, x)'
BY DEF Fits, Up

\* What the server of u sends on its behalf.
LEMMA CommandFits ==
    ASSUME IInv, NEW u \in Users, Up(Home[u]), NEW w \in peers[Home[u]],
           NEW m \in Msg, m.type \in Plain, m.who = u
    PROVE  Fits(m, Home[u], w)
<1>1. Home[u] \in Servers /\ w \in Servers /\ Route[Home[u]][w] = w
  BY HomeAssumption DEF IInv, TypeInv, Peered
<1>2. Route[w][Home[u]] = Home[u]
  BY <1>1, Neighbours
<1> QED BY <1>2 DEF Fits, Plain, Outward

\* What is passed on.
LEMMA PassedFits ==
    ASSUME IInv, NEW x \in Servers, NEW y \in peers[x], NEW w \in peers[x] \ {y},
           NEW m \in Msg, m.type \in Plain, Fits(m, y, x),
           NEW o \in Msg, o.type \in Plain, o.who = m.who
    PROVE  Fits(o, x, w)
<1>1. /\ y \in Servers /\ w \in Servers /\ w # x /\ Route[x][w] = w
      /\ m.who \in Users /\ Home[m.who] \in Servers
  BY Fields, HomeAssumption DEF IInv, TypeInv, Peered, Plain
<1>2. Route[x][Home[m.who]] = y /\ Up(Home[m.who])
  BY DEF Fits, Plain
<1>3. Route[w][Home[m.who]] = x
  BY <1>1, <1>2, Onward
<1> QED BY <1>2, <1>3 DEF Fits, Plain, Outward

\* The first message of a link.
LEMMA FirstMessage ==
    ASSUME IInv, NEW x \in Servers, NEW y \in Servers, queue[y][x] # <<>>
    PROVE  /\ Head(queue[y][x]) \in Msg /\ Fits(Head(queue[y][x]), y, x) /\ Refers(Head(queue[y][x]))
           /\ queue[y][x] \in Seq(Msg)
           /\ y \in peers[x] /\ x \in peers[y] /\ y # x /\ Route[x][y] = y /\ Route[y][x] = x
<1>1. queue[y][x] \in Seq(Msg)
  BY DEF IInv, TypeInv, Queues
<1>2. Head(queue[y][x]) \in Msg /\ Head(queue[y][x]) \in ToSet(queue[y][x])
  BY <1>1, TailIs
<1>3. x \in peers[y] /\ y \in peers[x] /\ y # x /\ Route[x][y] = y /\ Route[y][x] = x
  BY DEF IInv, Peered
<1> QED BY <1>1, <1>2, <1>3 DEF IInv, Traffic

LEMMA CommandKeeps ==
    ASSUME IInv, NEW u \in Users, Up(Home[u]), NEW m \in Msg, m.type \in Plain, m.who = u,
           queue' = Sent(queue, Home[u], peers[Home[u]], m), peers' = peers, SaidKept, Refers(m)'
    PROVE  /\ queue' \in Queues /\ Peered' /\ Connected' /\ Traffic'
           /\ Transfer(Home[u], Home[u], FALSE, peers[Home[u]], m)
<1>1. Transfer(Home[u], Home[u], FALSE, peers[Home[u]], m)
  BY HomeAssumption DEF Transfer
<1>2. ASSUME NEW w \in peers[Home[u]] PROVE Fits(m, Home[u], w)'
  <2>1. Fits(m, Home[u], w) /\ m.type # "ANSWER"
    BY CommandFits DEF Plain, Outward
  <2> QED BY <2>1, FitsStays
<1> QED BY <1>1, <1>2, TransferKeeps

LEMMA PassedKeeps ==
    ASSUME IInv, NEW x \in Servers, NEW y \in Servers, queue[y][x] # <<>>,
           Head(queue[y][x]).type \in Plain,
           NEW o \in Msg, o.type \in Plain, o.who = Head(queue[y][x]).who,
           queue' = Passed(x, y, o), peers' = peers, SaidKept, Refers(o)'
    PROVE  /\ queue' \in Queues /\ Peered' /\ Connected' /\ Traffic'
           /\ Transfer(x, y, TRUE, Others(x, y), o)
<1>1. Transfer(x, y, TRUE, Others(x, y), o)
  BY DEF Transfer, Passed, Others
<1>2. ASSUME NEW w \in Others(x, y) PROVE Fits(o, x, w)'
  <2>1. w \in peers[x] \ {y} /\ y \in peers[x] /\ o.type # "ANSWER"
    BY FirstMessage DEF Plain, Outward, Others
  <2>2. Fits(o, x, w)
    BY <2>1, FirstMessage, PassedFits
  <2> QED BY <2>1, <2>2, FitsStays
<1> QED BY <1>1, <1>2, TransferKeeps

LEMMA TakenKeeps ==
    ASSUME IInv, NEW x \in Servers, NEW y \in Servers, queue[y][x] # <<>>,
           NEW m \in Msg, m = Head(queue[y][x]),
           queue' = Taken(x, y), peers' = peers, SaidKept
    PROVE  /\ queue' \in Queues /\ Peered' /\ Connected' /\ Traffic'
           /\ Transfer(x, y, TRUE, {}, m)
<1>1. Taken(x, y) \in Queues
  BY TakenEffect DEF IInv
<1>2. Transfer(x, y, TRUE, {}, m)
  BY <1>1, SentEffect DEF Transfer
<1>3. Refers(m)'
  BY FirstMessage, StillFits
<1>4. PICK S : S = {}
  OBVIOUS
<1>5. \A w \in S : Fits(m, x, w)'
  BY <1>4
<1>6. Transfer(x, y, TRUE, S, m)
  BY <1>2, <1>4
<1>7. queue' \in Queues /\ Peered' /\ Connected' /\ Traffic'
  BY <1>3, <1>5, <1>6, TransferKeeps
<1> QED BY <1>2, <1>7

\* The end of a process.
LEMMA HaltKeeps ==
    ASSUME IInv, UNCHANGED <<peers, given, views, queue, history>>,
           status' \in {"terminated", "undefined"}
    PROVE  IInv'
<1>1. /\ queue' = queue /\ peers' = peers /\ usr' = usr /\ channels' = channels /\ chan_of' = chan_of
      /\ said' = said /\ heard' = heard /\ apart' = apart /\ given' = given
  BY DEF views, history
<1>2. TypeInv'
  BY <1>1 DEF IInv, TypeInv, ViewsTyped, HistoryTyped
<1>3. Peered' /\ Connected' /\ UsersFit'
  BY <1>1 DEF IInv, Peered, Connected, UsersFit, Up
<1>4. SaidKept
  BY SaidStays
<1>5. Traffic'
  <2> SUFFICES ASSUME NEW b \in Servers, NEW a \in Servers, NEW m \in ToSet(queue[b][a])
               PROVE  Fits(m, b, a)' /\ Refers(m)'
    BY <1>1 DEF Traffic
  <2>1. Fits(m, b, a) /\ Refers(m)
    BY DEF IInv, Traffic
  <2> QED BY <1>1, <1>4, <2>1, StillFits
<1> QED BY <1>2, <1>3, <1>5 DEF IInv

-----------------------------------------------------------------------------
(* What a server knows of channels. *)

LEMMA MapIs ==
    ASSUME NEW D \in SUBSET Chans, NEW f, f = [d \in D |-> f[d]], \A d \in D : f[d] \in Channel
    PROVE  f \in ChannelMaps /\ DOMAIN f = D
<1>1. f \in [D -> Channel]
  OBVIOUS
<1> QED BY <1>1 DEF ChannelMaps

LEMMA ChannelAt ==
    ASSUME ViewsTyped, NEW x \in Servers
    PROVE  /\ channels[x] \in ChannelMaps /\ DOMAIN channels[x] \in SUBSET Chans
           /\ channels[x] = [d \in DOMAIN channels[x] |-> channels[x][d]]
           /\ \A d \in DOMAIN channels[x] : channels[x][d] \in Channel
<1>1. channels[x] \in ChannelMaps
  BY DEF ViewsTyped
<1>2. PICK D \in SUBSET Chans : channels[x] \in [D -> Channel]
  BY <1>1 DEF ChannelMaps
<1> QED BY <1>1, <1>2

LEMMA NewChannelTyped ==
    ASSUME NEW us \in SUBSET Users, NEW os \in SUBSET Users, NEW vs \in SUBSET Users
    PROVE  NewChannel(us, os, vs) \in Channel /\ NewChannel(us, os, vs).users = us
BY DEF NewChannel, Channel

LEMMA PutEffect ==
    ASSUME ViewsTyped, NEW x \in Servers, NEW c \in Chans, NEW ch \in Channel, Put(x, c, ch)
    PROVE  /\ channels' \in [Servers -> ChannelMaps]
           /\ DOMAIN channels'[x] = DOMAIN channels[x] \cup {c} /\ channels'[x][c] = ch
           /\ \A d \in DOMAIN channels[x] \ {c} : channels'[x][d] = channels[x][d]
           /\ \A a \in Servers \ {x} : channels'[a] = channels[a]
<1> DEFINE D == DOMAIN channels[x] \cup {c}
           f == [d \in D |-> IF d = c THEN ch ELSE channels[x][d]]
<1>1. D \in SUBSET Chans /\ \A d \in D : f[d] \in Channel
  BY ChannelAt
<1>2. f = [d \in D |-> f[d]]
  OBVIOUS
<1>3. f \in ChannelMaps
  <2> HIDE DEF D, f
  <2> QED BY <1>1, <1>2, MapIs
<1>4. channels' = [channels EXCEPT ![x] = f]
  BY DEF Put
<1> QED BY <1>3, <1>4 DEF ViewsTyped

\* Who has become a member.
Joins(x, U, c) ==
    \A a \in Servers, v \in Users, d \in Chans :
        Member(a, v, d)' <=> Member(a, v, d) \/ (a = x /\ v \in U /\ d = c)

Leaves(x, u, S) ==
    \A a \in Servers, v \in Users, d \in Chans :
        Member(a, v, d)' <=> Member(a, v, d) /\ ~(a = x /\ v = u /\ d \in S)

MembersStay ==
    \A a \in Servers, v \in Users, d \in Chans : Member(a, v, d)' <=> Member(a, v, d)

LEMMA EnterEffect ==
    ASSUME ViewsTyped, NEW x \in Servers, NEW u \in Users, NEW c \in Chans, Enter(x, u, c), usr' = usr
    PROVE  /\ ViewsTyped' /\ Joins(x, {u}, c)
           /\ \A a \in Servers, v \in Users :
                 chan_of'[a][v] = IF a = x /\ v = u THEN chan_of[a][v] \cup {c} ELSE chan_of[a][v]
<1> DEFINE ch == IF Exists(x, c) THEN [channels[x][c] EXCEPT !.users = @ \cup {u}]
                 ELSE NewChannel({u}, {u}, {})
<1>1. ch \in Channel
  <2>1. Exists(x, c) => channels[x][c] \in Channel
    BY ChannelAt DEF Exists
  <2>2. NewChannel({u}, {u}, {}) \in Channel
    BY NewChannelTyped
  <2> QED BY <2>1, <2>2 DEF Channel
<1>2. ch.users = IF Exists(x, c) THEN channels[x][c].users \cup {u} ELSE {u}
  <2>1. Exists(x, c) => channels[x][c] \in Channel
    BY ChannelAt DEF Exists
  <2>2. NewChannel({u}, {u}, {}).users = {u}
    BY NewChannelTyped
  <2> QED BY <2>1, <2>2 DEF Channel
<1>3. Put(x, c, ch)
  BY DEF Enter
<1> HIDE DEF ch
<1>4. Joins(x, {u}, c)
  BY <1>1, <1>2, <1>3, PutEffect DEF Joins, Member, Exists
<1>5. chan_of' = [chan_of EXCEPT ![x][u] = @ \cup {c}]
  BY DEF Enter
<1>6. /\ chan_of' \in [Servers -> [Users -> SUBSET Chans]]
      /\ \A a \in Servers, v \in Users :
            chan_of'[a][v] = IF a = x /\ v = u THEN chan_of[a][v] \cup {c} ELSE chan_of[a][v]
  BY <1>5 DEF ViewsTyped
<1>7. ViewsTyped'
  BY <1>1, <1>3, <1>6, PutEffect DEF ViewsTyped
<1> QED BY <1>4, <1>6, <1>7

LEMMA LeaveEffect ==
    ASSUME ViewsTyped, NEW x \in Servers, NEW u \in Users, NEW S, S \subseteq Chans, Leave(x, u, S),
           usr' \in [Servers -> [Users -> Servers \cup {None}]]
    PROVE  /\ ViewsTyped' /\ Leaves(x, u, S)
           /\ \A a \in Servers, v \in Users :
                 chan_of'[a][v] = IF a = x /\ v = u THEN chan_of[a][v] \ S ELSE chan_of[a][v]
<1> DEFINE D == DOMAIN channels[x] \ {d \in S : channels[x][d].users \subseteq {u}}
           f == [c \in D |-> IF c \in S THEN WithoutUser(u, channels[x][c]) ELSE channels[x][c]]
<1>1. /\ D \in SUBSET Chans
      /\ \A d \in D : f[d] \in Channel /\ f[d].users = IF d \in S THEN channels[x][d].users \ {u}
                                                       ELSE channels[x][d].users
  <2>1. D \subseteq DOMAIN channels[x] /\ D \in SUBSET Chans
    BY ChannelAt
  <2>2. \A d \in D : channels[x][d] \in Channel
    BY <2>1, ChannelAt
  <2> QED BY <2>1, <2>2 DEF Channel, WithoutUser
<1>2. f = [d \in D |-> f[d]]
  OBVIOUS
<1>3. f \in ChannelMaps
  <2> HIDE DEF D, f
  <2> QED BY <1>1, <1>2, MapIs
<1>4. channels' = [channels EXCEPT ![x] = f]
  BY DEF Leave
<1>5. /\ channels' \in [Servers -> ChannelMaps] /\ channels'[x] = f
      /\ \A a \in Servers \ {x} : channels'[a] = channels[a]
  BY <1>3, <1>4 DEF ViewsTyped
<1>6. DOMAIN f = D
  OBVIOUS
<1>7. Leaves(x, u, S)
  <2> SUFFICES ASSUME NEW a \in Servers, NEW v \in Users, NEW d \in Chans
               PROVE  Member(a, v, d)' <=> Member(a, v, d) /\ ~(a = x /\ v = u /\ d \in S)
    BY DEF Leaves
  <2>1. CASE a # x
    BY <1>5, <2>1 DEF Member, Exists
  <2>2. CASE a = x
    <3>1. Member(a, v, d)' <=> d \in D /\ v \in f[d].users
      BY <1>5, <1>6, <2>2 DEF Member, Exists
    <3>2. d \in D <=> d \in DOMAIN channels[x] /\ ~(d \in S /\ channels[x][d].users \subseteq {u})
      OBVIOUS
    <3> HIDE DEF D, f
    <3> QED BY <1>1, <2>2, <3>1, <3>2 DEF Member, Exists
  <2> QED BY <2>1, <2>2
<1>8. chan_of' = [chan_of EXCEPT ![x][u] = @ \ S]
  BY DEF Leave
<1>9. /\ chan_of' \in [Servers -> [Users -> SUBSET Chans]]
      /\ \A a \in Servers, v \in Users :
            chan_of'[a][v] = IF a = x /\ v = u THEN chan_of[a][v] \ S ELSE chan_of[a][v]
  BY <1>8 DEF ViewsTyped
<1> QED BY <1>5, <1>7, <1>9 DEF ViewsTyped

\* Whatever is changed of a channel but its users.
LEMMA PutSame ==
    ASSUME ViewsTyped, NEW x \in Servers, NEW c \in Chans, NEW ch \in Channel, Put(x, c, ch),
           Exists(x, c), ch.users = channels[x][c].users, usr' = usr, chan_of' = chan_of
    PROVE  ViewsTyped' /\ MembersStay
<1>1. /\ channels' \in [Servers -> ChannelMaps]
      /\ DOMAIN channels'[x] = DOMAIN channels[x] /\ channels'[x][c].users = channels[x][c].users
      /\ \A d \in DOMAIN channels[x] \ {c} : channels'[x][d] = channels[x][d]
      /\ \A a \in Servers \ {x} : channels'[a] = channels[a]
  BY PutEffect DEF Exists
<1>2. MembersStay
  <2> SUFFICES ASSUME NEW a \in Servers, NEW v \in Users, NEW d \in Chans
               PROVE  Member(a, v, d)' <=> Member(a, v, d)
    BY DEF MembersStay
  <2>1. DOMAIN channels'[a] = DOMAIN channels[a]
    BY <1>1
  <2>2. d \in DOMAIN channels[a] => channels'[a][d].users = channels[a][d].users
    BY <1>1
  <2> QED BY <2>1, <2>2 DEF Member, Exists
<1> QED BY <1>1, <1>2 DEF ViewsTyped

LEMMA SetFlagEffect ==
    ASSUME ViewsTyped, NEW x \in Servers, NEW c \in Chans, NEW m \in Modes, NEW on \in BOOLEAN,
           Exists(x, c), SetFlag(x, c, m, on)
    PROVE  ViewsTyped' /\ MembersStay /\ usr' = usr /\ chan_of' = chan_of
<1>1. channels[x][c] \in Channel
  BY ChannelAt DEF Exists
<1>2. PICK ch : ch = [channels[x][c] EXCEPT !.modes = Switch(@, m, on)]
  OBVIOUS
<1>3. ch \in Channel /\ ch.users = channels[x][c].users
  BY <1>1, <1>2 DEF Channel, Switch
<1>4. Put(x, c, ch) /\ usr' = usr /\ chan_of' = chan_of
  BY <1>2 DEF SetFlag
<1> QED BY <1>3, <1>4, PutSame

LEMMA SetRightEffect ==
    ASSUME ViewsTyped, NEW x \in Servers, NEW c \in Chans, NEW r, NEW on \in BOOLEAN,
           NEW v \in Users, Exists(x, c), SetRight(x, c, r, on, v)
    PROVE  ViewsTyped' /\ MembersStay /\ usr' = usr /\ chan_of' = chan_of
<1>1. channels[x][c] \in Channel
  BY ChannelAt DEF Exists
<1>2. PICK ch : ch = IF r = "o" THEN [channels[x][c] EXCEPT !.operators = Switch(@, v, on)]
                     ELSE [channels[x][c] EXCEPT !.moderators = Switch(@, v, on)]
  OBVIOUS
<1>3. ch \in Channel /\ ch.users = channels[x][c].users
  BY <1>1, <1>2 DEF Channel, Switch
<1>4. Put(x, c, ch) /\ usr' = usr /\ chan_of' = chan_of
  BY <1>2 DEF SetRight
<1> QED BY <1>3, <1>4, PutSame

LEMMA SetTopicEffect ==
    ASSUME ViewsTyped, NEW x \in Servers, NEW c \in Chans, NEW t \in Topics \cup {None},
           Exists(x, c), SetTopic(x, c, t)
    PROVE  ViewsTyped' /\ MembersStay /\ usr' = usr /\ chan_of' = chan_of
<1>1. channels[x][c] \in Channel
  BY ChannelAt DEF Exists
<1>2. PICK ch : ch = [channels[x][c] EXCEPT !.topic = t]
  OBVIOUS
<1>3. ch \in Channel /\ ch.users = channels[x][c].users
  BY <1>1, <1>2 DEF Channel
<1>4. Put(x, c, ch) /\ usr' = usr /\ chan_of' = chan_of
  BY <1>2 DEF SetTopic
<1> QED BY <1>3, <1>4, PutSame

LEMMA KickedEffect ==
    ASSUME ViewsTyped, NEW x \in Servers, NEW c \in Chans, NEW v \in Users,
           Exists(x, c), Kicked(x, v, c)
    PROVE  ViewsTyped' /\ Leaves(x, v, {c}) /\ usr' = usr /\ chan_of' = chan_of
<1>1. channels[x][c] \in Channel
  BY ChannelAt DEF Exists
<1>2. PICK ch : ch = [channels[x][c] EXCEPT !.users = @ \ {v}]
  OBVIOUS
<1>3. ch \in Channel /\ ch.users = channels[x][c].users \ {v}
  BY <1>1, <1>2 DEF Channel
<1>4. Put(x, c, ch) /\ usr' = usr /\ chan_of' = chan_of
  BY <1>2 DEF Kicked
<1> QED BY <1>3, <1>4, PutEffect DEF ViewsTyped, Leaves, Member, Exists

LEMMA SameViews ==
    ASSUME ViewsTyped, UNCHANGED views
    PROVE  ViewsTyped' /\ MembersStay /\ usr' = usr /\ chan_of' = chan_of
BY DEF views, ViewsTyped, MembersStay, Member, Exists

LEMMA TypesOfChannels ==
    ASSUME TypeInv PROVE TypeOK
<1>1. \A x \in Servers : DOMAIN channels[x] \subseteq Chans
                         /\ \A c \in DOMAIN channels[x] : channels[x][c] \in Channel
  BY ChannelAt DEF TypeInv
<1> QED BY <1>1 DEF TypeInv, TypeOK, ViewsTyped, HistoryTyped

-----------------------------------------------------------------------------
(* What was said and heard. *)

LEMMA HistoryStays ==
    ASSUME HistoryTyped, UNCHANGED history
    PROVE  HistoryTyped' /\ SaidKept
BY DEF HistoryTyped, SaidKept, history

LEMMA GoneEffect ==
    ASSUME HistoryTyped, NEW u \in Users, Gone(u), heard' = heard,
           apart' \subseteq Users \X Chans, apart \subseteq apart'
    PROVE  HistoryTyped' /\ SaidKept /\ DOMAIN said' = DOMAIN said
<1> DEFINE Saying == [from : Users \cup Servers, to : Users \cup Chans, readers : SUBSET Users]
<1>1. said \in Seq(Saying) /\ DOMAIN said = 1..Len(said) /\ Len(said) \in Nat
  BY LenProperties DEF HistoryTyped, Sayings
<1>2. \A i \in DOMAIN said : said[i] \in Saying
  BY <1>1, ElementOfSeq
<1>3. /\ DOMAIN said' = DOMAIN said
      /\ \A i \in DOMAIN said : /\ said'[i] \in Saying /\ said'[i].from = said[i].from
                                /\ said'[i].to = said[i].to
                                /\ said'[i].readers \subseteq said[i].readers
  BY <1>2 DEF Gone
<1>4. said' \in Seq(Saying)
  <2>1. said' = [i \in 1..Len(said) |-> said'[i]]
    BY <1>1 DEF Gone
  <2> QED BY <1>1, <1>3, <2>1, IsASeq
<1>5. SaidKept
  BY <1>3 DEF SaidKept
<1>6. said' \in Sayings
  BY <1>4 DEF Sayings
<1>7. \A i \in DOMAIN said' : said'[i].readers \subseteq Users
  BY <1>3 DEF HistoryTyped
<1>8. heard' \in [Users -> Seq(DOMAIN said')]
  BY <1>3 DEF HistoryTyped
<1> QED BY <1>3, <1>5, <1>6, <1>7, <1>8 DEF HistoryTyped

\* One more is said, from f to t and for those of R.
Says(f, t, R) == said' = Append(said, [from |-> f, to |-> t, readers |-> R])

LEMMA SaysEffect ==
    ASSUME HistoryTyped, NEW f \in Users \cup Servers, NEW t \in Users \cup Chans,
           NEW R \in SUBSET Users, Says(f, t, R), apart' = apart
    PROVE  /\ said' \in Sayings /\ SaidKept
           /\ \A i \in DOMAIN said' : said'[i].readers \subseteq Users
           /\ Len(said) + 1 \in Nat /\ Len(said) \in Nat
           /\ DOMAIN said' = DOMAIN said \cup {Len(said) + 1} /\ DOMAIN said = 1..Len(said)
           /\ said'[Len(said) + 1].from = f /\ said'[Len(said) + 1].to = t
           /\ said'[Len(said) + 1].readers = R
           /\ \A i \in DOMAIN said : said'[i] = said[i]
<1> DEFINE Saying == [from : Users \cup Servers, to : Users \cup Chans, readers : SUBSET Users]
           r == [from |-> f, to |-> t, readers |-> R]
<1>1. said \in Seq(Saying) /\ DOMAIN said = 1..Len(said) /\ Len(said) \in Nat
  BY LenProperties DEF HistoryTyped, Sayings
<1>2. r \in Saying /\ r.from = f /\ r.to = t /\ r.readers = R /\ said' = Append(said, r)
  BY DEF Says
<1> HIDE DEF r
<1>3. /\ said' \in Seq(Saying) /\ Len(said') = Len(said) + 1
      /\ \A i \in 1..Len(said) : said'[i] = said[i]
      /\ said'[Len(said) + 1] = r
  BY <1>1, <1>2, AppendProperties
<1>4. DOMAIN said' = 1..(Len(said) + 1)
  BY <1>3, LenProperties
<1>5. DOMAIN said' = DOMAIN said \cup {Len(said) + 1}
  BY <1>1, <1>4
<1>6. \A i \in DOMAIN said' : said'[i].readers \subseteq Users
  <2>1. \A i \in DOMAIN said : said'[i] = said[i]
    BY <1>1, <1>3
  <2> QED BY <1>2, <1>3, <1>5, <2>1 DEF HistoryTyped
<1>7. SaidKept
  BY <1>1, <1>3, <1>5 DEF SaidKept
<1> QED BY <1>1, <1>2, <1>3, <1>5, <1>6, <1>7 DEF Sayings

\* Some are sent number n.
Hear(U, n) == heard' = [v \in Users |-> IF v \in U THEN Append(heard[v], n) ELSE heard[v]]

LEMMA HearTyped ==
    ASSUME HistoryTyped, NEW U, NEW n \in DOMAIN said', DOMAIN said \subseteq DOMAIN said', Hear(U, n)
    PROVE  heard' \in [Users -> Seq(DOMAIN said')]
<1>1. ASSUME NEW v \in Users
      PROVE  heard[v] \in Seq(DOMAIN said') /\ Append(heard[v], n) \in Seq(DOMAIN said')
  <2>1. heard[v] \in Seq(DOMAIN said)
    BY DEF HistoryTyped
  <2>2. heard[v] \in Seq(DOMAIN said')
    BY <2>1, SeqMonotonic
  <2> QED BY <2>2, AppendProperties
<1> QED BY <1>1 DEF Hear

-----------------------------------------------------------------------------
(* The commands of clients keep the invariant. *)

LEMMA SameUsers ==
    ASSUME IInv, peers' = peers, usr' = usr
    PROVE  UsersFit'
BY DEF IInv, UsersFit, Up

LEMMA ServerOf ==
    ASSUME NEW u \in Users
    PROVE  Home[u] \in Servers /\ Home[u] # None /\ Route[Home[u]][Home[u]] = Home[u]
BY HomeAssumption, NoneAssumption, RouteAssumption

LEMMA GivesIs ==
    ASSUME IInv, NEW u \in Users, Gives(u)
    PROVE  /\ Up(Home[u]) /\ given < MaxCommands /\ given' = given + 1 /\ status = "running"
           /\ usr[Home[u]][u] = Home[u]
BY ServerOf DEF Gives, IInv, UsersFit

LEMMA NickKeeps ==
    ASSUME IInv, NEW u \in Users, NICK(u)
    PROVE  IInv' /\ Transfer(Home[u], Home[u], FALSE, peers[Home[u]], NICKof(u))
<1>1. PICK x \in Servers : x = Home[u]
  BY ServerOf
<1>2. /\ peers[x] # {} /\ usr' = [usr EXCEPT ![x][u] = x] /\ given < MaxCommands /\ given' = given + 1
      /\ queue' = Sent(queue, Home[u], peers[Home[u]], NICKof(u)) /\ peers' = peers
      /\ UNCHANGED <<channels, chan_of, status, history>>
  BY <1>1 DEF NICK
<1>3. Up(x)
  BY <1>2 DEF Up
<1>4. PICK m \in Msg : m = NICKof(u) /\ m.type \in Plain /\ m.who = u /\ m.type = "NICK"
  BY UserMessages DEF Plain, Outward
<1>5. SaidKept /\ HistoryTyped'
  BY <1>2, HistoryStays DEF IInv, TypeInv
<1>6. Refers(m)'
  BY <1>4 DEF Refers, Numbered
<1>7. /\ queue' \in Queues /\ Peered' /\ Connected' /\ Traffic'
      /\ Transfer(Home[u], Home[u], FALSE, peers[Home[u]], m)
  BY <1>1, <1>2, <1>3, <1>4, <1>5, <1>6, CommandKeeps
<1>8. ViewsTyped'
  BY <1>2 DEF ViewsTyped, IInv, TypeInv
<1>9. UsersFit'
  <2>1. \A a \in Servers, v \in Users : usr'[a][v] = IF a = x /\ v = u THEN x ELSE usr[a][v]
    BY <1>2 DEF IInv, TypeInv, ViewsTyped
  <2> QED BY <1>1, <1>2, <1>3, <2>1, ServerOf DEF IInv, UsersFit, Up
<1>10. IInv'
  BY <1>2, <1>5, <1>7, <1>8, <1>9, Kept DEF IInv, TypeInv
<1> QED BY <1>4, <1>7, <1>10

\* What remains to be shown of a command.
LEMMA GivenKeeps ==
    ASSUME IInv, NEW u \in Users, Gives(u), NEW m \in Msg, m.type \in Plain, m.who = u,
           queue' = Sent(queue, Home[u], peers[Home[u]], m), peers' = peers, SaidKept, Refers(m)', ViewsTyped', UsersFit', HistoryTyped',
           status' \in {"running", "terminated", "undefined"}
    PROVE  IInv' /\ Transfer(Home[u], Home[u], FALSE, peers[Home[u]], m)
<1>1. Up(Home[u]) /\ given < MaxCommands /\ given' = given + 1
  BY GivesIs
<1>2. /\ queue' \in Queues /\ Peered' /\ Connected' /\ Traffic'
      /\ Transfer(Home[u], Home[u], FALSE, peers[Home[u]], m)
  BY <1>1, CommandKeeps
<1> QED BY <1>1, <1>2, Kept

LEMMA JoinKeeps ==
    ASSUME IInv, NEW u \in Users, NEW c \in Chans, JOIN(u, c)
    PROVE  IInv' /\ Transfer(Home[u], Home[u], FALSE, peers[Home[u]], JOINof(u, c))
<1>1. PICK x \in Servers : x = Home[u]
  BY ServerOf
<1>2. /\ Gives(u) /\ Enter(x, u, c) /\ queue' = Sent(queue, Home[u], peers[Home[u]], JOINof(u, c))
      /\ peers' = peers /\ usr' = usr /\ status' = status /\ UNCHANGED history
  BY <1>1 DEF JOIN
<1>3. PICK m \in Msg : m = JOINof(u, c) /\ m.type \in Plain /\ m.who = u /\ m.type = "JOIN"
  BY MemberMessages DEF Plain, Outward
<1>4. Refers(m)'
  BY <1>3 DEF Refers, Numbered
<1>5. HistoryTyped' /\ SaidKept
  BY <1>2, HistoryStays DEF IInv, TypeInv
<1>6. ViewsTyped'
  BY <1>2, EnterEffect DEF IInv, TypeInv
<1>7. UsersFit'
  BY <1>2, SameUsers
<1>8. status' \in {"running", "terminated", "undefined"}
  BY <1>2 DEF IInv, TypeInv
<1> QED BY <1>2, <1>3, <1>4, <1>5, <1>6, <1>7, <1>8, GivenKeeps

LEMMA PartKeeps ==
    ASSUME IInv, NEW u \in Users, NEW c \in Chans, PART(u, c)
    PROVE  IInv' /\ Transfer(Home[u], Home[u], FALSE, peers[Home[u]], PARTof(u, c)) /\ SaidKept
<1>1. PICK x \in Servers : x = Home[u]
  BY ServerOf
<1>2. /\ Gives(u) /\ Leave(x, u, {c}) /\ queue' = Sent(queue, Home[u], peers[Home[u]], PARTof(u, c))
      /\ peers' = peers /\ usr' = usr /\ status' = status /\ Gone(u) /\ heard' = heard /\ apart' = apart
  BY <1>1 DEF PART
<1>3. PICK m \in Msg : m = PARTof(u, c) /\ m.type \in Plain /\ m.who = u /\ m.type = "PART"
  BY MemberMessages DEF Plain, Outward
<1>4. Refers(m)'
  BY <1>3 DEF Refers, Numbered
<1>5. HistoryTyped' /\ SaidKept
  BY <1>2, GoneEffect DEF IInv, TypeInv, HistoryTyped
<1>6. ViewsTyped'
  BY <1>2, LeaveEffect DEF IInv, TypeInv, ViewsTyped
<1>7. UsersFit'
  BY <1>2, SameUsers
<1>8. status' \in {"running", "terminated", "undefined"}
  BY <1>2 DEF IInv, TypeInv
<1> QED BY <1>2, <1>3, <1>4, <1>5, <1>6, <1>7, <1>8, GivenKeeps

\* An entry is removed, or what is not there is used.
LEMMA RemovedEffect ==
    ASSUME IInv, NEW x \in Servers, NEW u \in Users, Removed(x, u), peers' = peers,
           status = "running"
    PROVE  /\ ViewsTyped' /\ UsersFit' /\ status' \in {"running", "terminated", "undefined"}
           /\ status' = "running" =>
                 /\ chan_of[x][u] \in SUBSET Chans /\ Leaves(x, u, chan_of[x][u])
                 /\ \A a \in Servers, v \in Users :
                       /\ usr'[a][v] = IF a = x /\ v = u THEN None ELSE usr[a][v]
                       /\ chan_of'[a][v] = IF a = x /\ v = u THEN {} ELSE chan_of[a][v]
           /\ status' = "running" \/ (status' = "undefined" /\ ~(chan_of[x][u] \subseteq DOMAIN channels[x]))
<1>1. ViewsTyped
  BY DEF IInv, TypeInv
<1>2. CASE chan_of[x][u] \subseteq DOMAIN channels[x]
  <2>1. Leave(x, u, chan_of[x][u]) /\ usr' = [usr EXCEPT ![x][u] = None] /\ status' = status
    BY <1>2 DEF Removed
  <2>2. usr' \in [Servers -> [Users -> Servers \cup {None}]]
        /\ \A a \in Servers, v \in Users : usr'[a][v] = IF a = x /\ v = u THEN None ELSE usr[a][v]
    BY <1>1, <2>1 DEF ViewsTyped
  <2>3. PICK S \in SUBSET Chans : S = chan_of[x][u]
    BY <1>1 DEF ViewsTyped
  <2>4. /\ ViewsTyped' /\ Leaves(x, u, S)
        /\ \A a \in Servers, v \in Users :
              chan_of'[a][v] = IF a = x /\ v = u THEN chan_of[a][v] \ S ELSE chan_of[a][v]
    <3>1. Leave(x, u, S)
      BY <2>1, <2>3
    <3>2. S \subseteq Chans
      OBVIOUS
    <3>3. usr' \in [Servers -> [Users -> Servers \cup {None}]]
      BY <2>2
    <3>4. ViewsTyped'
      BY <1>1, <3>1, <3>2, <3>3, LeaveEffect
    <3>5. Leaves(x, u, S)
      BY <1>1, <3>1, <3>2, <3>3, LeaveEffect
    <3>6. chan_of' = [chan_of EXCEPT ![x][u] = @ \ S]
      BY <3>1 DEF Leave
    <3> QED BY <1>1, <3>4, <3>5, <3>6 DEF ViewsTyped
  <2>5. UsersFit'
    BY <2>2 DEF IInv, UsersFit, Up
  <2>6. Leaves(x, u, chan_of[x][u])
    BY <2>3, <2>4 DEF Leaves
  <2> QED BY <2>1, <2>2, <2>3, <2>4, <2>5, <2>6
<1>3. CASE ~(chan_of[x][u] \subseteq DOMAIN channels[x])
  <2>1. status' = "undefined" /\ UNCHANGED views
    BY <1>3 DEF Removed
  <2> QED BY <1>1, <1>3, <2>1, SameViews, SameUsers
<1> QED BY <1>2, <1>3

LEMMA QuitKeeps ==
    ASSUME IInv, NEW u \in Users, QUIT(u)
    PROVE  IInv' /\ Transfer(Home[u], Home[u], FALSE, peers[Home[u]], QUITof(u)) /\ SaidKept
<1>1. PICK x \in Servers : x = Home[u]
  BY ServerOf
<1>2. /\ Gives(u) /\ Removed(x, u) /\ queue' = Sent(queue, Home[u], peers[Home[u]], QUITof(u))
      /\ peers' = peers /\ Gone(u) /\ heard' = heard /\ apart' = apart
  BY <1>1 DEF QUIT
<1>3. PICK m \in Msg : m = QUITof(u) /\ m.type \in Plain /\ m.who = u /\ m.type = "QUIT"
  BY UserMessages DEF Plain, Outward
<1>4. Refers(m)'
  BY <1>3 DEF Refers, Numbered
<1>5. HistoryTyped' /\ SaidKept
  BY <1>2, GoneEffect DEF IInv, TypeInv, HistoryTyped
<1>6. ViewsTyped' /\ UsersFit' /\ status' \in {"running", "terminated", "undefined"}
  BY <1>2, GivesIs, RemovedEffect
<1> QED BY <1>2, <1>3, <1>4, <1>5, <1>6, GivenKeeps

LEMMA KickKeeps ==
    ASSUME IInv, NEW u \in Users, NEW v \in Users, NEW c \in Chans, KICK(u, v, c)
    PROVE  IInv' /\ Transfer(Home[u], Home[u], FALSE, peers[Home[u]], KICKof(u, v, c)) /\ SaidKept
<1>1. PICK x \in Servers : x = Home[u]
  BY ServerOf
<1>2. /\ Gives(u) /\ Kicked(x, v, c) /\ queue' = Sent(queue, Home[u], peers[Home[u]], KICKof(u, v, c))
      /\ peers' = peers /\ status' = status /\ Gone(v) /\ heard' = heard
      /\ apart' = apart \cup {<<v, c>>} /\ Exists(x, c)
  BY <1>1 DEF KICK, Operator
<1>3. PICK m \in Msg : /\ m = KICKof(u, v, c) /\ m.type \in Plain /\ m.who = u /\ m.type = "KICK"
                       /\ m.whom = v /\ m.chan = c
  BY KickMessage DEF Plain, Outward
<1>4. Refers(m)'
  BY <1>2, <1>3 DEF Refers, Numbered
<1>5. HistoryTyped' /\ SaidKept
  BY <1>2, GoneEffect DEF IInv, TypeInv, HistoryTyped
<1>6. ViewsTyped' /\ usr' = usr
  BY <1>2, KickedEffect DEF IInv, TypeInv
<1>7. UsersFit'
  BY <1>2, <1>6, SameUsers
<1>8. status' \in {"running", "terminated", "undefined"}
  BY <1>2 DEF IInv, TypeInv
<1> QED BY <1>2, <1>3, <1>4, <1>5, <1>6, <1>7, <1>8, GivenKeeps

LEMMA FlagSentIs ==
    ASSUME IInv, NEW x \in Servers, NEW u \in Users, NEW c \in Chans, NEW m \in Modes, NEW on \in BOOLEAN
    PROVE  /\ FlagSent(x, u, c, m, on) \in Msg /\ FlagSent(x, u, c, m, on).who = u
           /\ FlagSent(x, u, c, m, on).type \in {"FLAG", "QUERY"}
BY FlagMessage, MemberMessages DEF FlagSent

LEMMA ModeKeeps ==
    ASSUME IInv, NEW u \in Users, NEW c \in Chans, NEW f \in Modes, NEW on \in BOOLEAN, MODE(u, c, f, on)
    PROVE  /\ IInv' /\ MembersStay /\ usr' = usr /\ chan_of' = chan_of
           /\ \E m : m.type \in {"FLAG", "QUERY"} /\ Transfer(Home[u], Home[u], FALSE, peers[Home[u]], m)
                     /\ m.who = u
<1>1. PICK x \in Servers : x = Home[u]
  BY ServerOf
<1>2. PICK m \in Msg : m = FlagSent(x, u, c, f, on) /\ m.who = u /\ m.type \in {"FLAG", "QUERY"}
  BY FlagSentIs
<1>3. /\ Gives(u) /\ SetFlag(x, c, f, on) /\ queue' = Sent(queue, Home[u], peers[Home[u]], m)
      /\ peers' = peers /\ status' = status /\ UNCHANGED history /\ Exists(x, c)
  BY <1>1, <1>2 DEF MODE, Operator
<1>4. Refers(m)'
  BY <1>2 DEF Refers, Numbered
<1>5. HistoryTyped' /\ SaidKept
  BY <1>3, HistoryStays DEF IInv, TypeInv
<1>6. ViewsTyped' /\ usr' = usr /\ chan_of' = chan_of /\ MembersStay
  BY <1>3, SetFlagEffect DEF IInv, TypeInv
<1>7. UsersFit'
  BY <1>3, <1>6, SameUsers
<1>8. status' \in {"running", "terminated", "undefined"}
  BY <1>3 DEF IInv, TypeInv
<1>9. m.type \in Plain
  BY <1>2 DEF Plain, Outward
<1>10. IInv' /\ Transfer(Home[u], Home[u], FALSE, peers[Home[u]], m)
  BY <1>2, <1>3, <1>4, <1>5, <1>6, <1>7, <1>8, <1>9, GivenKeeps
<1> QED BY <1>2, <1>6, <1>10

LEMMA ModeRightKeeps ==
    ASSUME IInv, NEW u \in Users, NEW c \in Chans, NEW r \in Rights, NEW on \in BOOLEAN, NEW v \in Users,
           ModeRight(u, c, r, on, v)
    PROVE  /\ IInv' /\ MembersStay /\ usr' = usr /\ chan_of' = chan_of
           /\ \E m : m.type = "RIGHT" /\ Transfer(Home[u], Home[u], FALSE, peers[Home[u]], m)
                     /\ m.who = u
<1>1. PICK x \in Servers : x = Home[u]
  BY ServerOf
<1>2. PICK m \in Msg : m = RIGHTof(u, c, r, on, v) /\ m.who = u /\ m.type = "RIGHT"
  BY RightMessage
<1>3. /\ Gives(u) /\ SetRight(x, c, r, on, v) /\ queue' = Sent(queue, Home[u], peers[Home[u]], m)
      /\ peers' = peers /\ status' = status /\ UNCHANGED history /\ Exists(x, c)
  BY <1>1, <1>2 DEF ModeRight, Operator
<1>4. Refers(m)'
  BY <1>2 DEF Refers, Numbered
<1>5. HistoryTyped' /\ SaidKept
  BY <1>3, HistoryStays DEF IInv, TypeInv
<1>6. ViewsTyped' /\ usr' = usr /\ chan_of' = chan_of /\ MembersStay
  BY <1>3, SetRightEffect DEF IInv, TypeInv
<1>7. UsersFit'
  BY <1>3, <1>6, SameUsers
<1>8. status' \in {"running", "terminated", "undefined"}
  BY <1>3 DEF IInv, TypeInv
<1>9. m.type \in Plain
  BY <1>2 DEF Plain, Outward
<1>10. IInv' /\ Transfer(Home[u], Home[u], FALSE, peers[Home[u]], m)
  BY <1>2, <1>3, <1>4, <1>5, <1>6, <1>7, <1>8, <1>9, GivenKeeps
<1> QED BY <1>2, <1>6, <1>10

\* A TOPIC may be on any link.
LEMMA TopicFits ==
    ASSUME NEW m, m.type = "TOPIC"
    PROVE  Refers(m)' /\ \A y, x : Fits(m, y, x)'
BY DEF Refers, Fits, Numbered, Outward

LEMMA TopicKeeps ==
    ASSUME IInv, NEW u \in Users, NEW c \in Chans, NEW t \in Topics \cup {None}, TOPIC(u, c, t)
    PROVE  /\ IInv' /\ MembersStay /\ usr' = usr /\ chan_of' = chan_of
           /\ \E m : m.type = "TOPIC" /\ Transfer(Home[u], Home[u], FALSE, peers[Home[u]], m)
<1>1. PICK x \in Servers : x = Home[u]
  BY ServerOf
<1>2. PICK m \in Msg : m = TOPICof(u, c, t) /\ m.type = "TOPIC"
  BY TopicMessage
<1>3. /\ Gives(u) /\ SetTopic(x, c, t) /\ queue' = Sent(queue, Home[u], peers[Home[u]], m)
      /\ peers' = peers /\ status' = status /\ UNCHANGED history /\ Exists(x, c)
  BY <1>1, <1>2 DEF TOPIC, TopicAllowed, Operator
<1>4. Transfer(Home[u], Home[u], FALSE, peers[Home[u]], m)
  BY <1>3, ServerOf DEF Transfer
<1>5. HistoryTyped' /\ SaidKept
  BY <1>3, HistoryStays DEF IInv, TypeInv
<1>6. ViewsTyped' /\ usr' = usr /\ chan_of' = chan_of /\ MembersStay
  BY <1>3, SetTopicEffect DEF IInv, TypeInv
<1>7. UsersFit'
  BY <1>3, <1>6, SameUsers
<1>8. Refers(m)' /\ \A w \in peers[Home[u]] : Fits(m, Home[u], w)'
  BY <1>2, TopicFits
<1>9. queue' \in Queues /\ Peered' /\ Connected' /\ Traffic'
  BY <1>4, <1>5, <1>8, TransferKeeps
<1>10. IInv'
  BY <1>3, <1>5, <1>6, <1>7, <1>9, GivesIs, Kept DEF IInv, TypeInv
<1> QED BY <1>2, <1>4, <1>6, <1>10

\* The members at x who are sent what u says.
LocalReaders(x, u, c) == {v \in Users : v \in channels[x][c].users \ {u} /\ usr[x][v] = x}

LEMMA HearsIs ==
    ASSUME NEW x, NEW u, NEW c, NEW n, Hears(x, u, c, n)
    PROVE  Hear(LocalReaders(x, u, c), n)
BY DEF Hears, Hear, LocalReaders

LEMMA PrivmsgKeeps ==
    ASSUME IInv, NEW u \in Users, NEW c \in Chans, PRIVMSG(u, c)
    PROVE  /\ IInv' /\ SaidKept
           /\ Transfer(Home[u], Home[u], FALSE, peers[Home[u]], SAYof(u, c, Len(said) + 1))
<1>1. PICK x \in Servers : x = Home[u]
  BY ServerOf
<1> DEFINE R == {v \in channels[x][c].users \ {u} : Member(Home[v], v, c) /\ <<v, c>> \notin apart}
<1>2. /\ Gives(u) /\ Exists(x, c) /\ Hears(x, u, c, Len(said) + 1)
      /\ queue' = Sent(queue, Home[u], peers[Home[u]], SAYof(u, c, Len(said) + 1))
      /\ peers' = peers /\ UNCHANGED views /\ status' = status /\ apart' = apart /\ Says(u, c, R)
  BY <1>1 DEF PRIVMSG, Says
<1>3. R \in SUBSET (Users \ {u})
  <2>1. channels[x][c] \in Channel
    BY <1>2, ChannelAt DEF Exists, IInv, TypeInv
  <2> QED BY <2>1 DEF Channel
<1> HIDE DEF R
<1>4. /\ said' \in Sayings /\ SaidKept
      /\ \A i \in DOMAIN said' : said'[i].readers \subseteq Users
      /\ Len(said) + 1 \in Nat /\ Len(said) + 1 \in DOMAIN said' /\ said'[Len(said) + 1].from = u
      /\ said'[Len(said) + 1].readers = R /\ DOMAIN said \subseteq DOMAIN said'
  BY <1>2, <1>3, SaysEffect DEF IInv, TypeInv
<1>5. PICK n \in Nat : n = Len(said) + 1
  BY <1>4
<1>6. HistoryTyped'
  <2>1. heard' \in [Users -> Seq(DOMAIN said')]
    BY <1>2, <1>4, HearsIs, HearTyped DEF IInv, TypeInv
  <2> QED BY <1>2, <1>4, <2>1 DEF HistoryTyped, IInv, TypeInv
<1>7. PICK m \in Msg : m = SAYof(u, c, n) /\ m.type = "SAY" /\ m.who = u /\ m.number = n
  BY SayMessage
<1>8. Refers(m)'
  BY <1>3, <1>4, <1>5, <1>7 DEF Refers, Numbered
<1>9. ViewsTyped' /\ UsersFit' /\ status' \in {"running", "terminated", "undefined"}
  BY <1>2, SameViews, SameUsers DEF IInv, TypeInv
<1>10. m.type \in Plain /\ queue' = Sent(queue, Home[u], peers[Home[u]], m)
  BY <1>2, <1>5, <1>7 DEF Plain, Outward
<1>11. IInv' /\ Transfer(Home[u], Home[u], FALSE, peers[Home[u]], m)
  BY <1>2, <1>4, <1>6, <1>7, <1>8, <1>9, <1>10, GivenKeeps
<1> QED BY <1>4, <1>5, <1>7, <1>11

\* Who is not at x is known by a link.
LEMMA LinkTo ==
    ASSUME IInv, NEW x \in Servers, NEW v \in Users, usr[x][v] \in Servers \ {x}
    PROVE  /\ usr[x][v] = Route[x][Home[v]] /\ usr[x][v] \in peers[x] /\ usr[x][v] \in Servers
           /\ usr[x][v] # x /\ Route[usr[x][v]][x] = x
           /\ Up(x) /\ Up(Home[v]) /\ Home[v] # x
<1>1. usr[x][v] # None
  BY NoneAssumption
<1>2. usr[x][v] = Route[x][Home[v]] /\ Up(x) /\ Up(Home[v])
  BY <1>1 DEF IInv, UsersFit
<1>3. Home[v] \in Servers /\ Home[v] # x
  BY <1>2, ServerOf
<1>4. Route[x][Home[v]] \in peers[x]
  BY <1>2, <1>3 DEF IInv, Connected
<1>5. Route[usr[x][v]][x] = x
  BY <1>2, <1>4, Neighbours DEF IInv, Peered
<1> QED BY <1>2, <1>3, <1>4, <1>5

\* Where Forward sends to.
Towards(x, v) == {w \in {usr[x][v]} : w \in Servers \ {x}}

LEMMA ForwardIs ==
    ASSUME IInv, NEW q \in Queues, NEW x \in Servers, NEW v \in Users, NEW m \in Msg, Forward(q, x, v, m)
    PROVE  /\ queue' = Sent(q, x, Towards(x, v), m)
           /\ Hear({w \in {v} : usr[x][w] = x}, m.number)
           /\ Towards(x, v) \subseteq peers[x]
<1>1. PICK S : S = Towards(x, v)
  OBVIOUS
<1>2. queue' = Sent(q, x, S, m)
  <2>1. CASE usr[x][v] \in Servers \ {x}
    <3>1. S = {usr[x][v]}
      BY <1>1, <2>1 DEF Towards
    <3> QED BY <2>1, <3>1 DEF Forward
  <2>2. CASE usr[x][v] \notin Servers \ {x}
    <3>1. S = {}
      BY <1>1, <2>2 DEF Towards
    <3> QED BY <2>2, <3>1, SentEffect DEF Forward
  <2> QED BY <2>1, <2>2
<1>3. Hear({w \in {v} : usr[x][w] = x}, m.number)
  <2>1. heard \in [Users -> Seq(DOMAIN said)]
    BY DEF IInv, TypeInv, HistoryTyped
  <2>2. CASE usr[x][v] = x
    <3>1. heard' = [heard EXCEPT ![v] = Append(@, m.number)]
      BY <2>2 DEF Forward
    <3> QED BY <2>1, <2>2, <3>1 DEF Hear
  <2>3. CASE usr[x][v] # x
    <3>1. heard' = heard
      BY <2>3 DEF Forward
    <3> QED BY <2>1, <2>3, <3>1 DEF Hear
  <2> QED BY <2>2, <2>3
<1>4. S \subseteq peers[x]
  BY <1>1, LinkTo DEF Towards
<1> QED BY <1>1, <1>2, <1>3, <1>4

LEMMA PrivmsgUserKeeps ==
    ASSUME IInv, NEW u \in Users, NEW v \in Users, PrivmsgUser(u, v)
    PROVE  /\ IInv' /\ SaidKept
           /\ Transfer(Home[u], Home[u], FALSE, Towards(Home[u], v), TELLof(u, v, Len(said) + 1))
<1>1. PICK x \in Servers : x = Home[u]
  BY ServerOf
<1> DEFINE R == {w \in {v} : Settled(w)}
<1>2. /\ Gives(u) /\ Forward(queue, x, v, TELLof(u, v, Len(said) + 1)) /\ Says(u, v, R)
      /\ peers' = peers /\ UNCHANGED views /\ status' = status /\ apart' = apart
  BY <1>1 DEF PrivmsgUser, Says
<1>3. R \in SUBSET Users /\ R \subseteq {v}
  OBVIOUS
<1> HIDE DEF R
<1>4. /\ said' \in Sayings /\ SaidKept
      /\ \A i \in DOMAIN said' : said'[i].readers \subseteq Users
      /\ Len(said) + 1 \in Nat /\ Len(said) + 1 \in DOMAIN said' /\ said'[Len(said) + 1].from = u
      /\ said'[Len(said) + 1].to = v
      /\ said'[Len(said) + 1].readers = R /\ DOMAIN said \subseteq DOMAIN said'
  BY <1>2, <1>3, SaysEffect DEF IInv, TypeInv
<1>5. PICK n \in Nat : n = Len(said) + 1
  BY <1>4
<1>6. PICK m \in Msg : /\ m = TELLof(u, v, n) /\ m.type = "TELL" /\ m.who = u /\ m.whom = v
                       /\ m.number = n
  BY TellMessage
<1>7. /\ queue' = Sent(queue, x, Towards(x, v), m) /\ Towards(x, v) \subseteq peers[x]
      /\ Hear({w \in {v} : usr[x][w] = x}, n)
  <2>1. Forward(queue, x, v, m) /\ queue \in Queues
    BY <1>2, <1>5, <1>6 DEF IInv, TypeInv
  <2> QED BY <1>6, <2>1, ForwardIs
<1>8. HistoryTyped'
  <2>1. heard' \in [Users -> Seq(DOMAIN said')]
    BY <1>4, <1>5, <1>7, HearTyped DEF IInv, TypeInv
  <2> QED BY <1>2, <1>4, <2>1 DEF HistoryTyped, IInv, TypeInv
<1>9. Refers(m)'
  BY <1>2, <1>3, <1>4, <1>5, <1>6 DEF Refers, Numbered
<1>10. Transfer(x, x, FALSE, Towards(x, v), m)
  BY <1>2, <1>7 DEF Transfer
<1>11. ASSUME NEW w \in Towards(x, v) PROVE Fits(m, x, w)'
  <2>1. w = usr[x][v] /\ usr[x][v] \in Servers \ {x}
    BY DEF Towards
  <2>2. Route[w][Home[u]] = x /\ Route[x][Home[v]] = w /\ Up(x)
    BY <1>1, <2>1, LinkTo
  <2>3. Fits(m, x, w)
    BY <1>1, <1>6, <2>2 DEF Fits, Outward
  <2> QED BY <1>2, <1>6, <2>3, FitsStays
<1>12. queue' \in Queues /\ Peered' /\ Connected' /\ Traffic'
  BY <1>4, <1>9, <1>10, <1>11, TransferKeeps
<1>13. ViewsTyped' /\ UsersFit' /\ status' \in {"running", "terminated", "undefined"}
  BY <1>2, SameViews, SameUsers DEF IInv, TypeInv
<1>14. IInv'
  BY <1>2, <1>8, <1>12, <1>13, GivesIs, Kept
<1> QED BY <1>1, <1>4, <1>5, <1>6, <1>10, <1>14

LEMMA KnownServer ==
    ASSUME IInv, NEW x \in Servers, NEW z \in Servers, z # x, Up(x), KnowsServer(x, z)
    PROVE  Up(z) /\ Route[x][z] \in peers[x]
<1>1. Up(z)
  <2>1. CASE z \in peers[x]
    BY <2>1 DEF IInv, Peered, Up
  <2>2. CASE \E v \in Users : Home[v] = z /\ usr[x][v] \in peers[x]
    <3>1. PICK v \in Users : Home[v] = z /\ usr[x][v] \in peers[x]
      BY <2>2
    <3>2. usr[x][v] # None
      BY <3>1, NoneAssumption DEF IInv, TypeInv
    <3> QED BY <3>1, <3>2 DEF IInv, UsersFit
  <2> QED BY <2>1, <2>2 DEF KnowsServer
<1> QED BY <1>1 DEF IInv, Connected

LEMMA VersionKeeps ==
    ASSUME IInv, NEW u \in Users, NEW z \in Servers, VERSION(u, z)
    PROVE  /\ IInv' /\ SaidKept
           /\ Transfer(Home[u], Home[u], FALSE, {Route[Home[u]][z]}, ASKof(u, z, Len(said) + 1))
<1>1. PICK x \in Servers : x = Home[u]
  BY ServerOf
<1>2. /\ Gives(u) /\ z # x /\ KnowsServer(x, z) /\ Says(z, u, {u})
      /\ queue' = Sent(queue, x, {Route[x][z]}, ASKof(u, z, Len(said) + 1))
      /\ peers' = peers /\ UNCHANGED views /\ status' = status /\ heard' = heard /\ apart' = apart
  BY <1>1 DEF VERSION, Says
<1>3. {u} \in SUBSET Users
  OBVIOUS
<1>4. /\ said' \in Sayings /\ SaidKept
      /\ \A i \in DOMAIN said' : said'[i].readers \subseteq Users
      /\ Len(said) + 1 \in Nat /\ Len(said) + 1 \in DOMAIN said' /\ said'[Len(said) + 1].from = z
      /\ said'[Len(said) + 1].readers = {u} /\ DOMAIN said \subseteq DOMAIN said'
  BY <1>2, <1>3, SaysEffect DEF IInv, TypeInv
<1>5. PICK n \in Nat : n = Len(said) + 1
  BY <1>4
<1>6. PICK m \in Msg : /\ m = ASKof(u, z, n) /\ m.type = "ASK" /\ m.who = u /\ m.server = z
                       /\ m.number = n
  BY AskMessage
<1>7. HistoryTyped'
  <2>1. heard \in [Users -> Seq(DOMAIN said)] /\ apart \subseteq Users \X Chans
    BY DEF IInv, TypeInv, HistoryTyped
  <2>2. \A v \in Users : heard[v] \in Seq(DOMAIN said')
    BY <1>4, <2>1, SeqMonotonic
  <2> QED BY <1>2, <1>4, <2>1, <2>2 DEF HistoryTyped
<1>8. Refers(m)'
  BY <1>4, <1>5, <1>6 DEF Refers, Numbered
<1>9. Up(x) /\ Up(z) /\ Route[x][z] \in peers[x]
  BY <1>1, <1>2, GivesIs, KnownServer
<1>10. Transfer(x, x, FALSE, {Route[x][z]}, m)
  BY <1>2, <1>5, <1>6, <1>9 DEF Transfer
<1>11. ASSUME NEW w \in {Route[x][z]} PROVE Fits(m, x, w)'
  <2>1. w \in Servers /\ w # x /\ Route[x][w] = w
    BY <1>9 DEF IInv, TypeInv, Peered
  <2>2. Route[w][Home[u]] = x
    BY <1>1, <2>1, Neighbours
  <2>3. Fits(m, x, w)
    BY <1>1, <1>6, <1>9, <2>2 DEF Fits, Outward
  <2> QED BY <1>2, <1>6, <2>3, FitsStays
<1>12. queue' \in Queues /\ Peered' /\ Connected' /\ Traffic'
  <2>1. PICK S : S = {Route[x][z]}
    OBVIOUS
  <2>2. Transfer(x, x, FALSE, S, m) /\ \A w \in S : Fits(m, x, w)'
    BY <1>10, <1>11, <2>1
  <2> QED BY <1>4, <1>8, <2>2, TransferKeeps
<1>13. ViewsTyped' /\ UsersFit' /\ status' \in {"running", "terminated", "undefined"}
  BY <1>2, SameViews, SameUsers DEF IInv, TypeInv
<1>14. IInv'
  BY <1>2, <1>7, <1>12, <1>13, GivesIs, Kept
<1> QED BY <1>1, <1>4, <1>5, <1>6, <1>10, <1>14

-----------------------------------------------------------------------------
(* So do the handlers of the servers that are told. *)

LEMMA ReceivesIs ==
    ASSUME IInv, NEW x \in Servers, NEW y \in Servers, NEW type, Receives(x, y, type),
           NEW m, m = Head(queue[y][x])
    PROVE  /\ queue[y][x] # <<>> /\ m \in Msg /\ m.type = type
           /\ Fits(m, y, x) /\ Refers(m)
           /\ y \in peers[x] /\ x \in peers[y] /\ y # x /\ Route[x][y] = y /\ Route[y][x] = x
           /\ Up(x) /\ status = "running" /\ peers' = peers /\ given' = given
           /\ type \notin Unsigned => usr[x][m.who] # None
<1>1. queue[y][x] # <<>> /\ m.type = type /\ status = "running" /\ peers' = peers /\ given' = given
      /\ (type \notin Unsigned => usr[x][m.who] # None)
  BY DEF Receives
<1> QED BY <1>1, FirstMessage DEF Up

\* What remains to be shown of a handler that passes the message on.
LEMMA ReceivedKeeps ==
    ASSUME IInv, NEW x \in Servers, NEW y \in Servers, NEW m, m = Head(queue[y][x]),
           NEW type, type \in Plain, Receives(x, y, type),
           NEW o \in Msg, o.type \in Plain, o.who = m.who, queue' = Passed(x, y, o),
           SaidKept, Refers(o)', ViewsTyped', UsersFit', HistoryTyped',
           status' \in {"running", "terminated", "undefined"}
    PROVE  IInv' /\ Transfer(x, y, TRUE, Others(x, y), o)
<1>1. /\ queue[y][x] # <<>> /\ m.type \in Plain /\ peers' = peers /\ given' = given
  BY ReceivesIs
<1>2. /\ queue' \in Queues /\ Peered' /\ Connected' /\ Traffic'
      /\ Transfer(x, y, TRUE, Others(x, y), o)
  BY <1>1, PassedKeeps
<1> QED BY <1>1, <1>2, Kept

\* A handler that passes nothing on.
LEMMA DoneKeeps ==
    ASSUME IInv, NEW x \in Servers, NEW y \in Servers, NEW m, m = Head(queue[y][x]),
           NEW type, Receives(x, y, type), queue' = Taken(x, y),
           SaidKept, ViewsTyped', UsersFit', HistoryTyped',
           status' \in {"running", "terminated", "undefined"}
    PROVE  IInv' /\ Transfer(x, y, TRUE, {}, m)
<1>1. queue[y][x] # <<>> /\ m \in Msg /\ peers' = peers /\ given' = given
  BY ReceivesIs
<1>2. /\ queue' \in Queues /\ Peered' /\ Connected' /\ Traffic' /\ Transfer(x, y, TRUE, {}, m)
  BY <1>1, TakenKeeps
<1> QED BY <1>1, <1>2, Kept

LEMMA DroppedKeeps ==
    ASSUME IInv, NEW x \in Servers, NEW y \in Servers, NEW m, m = Head(queue[y][x]),
           NEW type, Receives(x, y, type), Dropped(x, y)
    PROVE  /\ IInv' /\ Transfer(x, y, TRUE, {}, m) /\ SaidKept
           /\ MembersStay /\ usr' = usr /\ chan_of' = chan_of
<1>1. queue' = Taken(x, y) /\ UNCHANGED views /\ status' = status /\ UNCHANGED history
  BY DEF Dropped
<1>2. ViewsTyped' /\ UsersFit' /\ MembersStay /\ usr' = usr /\ chan_of' = chan_of
  BY <1>1, SameViews, SameUsers, ReceivesIs DEF IInv, TypeInv
<1>3. HistoryTyped' /\ SaidKept
  BY <1>1, HistoryStays DEF IInv, TypeInv
<1>4. status' \in {"running", "terminated", "undefined"}
  BY <1>1 DEF IInv, TypeInv
<1> QED BY <1>1, <1>2, <1>3, <1>4, DoneKeeps

LEMMA EndKeeps ==
    ASSUME IInv, NEW x, NEW y, NEW type, Receives(x, y, type), Dies \/ Undefined
    PROVE  IInv' /\ status' # "running"
<1>1. UNCHANGED <<peers, given, views, queue, history>> /\ status' \in {"terminated", "undefined"}
  BY DEF Receives, Dies, Undefined
<1> QED BY <1>1, HaltKeeps

LEMMA ReceiveNickKeeps ==
    ASSUME IInv, NEW x \in Servers, NEW y \in Servers, NEW m, m = Head(queue[y][x]), ReceiveNick(x, y)
    PROVE  /\ IInv' /\ Transfer(x, y, TRUE, Others(x, y), m) /\ m.type = "NICK" /\ m.who \in Users
           /\ m = NICKof(m.who)
           /\ \A a \in Servers, v \in Users :
                 usr'[a][v] = IF a = x /\ v = m.who /\ usr[a][v] = None THEN y ELSE usr[a][v]
<1>1. /\ Receives(x, y, "NICK") /\ queue' = Passed(x, y, NICKof(m.who))
      /\ usr' = IF usr[x][m.who] = None THEN [usr EXCEPT ![x][m.who] = y] ELSE usr
      /\ UNCHANGED <<channels, chan_of, status, history>>
  BY DEF ReceiveNick
<1>2. m \in Msg /\ m.type = "NICK" /\ Fits(m, y, x) /\ peers' = peers /\ Up(x) /\ Refers(m)
  BY <1>1, ReceivesIs
<1>3. m.who \in Users /\ m = NICKof(m.who) /\ m.type \in Plain
  BY <1>2, Fields DEF Plain, Outward
<1>4. HistoryTyped' /\ SaidKept
  BY <1>1, HistoryStays DEF IInv, TypeInv
<1>5. Refers(m)'
  BY <1>2 DEF Refers, Numbered
<1>6. ViewsTyped' /\ status' \in {"running", "terminated", "undefined"}
  BY <1>1, <1>3 DEF IInv, TypeInv, ViewsTyped
<1>7. \A a \in Servers, v \in Users :
         usr'[a][v] = IF a = x /\ v = m.who /\ usr[a][v] = None THEN y ELSE usr[a][v]
  BY <1>1, <1>3 DEF IInv, TypeInv, ViewsTyped
<1>8. Route[x][Home[m.who]] = y /\ Up(Home[m.who])
  BY <1>2 DEF Fits, Outward
<1>9. UsersFit'
  BY <1>2, <1>7, <1>8 DEF IInv, UsersFit, Up
<1>10. IInv' /\ Transfer(x, y, TRUE, Others(x, y), m)
  BY <1>1, <1>2, <1>3, <1>4, <1>5, <1>6, <1>9, ReceivedKeeps DEF Plain, Outward
<1> QED BY <1>2, <1>3, <1>7, <1>10

LEMMA ReceiveJoinKeeps ==
    ASSUME IInv, NEW x \in Servers, NEW y \in Servers, NEW m, m = Head(queue[y][x]), ReceiveJoin(x, y)
    PROVE  /\ IInv' /\ SaidKept /\ m.who \in Users /\ m.chan \in Chans /\ m = JOINof(m.who, m.chan)
           /\ usr[x][m.who] # None /\ usr' = usr
           /\ \/ /\ Enter(x, m.who, m.chan) /\ Transfer(x, y, TRUE, Others(x, y), m)
                 /\ apart' = apart
              \/ /\ UNCHANGED views /\ Transfer(x, y, TRUE, {}, m)
                 /\ apart' = apart \cup {<<m.who, m.chan>>}
<1>1. Receives(x, y, "JOIN")
  BY DEF ReceiveJoin
<1>2. m \in Msg /\ m.type = "JOIN" /\ Refers(m) /\ peers' = peers /\ usr[x][m.who] # None
  BY <1>1, ReceivesIs DEF Unsigned
<1>3. m.who \in Users /\ m.chan \in Chans /\ m.type \in Plain /\ m = JOINof(m.who, m.chan)
  BY <1>2, Fields DEF Plain, Outward
<1>4. Refers(m)'
  BY <1>2 DEF Refers, Numbered
<1>5. CASE /\ Enter(x, m.who, m.chan) /\ queue' = Passed(x, y, m)
           /\ UNCHANGED <<usr, status, history>>
  <2>1. HistoryTyped' /\ SaidKept /\ apart' = apart
    BY <1>5, HistoryStays DEF IInv, TypeInv, history
  <2>2. ViewsTyped'
    BY <1>3, <1>5, EnterEffect DEF IInv, TypeInv
  <2>3. UsersFit' /\ status' \in {"running", "terminated", "undefined"}
    BY <1>2, <1>5, SameUsers DEF IInv, TypeInv
  <2>4. IInv' /\ Transfer(x, y, TRUE, Others(x, y), m)
    BY <1>1, <1>2, <1>3, <1>4, <1>5, <2>1, <2>2, <2>3, ReceivedKeeps
  <2> QED BY <1>2, <1>3, <1>5, <2>1, <2>4
<1>6. CASE /\ queue' = Taken(x, y) /\ apart' = apart \cup {<<m.who, m.chan>>}
           /\ UNCHANGED <<views, status, said, heard>>
  <2>1. HistoryTyped' /\ SaidKept
    BY <1>3, <1>6 DEF IInv, TypeInv, HistoryTyped, SaidKept
  <2>2. ViewsTyped' /\ UsersFit' /\ status' \in {"running", "terminated", "undefined"} /\ usr' = usr
    BY <1>2, <1>6, SameViews, SameUsers DEF IInv, TypeInv
  <2>3. IInv' /\ Transfer(x, y, TRUE, {}, m)
    BY <1>1, <1>6, <2>1, <2>2, DoneKeeps
  <2> QED BY <1>2, <1>3, <1>6, <2>1, <2>2, <2>3
<1>7. \/ /\ Enter(x, m.who, m.chan) /\ queue' = Passed(x, y, m)
         /\ UNCHANGED <<usr, status, history>>
      \/ /\ queue' = Taken(x, y) /\ apart' = apart \cup {<<m.who, m.chan>>}
         /\ UNCHANGED <<views, status, said, heard>>
  BY DEF ReceiveJoin
<1> QED BY <1>5, <1>6, <1>7

LEMMA ReceivePartKeeps ==
    ASSUME IInv, NEW x \in Servers, NEW y \in Servers, NEW m, m = Head(queue[y][x]), ReceivePart(x, y)
    PROVE  /\ IInv' /\ m.who \in Users /\ m.chan \in Chans /\ m = PARTof(m.who, m.chan)
           /\ \/ /\ Leave(x, m.who, {m.chan}) /\ Transfer(x, y, TRUE, Others(x, y), m)
                 /\ UNCHANGED <<usr, status, history>>
              \/ /\ status' = "undefined" /\ UNCHANGED <<queue, history>> /\ ~Exists(x, m.chan)
<1>1. Receives(x, y, "PART")
  BY DEF ReceivePart
<1>2. m \in Msg /\ m.type = "PART" /\ Refers(m) /\ peers' = peers
  BY <1>1, ReceivesIs
<1>3. m.who \in Users /\ m.chan \in Chans /\ m.type \in Plain /\ m = PARTof(m.who, m.chan)
  BY <1>2, Fields DEF Plain, Outward
<1>4. CASE Exists(x, m.chan)
  <2>1. /\ Leave(x, m.who, {m.chan}) /\ queue' = Passed(x, y, m)
        /\ UNCHANGED <<usr, status, history>>
    BY <1>4 DEF ReceivePart
  <2>2. HistoryTyped' /\ SaidKept
    BY <2>1, HistoryStays DEF IInv, TypeInv
  <2>3. ViewsTyped'
    <3>1. PICK u \in Users, c \in Chans : u = m.who /\ c = m.chan
      BY <1>3
    <3>2. Leave(x, u, {c}) /\ usr' = usr
      BY <2>1, <3>1
    <3> QED BY <3>2, LeaveEffect DEF IInv, TypeInv, ViewsTyped
  <2>4. UsersFit' /\ status' \in {"running", "terminated", "undefined"}
    BY <1>2, <2>1, SameUsers DEF IInv, TypeInv
  <2>5. Refers(m)'
    BY <1>2 DEF Refers, Numbered
  <2>6. IInv' /\ Transfer(x, y, TRUE, Others(x, y), m)
    BY <1>1, <1>2, <1>3, <2>1, <2>2, <2>3, <2>4, <2>5, ReceivedKeeps
  <2> QED BY <1>3, <2>1, <2>6
<1>5. CASE ~Exists(x, m.chan)
  <2>1. Undefined
    BY <1>5 DEF ReceivePart
  <2>2. IInv'
    BY <1>1, <2>1, EndKeeps
  <2> QED BY <1>3, <1>5, <2>1, <2>2 DEF Undefined
<1> QED BY <1>4, <1>5

LEMMA ReceiveQuitKeeps ==
    ASSUME IInv, NEW x \in Servers, NEW y \in Servers, NEW m, m = Head(queue[y][x]), ReceiveQuit(x, y)
    PROVE  /\ IInv' /\ m.who \in Users /\ m = QUITof(m.who) /\ Removed(x, m.who) /\ usr[x][m.who] # None
           /\ Transfer(x, y, TRUE, Others(x, y), m) /\ UNCHANGED history
<1>1. Receives(x, y, "QUIT") /\ Removed(x, m.who) /\ queue' = Passed(x, y, QUITof(m.who))
      /\ UNCHANGED history
  BY DEF ReceiveQuit
<1>2. m \in Msg /\ m.type = "QUIT" /\ Refers(m) /\ peers' = peers /\ status = "running"
      /\ usr[x][m.who] # None
  BY <1>1, ReceivesIs DEF Unsigned
<1>3. m.who \in Users /\ m.type \in Plain /\ m = QUITof(m.who)
  BY <1>2, Fields DEF Plain, Outward
<1>4. HistoryTyped' /\ SaidKept
  BY <1>1, HistoryStays DEF IInv, TypeInv
<1>5. ViewsTyped' /\ UsersFit' /\ status' \in {"running", "terminated", "undefined"}
  BY <1>1, <1>2, <1>3, RemovedEffect
<1>6. Refers(m)'
  BY <1>2 DEF Refers, Numbered
<1>7. IInv' /\ Transfer(x, y, TRUE, Others(x, y), m)
  BY <1>1, <1>2, <1>3, <1>4, <1>5, <1>6, ReceivedKeeps
<1> QED BY <1>1, <1>2, <1>3, <1>7

LEMMA ReceiveKickKeeps ==
    ASSUME IInv, NEW x \in Servers, NEW y \in Servers, NEW m, m = Head(queue[y][x]), ReceiveKick(x, y)
    PROVE  /\ IInv' /\ m.whom \in Users /\ m.chan \in Chans /\ m.type = "KICK"
           /\ <<m.whom, m.chan>> \in apart /\ UNCHANGED <<status, history>>
           /\ usr' = usr /\ chan_of' = chan_of
           /\ \/ Leaves(x, m.whom, {m.chan}) /\ Transfer(x, y, TRUE, Others(x, y), m)
              \/ MembersStay /\ Transfer(x, y, TRUE, {}, m)
<1>1. Receives(x, y, "KICK")
  BY DEF ReceiveKick
<1>2. m \in Msg /\ m.type = "KICK" /\ Refers(m) /\ peers' = peers
  BY <1>1, ReceivesIs
<1>3. m.who \in Users /\ m.chan \in Chans /\ m.type \in Plain /\ m.whom \in Users
      /\ <<m.whom, m.chan>> \in apart
  BY <1>2, Fields DEF Plain, Outward, Refers
<1>4. CASE Kicked(x, m.whom, m.chan) /\ queue' = Passed(x, y, m) /\ UNCHANGED <<status, history>>
           /\ Exists(x, m.chan)
  <2>1. HistoryTyped' /\ SaidKept
    BY <1>4, HistoryStays DEF IInv, TypeInv
  <2>2. ViewsTyped' /\ Leaves(x, m.whom, {m.chan}) /\ usr' = usr /\ chan_of' = chan_of
    BY <1>3, <1>4, KickedEffect DEF IInv, TypeInv
  <2>3. UsersFit' /\ status' \in {"running", "terminated", "undefined"}
    BY <1>2, <1>4, <2>2, SameUsers DEF IInv, TypeInv
  <2>4. Refers(m)'
    BY <1>2, <2>1 DEF Refers, Numbered, SaidKept
  <2>5. IInv' /\ Transfer(x, y, TRUE, Others(x, y), m)
    BY <1>1, <1>2, <1>3, <1>4, <2>1, <2>2, <2>3, <2>4, ReceivedKeeps
  <2> QED BY <1>2, <1>3, <1>4, <2>2, <2>5
<1>5. CASE Dropped(x, y)
  <2>1. IInv' /\ Transfer(x, y, TRUE, {}, m) /\ MembersStay /\ usr' = usr /\ chan_of' = chan_of
    BY <1>1, <1>5, DroppedKeeps
  <2> QED BY <1>2, <1>3, <1>5, <2>1 DEF Dropped
<1>6. \/ Kicked(x, m.whom, m.chan) /\ queue' = Passed(x, y, m) /\ UNCHANGED <<status, history>>
         /\ Exists(x, m.chan)
      \/ Dropped(x, y)
  BY DEF ReceiveKick, Operator
<1> QED BY <1>4, <1>5, <1>6

LEMMA ReceiveModeKeeps ==
    ASSUME IInv, NEW x \in Servers, NEW y \in Servers, NEW m, m = Head(queue[y][x]), ReceiveMode(x, y)
    PROVE  /\ IInv' /\ m.type = "FLAG" /\ UNCHANGED history
           /\ \/ status' = "terminated"
              \/ /\ MembersStay /\ usr' = usr /\ chan_of' = chan_of
                 /\ \E o : o.type \in {"FLAG", "QUERY"} /\ o.who = m.who
                           /\ Transfer(x, y, TRUE, Others(x, y), o)
<1>1. Receives(x, y, "FLAG")
  BY DEF ReceiveMode
<1>2. m \in Msg /\ m.type = "FLAG" /\ Refers(m) /\ peers' = peers
  BY <1>1, ReceivesIs
<1>3. m.who \in Users /\ m.chan \in Chans /\ m.type \in Plain /\ m.mode \in Modes /\ m.on \in BOOLEAN
  BY <1>2, Fields DEF Plain, Outward
<1>4. CASE ~Operator(x, m.who, m.chan)
  <2>1. Dies
    BY <1>4 DEF ReceiveMode
  <2>2. IInv'
    BY <1>1, <2>1, EndKeeps
  <2> QED BY <1>2, <2>1, <2>2 DEF Dies
<1>5. CASE Operator(x, m.who, m.chan)
  <2>1. PICK o \in Msg : /\ o = FlagSent(x, m.who, m.chan, m.mode, m.on)
                         /\ o.who = m.who /\ o.type \in {"FLAG", "QUERY"}
    BY <1>3, FlagSentIs
  <2>2. /\ SetFlag(x, m.chan, m.mode, m.on) /\ queue' = Passed(x, y, o)
        /\ UNCHANGED <<status, history>> /\ Exists(x, m.chan)
    BY <1>5, <2>1 DEF ReceiveMode, Operator
  <2>3. HistoryTyped' /\ SaidKept
    BY <2>2, HistoryStays DEF IInv, TypeInv
  <2>4. ViewsTyped' /\ MembersStay /\ usr' = usr /\ chan_of' = chan_of
    BY <1>3, <2>2, SetFlagEffect DEF IInv, TypeInv
  <2>5. UsersFit' /\ status' \in {"running", "terminated", "undefined"}
    BY <1>2, <2>2, <2>4, SameUsers DEF IInv, TypeInv
  <2>6. Refers(o)' /\ o.type \in Plain
    BY <2>1 DEF Refers, Numbered, Plain, Outward
  <2>7. IInv' /\ Transfer(x, y, TRUE, Others(x, y), o)
    BY <1>1, <1>2, <1>3, <2>1, <2>2, <2>3, <2>4, <2>5, <2>6, ReceivedKeeps
  <2> QED BY <1>2, <2>1, <2>2, <2>4, <2>7
<1> QED BY <1>4, <1>5

LEMMA ReceiveRightKeeps ==
    ASSUME IInv, NEW x \in Servers, NEW y \in Servers, NEW m, m = Head(queue[y][x]), ReceiveRight(x, y)
    PROVE  /\ IInv' /\ m.type = "RIGHT" /\ UNCHANGED history
           /\ \/ status' = "terminated"
              \/ /\ MembersStay /\ usr' = usr /\ chan_of' = chan_of
                 /\ Transfer(x, y, TRUE, Others(x, y), m)
<1>1. Receives(x, y, "RIGHT")
  BY DEF ReceiveRight
<1>2. m \in Msg /\ m.type = "RIGHT" /\ Refers(m) /\ peers' = peers
  BY <1>1, ReceivesIs
<1>3. m.who \in Users /\ m.chan \in Chans /\ m.type \in Plain /\ m.on \in BOOLEAN /\ m.whom \in Users
  BY <1>2, Fields DEF Plain, Outward
<1>4. CASE Dies
  <2>1. IInv'
    BY <1>1, <1>4, EndKeeps
  <2> QED BY <1>2, <1>4, <2>1 DEF Dies
<1>5. CASE /\ SetRight(x, m.chan, m.mode, m.on, m.whom) /\ queue' = Passed(x, y, m)
           /\ UNCHANGED <<status, history>> /\ Exists(x, m.chan)
  <2>1. HistoryTyped' /\ SaidKept
    BY <1>5, HistoryStays DEF IInv, TypeInv
  <2>2. ViewsTyped' /\ MembersStay /\ usr' = usr /\ chan_of' = chan_of
    BY <1>3, <1>5, SetRightEffect DEF IInv, TypeInv
  <2>3. UsersFit' /\ status' \in {"running", "terminated", "undefined"}
    BY <1>2, <1>5, <2>2, SameUsers DEF IInv, TypeInv
  <2>4. Refers(m)'
    BY <1>2 DEF Refers, Numbered
  <2>5. IInv' /\ Transfer(x, y, TRUE, Others(x, y), m)
    BY <1>1, <1>2, <1>3, <1>5, <2>1, <2>2, <2>3, <2>4, ReceivedKeeps
  <2> QED BY <1>2, <1>5, <2>2, <2>5
<1>6. \/ Dies
      \/ /\ SetRight(x, m.chan, m.mode, m.on, m.whom) /\ queue' = Passed(x, y, m)
         /\ UNCHANGED <<status, history>> /\ Exists(x, m.chan)
  BY DEF ReceiveRight, Operator
<1> QED BY <1>4, <1>5, <1>6

LEMMA ReceiveQueryKeeps ==
    ASSUME IInv, NEW x, NEW y, ReceiveQuery(x, y)
    PROVE  IInv' /\ status' = "terminated" /\ UNCHANGED history
BY EndKeeps DEF ReceiveQuery, Dies

LEMMA ReceiveTopicKeeps ==
    ASSUME IInv, NEW x \in Servers, NEW y \in Servers, NEW m, m = Head(queue[y][x]), ReceiveTopic(x, y)
    PROVE  /\ IInv' /\ m.type = "TOPIC" /\ UNCHANGED history
           /\ \/ status' = "terminated"
              \/ /\ MembersStay /\ usr' = usr /\ chan_of' = chan_of
                 /\ \/ Transfer(x, y, TRUE, {}, m)
                    \/ Transfer(x, y, TRUE, peers[x], m)
<1>1. Receives(x, y, "TOPIC")
  BY DEF ReceiveTopic
<1>2. m \in Msg /\ m.type = "TOPIC" /\ peers' = peers /\ given' = given /\ queue[y][x] # <<>>
  BY <1>1, ReceivesIs
<1>3. m.chan \in Chans /\ m.topic \in Topics \cup {None}
  BY <1>2, Fields
<1>4. CASE Dies
  <2>1. IInv'
    BY <1>1, <1>4, EndKeeps
  <2> QED BY <1>2, <1>4, <2>1 DEF Dies
<1>5. CASE Dropped(x, y)
  BY <1>1, <1>2, <1>5, DroppedKeeps DEF Dropped
<1>6. CASE /\ SetTopic(x, m.chan, m.topic) /\ queue' = Sent(Taken(x, y), x, peers[x], m)
           /\ UNCHANGED <<status, history>> /\ Exists(x, m.chan)
  <2>1. HistoryTyped' /\ SaidKept
    BY <1>6, HistoryStays DEF IInv, TypeInv
  <2>2. ViewsTyped' /\ MembersStay /\ usr' = usr /\ chan_of' = chan_of
    BY <1>3, <1>6, SetTopicEffect DEF IInv, TypeInv
  <2>3. UsersFit' /\ status' \in {"running", "terminated", "undefined"}
    BY <1>2, <1>6, <2>2, SameUsers DEF IInv, TypeInv
  <2>4. Transfer(x, y, TRUE, peers[x], m)
    BY <1>2, <1>6 DEF Transfer
  <2>5. Refers(m)' /\ \A w \in peers[x] : Fits(m, x, w)'
    BY <1>2, TopicFits
  <2>6. queue' \in Queues /\ Peered' /\ Connected' /\ Traffic'
    BY <2>1, <2>4, <2>5, TransferKeeps
  <2>7. IInv'
    BY <1>2, <2>1, <2>2, <2>3, <2>6, Kept
  <2> QED BY <1>2, <1>6, <2>2, <2>4, <2>7
<1>7. \/ Dies \/ Dropped(x, y)
      \/ /\ SetTopic(x, m.chan, m.topic) /\ queue' = Sent(Taken(x, y), x, peers[x], m)
         /\ UNCHANGED <<status, history>> /\ Exists(x, m.chan)
  BY DEF ReceiveTopic, TopicAllowed, Operator
<1> QED BY <1>4, <1>5, <1>6, <1>7

LEMMA ReceivePrivmsgKeeps ==
    ASSUME IInv, NEW x \in Servers, NEW y \in Servers, NEW m, m = Head(queue[y][x]), ReceivePrivmsg(x, y)
    PROVE  /\ IInv' /\ m.type = "SAY" /\ m.who \in Users /\ m.number \in DOMAIN said
           /\ UNCHANGED <<said, apart>>
           /\ \/ status' = "terminated" /\ heard' = heard
              \/ /\ UNCHANGED <<views, status>> /\ Hear(LocalReaders(x, m.who, m.chan), m.number)
                 /\ Transfer(x, y, TRUE, Others(x, y), m)
                 /\ Exists(x, m.chan)
<1>1. Receives(x, y, "SAY")
  BY DEF ReceivePrivmsg
<1>2. m \in Msg /\ m.type = "SAY" /\ Refers(m) /\ peers' = peers
  BY <1>1, ReceivesIs
<1>3. m.who \in Users /\ m.chan \in Chans /\ m.type \in Plain /\ m.number \in DOMAIN said
  BY <1>2, Fields DEF Plain, Outward, Refers, Numbered
<1>4. CASE Dies
  <2>1. IInv'
    BY <1>1, <1>4, EndKeeps
  <2> QED BY <1>2, <1>3, <1>4, <2>1 DEF Dies, history
<1>5. CASE /\ Hears(x, m.who, m.chan, m.number) /\ queue' = Passed(x, y, m)
           /\ UNCHANGED <<views, status, said, apart>> /\ Exists(x, m.chan)
  <2>1. Hear(LocalReaders(x, m.who, m.chan), m.number)
    BY <1>5, HearsIs
  <2>2. heard' \in [Users -> Seq(DOMAIN said')]
    BY <1>3, <1>5, <2>1, HearTyped DEF IInv, TypeInv
  <2>3. HistoryTyped' /\ SaidKept
    BY <1>5, <2>2 DEF IInv, TypeInv, HistoryTyped, SaidKept
  <2>4. ViewsTyped' /\ UsersFit' /\ status' \in {"running", "terminated", "undefined"}
    BY <1>2, <1>5, SameViews, SameUsers DEF IInv, TypeInv
  <2>5. Refers(m)'
    BY <1>2, <2>3 DEF Refers, Numbered, SaidKept
  <2>6. IInv' /\ Transfer(x, y, TRUE, Others(x, y), m)
    BY <1>1, <1>2, <1>3, <1>5, <2>3, <2>4, <2>5, ReceivedKeeps
  <2> QED BY <1>2, <1>3, <1>5, <2>1, <2>6
<1>6. \/ Dies
      \/ /\ Hears(x, m.who, m.chan, m.number) /\ queue' = Passed(x, y, m)
         /\ UNCHANGED <<views, status, said, apart>> /\ Exists(x, m.chan)
  BY DEF ReceivePrivmsg
<1> QED BY <1>4, <1>5, <1>6

\* What a handler sends on to one link.
LEMMA SentOnKeeps ==
    ASSUME IInv, NEW x \in Servers, NEW y \in Servers, queue[y][x] # <<>>, peers' = peers, given' = given,
           NEW S, S \subseteq peers[x], NEW m \in Msg, queue' = Sent(Taken(x, y), x, S, m),
           UNCHANGED views, SaidKept, HistoryTyped', status' = status,
           Refers(m)', \A w \in S : Fits(m, x, w)'
    PROVE  IInv' /\ Transfer(x, y, TRUE, S, m)
<1>1. Transfer(x, y, TRUE, S, m)
  BY DEF Transfer
<1>2. queue' \in Queues /\ Peered' /\ Connected' /\ Traffic'
  BY <1>1, TransferKeeps
<1>3. ViewsTyped' /\ UsersFit' /\ status' \in {"running", "terminated", "undefined"}
  BY SameViews, SameUsers DEF IInv, TypeInv
<1> QED BY <1>1, <1>2, <1>3, Kept

LEMMA ForwardedKeeps ==
    ASSUME IInv, NEW x \in Servers, NEW y \in Servers, NEW m, m = Head(queue[y][x]),
           NEW type \in {"TELL", "ANSWER"}, Receives(x, y, type),
           Forward(Taken(x, y), x, m.whom, m), UNCHANGED <<views, status, said, apart>>
    PROVE  /\ IInv' /\ m.type = type /\ m.whom \in Users /\ m.number \in DOMAIN said
           /\ Transfer(x, y, TRUE, Towards(x, m.whom), m)
           /\ Hear({w \in {m.whom} : usr[x][w] = x}, m.number)
<1>1. /\ m \in Msg /\ m.type = type /\ Refers(m) /\ peers' = peers /\ given' = given
      /\ queue[y][x] # <<>> /\ y # x /\ Fits(m, y, x) /\ y \in peers[x] /\ Route[x][y] = y
  BY ReceivesIs
<1>2. m.whom \in Users /\ m.number \in DOMAIN said
  BY <1>1, Fields DEF Refers, Numbered
<1>11. PICK v \in Users : v = m.whom
  BY <1>2
<1>3. PICK S, q : v = m.whom /\ S = Towards(x, v) /\ q = Taken(x, y)
  BY <1>11
<1>4. q \in Queues
  BY <1>1, <1>3, TakenEffect DEF IInv
<1>5. queue' = Sent(q, x, S, m) /\ S \subseteq peers[x] /\ Hear({w \in {v} : usr[x][w] = x}, m.number)
  BY <1>1, <1>3, <1>4, ForwardIs
<1>6. heard' \in [Users -> Seq(DOMAIN said')]
  BY <1>2, <1>5, HearTyped DEF IInv, TypeInv
<1>7. HistoryTyped' /\ SaidKept
  BY <1>6 DEF IInv, TypeInv, HistoryTyped, SaidKept
<1>8. Refers(m)'
  BY <1>1, <1>7 DEF Refers, Numbered, SaidKept
<1>9. ASSUME NEW w \in S PROVE Fits(m, x, w)'
  <2>1. w = usr[x][v] /\ usr[x][v] \in Servers \ {x}
    BY <1>3 DEF Towards
  <2>2. w = Route[x][Home[v]] /\ w \in peers[x] /\ w # x /\ Route[x][w] = w /\ Home[v] # x
    BY <2>1, LinkTo DEF IInv, Peered
  <2>3. Route[y][Home[v]] = x
    BY <1>1, <1>3 DEF Fits
  <2>4. w \in Servers /\ w # x /\ Route[x][w] = w /\ w # y
    <3>1. PICK h \in Servers : h = Home[v]
      BY ServerOf
    <3>2. w # y
      BY <1>1, <2>2, <2>3, <3>1, OneSide
    <3> QED BY <2>1, <2>2, <3>2
  <2>5. CASE type = "TELL"
    <3>1. Route[x][Home[m.who]] = y /\ Up(Home[m.who]) /\ m.who \in Users
      BY <1>1, <2>5, Fields DEF Fits, Outward
    <3>2. Route[w][Home[m.who]] = x
      <4>1. PICK h \in Servers : h = Home[m.who]
        BY <3>1, ServerOf
      <4>2. Route[x][h] = y
        BY <3>1, <4>1
      <4>3. Route[w][h] = x
        BY <2>4, <4>2, Onward
      <4> QED BY <4>1, <4>3
    <3>3. Fits(m, x, w)
      BY <1>1, <1>3, <2>2, <2>5, <3>1, <3>2 DEF Fits, Outward
    <3> QED BY <1>1, <2>5, <3>3, FitsStays
  <2>6. CASE type = "ANSWER"
    <3>1. PICK f \in Servers : f = said[m.number].from /\ Route[x][f] = y
      BY <1>1, <2>6 DEF Fits
    <3>2. Route[x][f] = y
      BY <3>1
    <3>4. Route[w][f] = x
      BY <2>4, <3>2, Onward
    <3>3. Fits(m, x, w)
      BY <1>1, <1>3, <2>2, <2>6, <3>1, <3>4 DEF Fits, Outward
    <3> QED BY <1>1, <1>7, <3>3, StillFits
  <2> QED BY <2>5, <2>6
<1>10. IInv' /\ Transfer(x, y, TRUE, S, m)
  BY <1>1, <1>3, <1>5, <1>7, <1>8, <1>9, SentOnKeeps
<1> QED BY <1>1, <1>2, <1>3, <1>5, <1>10

LEMMA ReceivePrivmsgUserKeeps ==
    ASSUME IInv, NEW x \in Servers, NEW y \in Servers, NEW m, m = Head(queue[y][x]), ReceivePrivmsgUser(x, y)
    PROVE  /\ IInv' /\ m.type = "TELL" /\ m.whom \in Users /\ m.number \in DOMAIN said
           /\ Transfer(x, y, TRUE, Towards(x, m.whom), m)
           /\ Hear({w \in {m.whom} : usr[x][w] = x}, m.number)
BY ForwardedKeeps DEF ReceivePrivmsgUser

LEMMA ReceiveAnswerKeeps ==
    ASSUME IInv, NEW x \in Servers, NEW y \in Servers, NEW m, m = Head(queue[y][x]), ReceiveAnswer(x, y)
    PROVE  /\ IInv' /\ m.type = "ANSWER" /\ m.whom \in Users /\ m.number \in DOMAIN said
           /\ Transfer(x, y, TRUE, Towards(x, m.whom), m)
           /\ Hear({w \in {m.whom} : usr[x][w] = x}, m.number)
BY ForwardedKeeps DEF ReceiveAnswer

LEMMA ReceiveVersionKeeps ==
    ASSUME IInv, NEW x \in Servers, NEW y \in Servers, NEW m, m = Head(queue[y][x]), ReceiveVersion(x, y)
    PROVE  /\ IInv' /\ m.type = "ASK" /\ m.who \in Users /\ m.server \in Servers
           /\ m.number \in DOMAIN said /\ UNCHANGED <<views, status, history>>
           /\ \/ m.server = x /\ Transfer(x, y, TRUE, {y}, ANSWERof(m.who, m.number))
              \/ m.server # x /\ Transfer(x, y, TRUE, {Route[x][m.server]}, m)
<1>1. Receives(x, y, "ASK") /\ UNCHANGED <<views, status, history>>
  BY DEF ReceiveVersion
<1>2. /\ m \in Msg /\ m.type = "ASK" /\ Refers(m) /\ peers' = peers /\ given' = given
      /\ queue[y][x] # <<>> /\ y # x /\ Fits(m, y, x) /\ y \in peers[x] /\ Route[x][y] = y /\ Up(x)
      /\ Route[y][x] = x
  BY <1>1, ReceivesIs
<1>3. m.who \in Users /\ m.server \in Servers /\ m.number \in DOMAIN said /\ m.number \in Nat
  BY <1>2, Fields DEF Refers, Numbered, Outward
<1>4. HistoryTyped' /\ SaidKept
  BY <1>1, HistoryStays DEF IInv, TypeInv
<1>5. /\ Route[x][Home[m.who]] = y /\ Up(Home[m.who]) /\ Route[y][m.server] = x /\ Up(m.server)
      /\ said[m.number].from = m.server /\ said[m.number].readers \subseteq {m.who}
  BY <1>2 DEF Fits, Outward, Refers
<1>6. CASE m.server = x
  <2>1. PICK o \in Msg : /\ o = ANSWERof(m.who, m.number) /\ o.type = "ANSWER"
                         /\ o.whom = m.who /\ o.number = m.number
    BY <1>3, AnswerMessage
  <2>2. PICK S : S = {y}
    OBVIOUS
  <2>3. queue' = Sent(Taken(x, y), x, S, o)
    BY <1>6, <2>1, <2>2 DEF ReceiveVersion
  <2>4. Refers(o)
    BY <1>3, <1>5, <2>1 DEF Refers, Numbered
  <2>5. Fits(o, x, y)
    BY <1>2, <1>5, <1>6, <2>1 DEF Fits, Outward
  <2>6. Refers(o)' /\ \A w \in S : Fits(o, x, w)'
    BY <1>2, <1>4, <2>2, <2>4, <2>5, StillFits
  <2>7. IInv' /\ Transfer(x, y, TRUE, S, o)
    BY <1>1, <1>2, <1>4, <2>2, <2>3, <2>6, SentOnKeeps
  <2> QED BY <1>1, <1>2, <1>3, <1>6, <2>1, <2>2, <2>7
<1>7. CASE m.server # x
  <2>1. PICK w \in Servers : w = Route[x][m.server]
    BY <1>3, NextHop
  <2>2. PICK S : S = {w}
    OBVIOUS
  <2>3. queue' = Sent(Taken(x, y), x, S, m)
    BY <1>7, <2>1, <2>2 DEF ReceiveVersion
  <2>4. w \in peers[x] /\ w # x /\ Route[x][w] = w
    <3>1. Connected /\ Peered
      BY DEF IInv
    <3>2. w \in peers[x]
      BY <1>2, <1>3, <1>5, <1>7, <2>1, <3>1 DEF Connected
    <3> QED BY <1>2, <3>1, <3>2 DEF Peered
  <2>5. w # y
    BY <1>2, <1>3, <1>5, <2>1, OneSide
  <2>6. Route[w][Home[m.who]] = x
    BY <1>2, <1>3, <1>5, <2>4, <2>5, Onward, ServerOf
  <2>7. Fits(m, x, w)
    BY <1>2, <1>5, <2>1, <2>6 DEF Fits, Outward
  <2>8. Refers(m)' /\ \A o \in S : Fits(m, x, o)'
    BY <1>2, <1>4, <2>2, <2>7, StillFits
  <2>9. IInv' /\ Transfer(x, y, TRUE, S, m)
    BY <1>1, <1>2, <1>4, <2>2, <2>3, <2>4, <2>8, SentOnKeeps
  <2> QED BY <1>1, <1>2, <1>3, <1>7, <2>1, <2>2, <2>9
<1> QED BY <1>6, <1>7

-----------------------------------------------------------------------------
(* The introduction of a server. *)

\* SetToSeq lists a finite set.
LEMMA SetToSeqIs ==
    ASSUME NEW S, IsFiniteSet(S)
    PROVE  /\ SetToSeq(S) \in Seq(S) /\ ToSet(SetToSeq(S)) = S /\ Len(SetToSeq(S)) \in Nat
           /\ DOMAIN SetToSeq(S) = 1..Len(SetToSeq(S))
           /\ \A i, j \in DOMAIN SetToSeq(S) : SetToSeq(S)[i] = SetToSeq(S)[j] => i = j
<1> DEFINE n == Cardinality(S)
<1>1. n \in Nat /\ ExistsBijection(1..n, S)
  BY FS_CardinalityType
<1>2. \E f \in [1..n -> S] : IsInjective(f)
  BY <1>1 DEF ExistsBijection, Bijection, Injection
<1>3. SetToSeq(S) \in [1..n -> S] /\ IsInjective(SetToSeq(S))
  BY <1>2 DEF SetToSeq
<1>4. SetToSeq(S) \in Injection(1..n, S)
  BY <1>3 DEF Injection
<1>5. IsFiniteSet(1..n) /\ Cardinality(1..n) = n
  BY <1>1, FS_Interval
<1>6. SetToSeq(S) \in Surjection(1..n, S)
  BY <1>4, <1>5, FS_Injection
<1>7. SetToSeq(S) \in Seq(S)
  BY <1>1, <1>3, SeqDef
<1> HIDE DEF n
<1>8. \A i, j \in DOMAIN SetToSeq(S) : SetToSeq(S)[i] = SetToSeq(S)[j] => i = j
  BY <1>3 DEF IsInjective
<1> QED BY <1>6, <1>7, <1>8, LenProperties DEF Surjection, ToSet

LEMMA ThirdsOf ==
    ASSUME NEW l \in Nat, NEW n \in 1..(3 * l)
    PROVE  /\ (n + 2) \div 3 \in 1..l /\ n % 3 \in 0..2
           /\ n % 3 = 1 => n = 3 * ((n + 2) \div 3) - 2
OBVIOUS

LEMMA FirstOfThree ==
    ASSUME NEW l \in Nat, NEW k \in 1..l
    PROVE  3 * k - 2 \in 1..(3 * l) /\ (3 * k - 2) % 3 = 1 /\ ((3 * k - 2) + 2) \div 3 = k
OBVIOUS

LEMMA ListedTyped ==
    ASSUME NEW ch \in Channel
    PROVE  /\ Listed(ch) \subseteq Users /\ ch.operators \subseteq Listed(ch)
           /\ ch.users \subseteq Listed(ch) /\ ch.moderators \subseteq Listed(ch)
BY DEF Listed, Channel

LEMMA BurstMessages ==
    ASSUME ViewsTyped, NEW x \in Servers, NEW c \in DOMAIN channels[x], NEW i
    PROVE  /\ NJOINof(x, c, i) \in Msg /\ NJOINof(x, c, i).type = "NJOIN"
           /\ NJOINof(x, c, i).chan = c /\ NJOINof(x, c, i).users = Listed(channels[x][c])
           /\ NJOINof(x, c, i).operators \subseteq Listed(channels[x][c])
           /\ NJOINof(x, c, i).moderators \subseteq Listed(channels[x][c])
           /\ NJOINof(x, c, i).glued <=> i > 1
           /\ STOPICof(x, c) \in Msg /\ STOPICof(x, c).type = "STOPIC"
           /\ SMODEof(c, channels[x][c].modes) \in Msg /\ SMODEof(c, channels[x][c].modes).type = "SMODE"
<1>1. c \in Chans /\ channels[x][c] \in Channel
  BY ChannelAt
<1>2. Listed(channels[x][c]) \subseteq Users
      /\ channels[x][c].operators \subseteq Listed(channels[x][c])
      /\ channels[x][c].moderators \subseteq Listed(channels[x][c])
  BY <1>1, ListedTyped
<1>3. channels[x][c].topic \in Topics \cup {None} /\ channels[x][c].modes \subseteq Modes
  BY <1>1 DEF Channel
<1>4. NJOINof(x, c, i) \in Msg
  BY <1>1, <1>2 DEF Msg, NJOINof
<1>5. STOPICof(x, c) \in Msg /\ SMODEof(c, channels[x][c].modes) \in Msg
  BY <1>1, <1>3 DEF Msg, STOPICof, SMODEof
<1> QED BY <1>2, <1>4, <1>5 DEF NJOINof, STOPICof, SMODEof

LEMMA BurstIs ==
    ASSUME ViewsTyped, NEW x \in Servers,
           NEW cs, cs = SetToSeq(DOMAIN channels[x])
    PROVE  /\ cs \in Seq(DOMAIN channels[x]) /\ ToSet(cs) = DOMAIN channels[x]
           /\ Len(cs) \in Nat /\ DOMAIN cs = 1..Len(cs)
           /\ \A i, j \in 1..Len(cs) : cs[i] = cs[j] => i = j
           /\ \A i \in 1..Len(cs) : cs[i] \in DOMAIN channels[x]
           /\ Burst(x) \in Seq(Msg) /\ Len(Burst(x)) = 3 * Len(cs)
           /\ \A n \in 1..(3 * Len(cs)) :
                 /\ Burst(x)[n].type \in {"NJOIN", "STOPIC", "SMODE"}
                 /\ Burst(x)[n].type = "NJOIN" =>
                       \E k \in 1..Len(cs) : n = 3 * k - 2 /\ Burst(x)[n] = NJOINof(x, cs[k], k)
           /\ \A k \in 1..Len(cs) : Burst(x)[3 * k - 2] = NJOINof(x, cs[k], k)
<1>1. IsFiniteSet(DOMAIN channels[x])
  BY ChannelAt, FiniteAssumption, FS_Subset
<1>2. /\ cs \in Seq(DOMAIN channels[x]) /\ ToSet(cs) = DOMAIN channels[x]
      /\ Len(cs) \in Nat /\ DOMAIN cs = 1..Len(cs)
      /\ \A i, j \in DOMAIN cs : cs[i] = cs[j] => i = j
  BY <1>1, SetToSeqIs
<1>3. \A i \in 1..Len(cs) : cs[i] \in DOMAIN channels[x]
  BY <1>2, ElementOfSeq
<1> DEFINE k(n) == (n + 2) \div 3
           Three(n) == <<SMODEof(cs[k(n)], channels[x][cs[k(n)]].modes), NJOINof(x, cs[k(n)], k(n)),
                         STOPICof(x, cs[k(n)])>>
<1>4. Burst(x) = [n \in 1..(3 * Len(cs)) |-> Three(n)[(n % 3) + 1]]
  BY DEF Burst
<1>5. \A n \in 1..(3 * Len(cs)) : k(n) \in 1..Len(cs) /\ n % 3 \in 0..2 /\ (n % 3 = 1 => n = 3 * k(n) - 2)
  BY <1>2, ThirdsOf
<1> HIDE DEF k
<1>6. ASSUME NEW n \in 1..(3 * Len(cs))
      PROVE  /\ Burst(x)[n] \in Msg
             /\ Burst(x)[n].type \in {"NJOIN", "STOPIC", "SMODE"}
             /\ Burst(x)[n].type = "NJOIN" =>
                   /\ k(n) \in 1..Len(cs) /\ n = 3 * k(n) - 2
                   /\ Burst(x)[n] = NJOINof(x, cs[k(n)], k(n))
  <2>1. cs[k(n)] \in DOMAIN channels[x]
    BY <1>3, <1>5
  <2>2. PICK c \in DOMAIN channels[x], i \in 1..Len(cs) : c = cs[k(n)] /\ i = k(n)
    BY <1>5, <2>1
  <2>3. CASE n % 3 = 0
    <3>1. Burst(x)[n] = SMODEof(c, channels[x][c].modes)
      BY <1>4, <2>2, <2>3
    <3> QED BY <3>1, BurstMessages
  <2>4. CASE n % 3 = 1
    <3>1. Burst(x)[n] = NJOINof(x, c, i)
      BY <1>4, <2>2, <2>4
    <3> QED BY <1>5, <2>2, <2>4, <3>1, BurstMessages
  <2>5. CASE n % 3 = 2
    <3>1. Burst(x)[n] = STOPICof(x, c)
      BY <1>4, <2>2, <2>5
    <3> QED BY <3>1, BurstMessages
  <2> QED BY <1>5, <2>3, <2>4, <2>5
<1>7. \A j \in 1..Len(cs) : Burst(x)[3 * j - 2] = NJOINof(x, cs[j], j)
  <2> TAKE j \in 1..Len(cs)
  <2>1. 3 * j - 2 \in 1..(3 * Len(cs)) /\ (3 * j - 2) % 3 = 1 /\ k(3 * j - 2) = j
    BY <1>2, FirstOfThree DEF k
  <2>2. PICK n \in 1..(3 * Len(cs)) : n = 3 * j - 2 /\ n % 3 = 1 /\ k(n) = j
    BY <2>1
  <2>3. Burst(x)[n] = NJOINof(x, cs[j], j)
    BY <1>4, <2>2
  <2> QED BY <2>2, <2>3
<1>8. Burst(x) \in Seq(Msg) /\ Len(Burst(x)) = 3 * Len(cs)
  <2>1. PICK l \in Nat : l = 3 * Len(cs)
    BY <1>2
  <2>2. Burst(x) \in [1..l -> Msg]
    BY <1>4, <1>6, <2>1
  <2> QED BY <2>1, <2>2, SeqDef, LenProperties
<1> QED BY <1>2, <1>3, <1>6, <1>7, <1>8

\* The introduction r: the l users us, and then b.
Parts(x, us, l, b, r) ==
    us = SetToSeq(Known(x)) /\ l = Len(us) /\ b = Burst(x) /\ r = Introduction(x)

LEMMA IntroductionIs ==
    ASSUME ViewsTyped, NEW x \in Servers, NEW us, NEW l, NEW b, NEW r, Parts(x, us, l, b, r)
    PROVE  /\ ToSet(us) = Known(x) /\ DOMAIN us = 1..l
           /\ \A i, j \in 1..l : us[i] = us[j] => i = j
           /\ \A i \in 1..l : us[i] \in Known(x)
           /\ r \in Seq(Msg) /\ l \in Nat /\ Len(b) \in Nat
           /\ Len(r) = l + Len(b)
           /\ DOMAIN r = 1..(l + Len(b))
           /\ \A i \in 1..l : r[i] = NICKof(us[i])
           /\ \A i \in 1..Len(b) : r[l + i] = b[i]
<1>1. IsFiniteSet(Known(x)) /\ Known(x) \subseteq Users
  BY FiniteAssumption, FS_Subset DEF Known
<1>2. /\ us \in Seq(Known(x)) /\ ToSet(us) = Known(x) /\ l \in Nat /\ DOMAIN us = 1..l
      /\ \A i, j \in 1..l : us[i] = us[j] => i = j
  BY <1>1, SetToSeqIs DEF Parts
<1>3. \A i \in 1..l : us[i] \in Known(x)
  BY <1>2, ElementOfSeq
<1>4. b \in Seq(Msg) /\ Len(b) \in Nat
  BY BurstIs, LenProperties DEF Parts
<1> DEFINE q == [i \in DOMAIN us |-> NICKof(us[i])]
<1>5. q \in Seq(Msg) /\ Len(q) = l /\ \A i \in 1..l : q[i] = NICKof(us[i])
  <2>1. q \in [1..l -> Msg]
    BY <1>1, <1>2, <1>3, UserMessages
  <2>2. \A i \in 1..l : q[i] = NICKof(us[i])
    BY <1>2
  <2> HIDE DEF q
  <2> QED BY <1>2, <2>1, <2>2, SeqDef, LenProperties
<1>6. r = q \o b
  BY DEF Introduction, Parts
<1> HIDE DEF q
<1>7. /\ q \o b \in Seq(Msg) /\ Len(q \o b) = l + Len(b)
      /\ \A i \in 1..(l + Len(b)) : (q \o b)[i] = IF i <= l THEN q[i] ELSE b[i - l]
  <2>1. /\ q \o b \in Seq(Msg) /\ Len(q \o b) = Len(q) + Len(b)
        /\ \A i \in 1..(Len(q) + Len(b)) : (q \o b)[i] = IF i <= Len(q) THEN q[i] ELSE b[i - Len(q)]
    BY <1>4, <1>5, ConcatProperties
  <2> QED BY <1>5, <2>1
<1>8. DOMAIN (q \o b) = 1..(l + Len(b))
  BY <1>7, LenProperties
<1>9. \A i \in 1..l : (q \o b)[i] = NICKof(us[i])
  BY <1>2, <1>4, <1>5, <1>7
<1>10. \A i \in 1..Len(b) : (q \o b)[l + i] = b[i]
  <2> TAKE i \in 1..Len(b)
  <2>1. l + i \in 1..(l + Len(b)) /\ ~(l + i <= l) /\ (l + i) - l = i
    BY <1>2, <1>4
  <2> QED BY <1>7, <2>1
<1> QED BY <1>2, <1>3, <1>4, <1>6, <1>7, <1>8, <1>9, <1>10

\* What a server of which all the others are behind p knows of them.
LEMMA NewcomerReaches ==
    ASSUME IInv, NEW y \in Late, NEW p \in Servers, peers[y] = {}, p # y, Route[y][p] = p, p \notin Late
    PROVE  /\ y \in Servers /\ Route[p][y] = y /\ ~Up(y) /\ Up(p)
           /\ \A z \in Servers : Up(z) => Route[y][z] = p /\ (z # p => Route[z][y] = Route[z][p])
           /\ \A z \in Servers : y \notin peers[z]
<1>1. y \in Servers /\ Route[p][y] = y /\ ~Up(y) /\ Up(p)
  BY LateAssumption, Neighbours DEF Up
<1>2. \A z \in Servers : y \notin peers[z]
  BY DEF IInv, Peered
<1>3. ASSUME NEW z \in Servers, Up(z)
      PROVE  Route[y][z] = p /\ (z # p => Route[z][y] = Route[z][p])
  <2>1. z # y
    BY <1>1, <1>3
  <2>2. Route[p][z] # y
    <3>1. CASE z = p
      BY <3>1, NextHop
    <3>2. CASE z # p
      BY <1>1, <1>2, <1>3, <3>2 DEF IInv, Connected
    <3> QED BY <3>1, <3>2
  <2>3. Route[y][z] = p
    BY <1>1, <2>2, OneSide
  <2>4. z # p => Route[z][y] = Route[z][p]
    BY <1>1, <2>1, SameWay
  <2> QED BY <2>3, <2>4
<1> QED BY <1>1, <1>2, <1>3

LEMMA LinkUpKeeps ==
    ASSUME IInv, NEW y \in Servers, NEW p \in Servers, LinkUp(y, p)
    PROVE  IInv'
<1>1. /\ status = "running" /\ y \in Late /\ peers[y] = {} /\ p # y /\ Route[y][p] = p /\ p \notin Late
      /\ peers' = [peers EXCEPT ![y] = {p}, ![p] = @ \cup {y}]
      /\ UNCHANGED <<views, given, said, heard>>
      /\ apart' = apart \cup UNION {(Listed(channels[p][c]) \ channels[p][c].users) \X {c} :
                                       c \in DOMAIN channels[p]}
  BY DEF LinkUp
<1>2. /\ Route[p][y] = y /\ ~Up(y) /\ Up(p)
      /\ \A z \in Servers : Up(z) => Route[y][z] = p /\ (z # p => Route[z][y] = Route[z][p])
      /\ \A z \in Servers : y \notin peers[z]
  BY <1>1, NewcomerReaches
<1>3. /\ peers' \in [Servers -> SUBSET Servers]
      /\ \A a \in Servers : peers'[a] = IF a = y THEN {p} ELSE IF a = p THEN peers[p] \cup {y} ELSE peers[a]
  BY <1>1 DEF IInv, TypeInv
<1>4. \A a \in Servers : Up(a)' <=> Up(a) \/ a = y
  BY <1>1, <1>3 DEF Up
<1>5. ViewsTyped' /\ usr' = usr
  BY <1>1, SameViews DEF IInv, TypeInv
<1>6. UsersFit'
  BY <1>4, <1>5, ServerOf DEF IInv, UsersFit
<1>7. HistoryTyped' /\ SaidKept
  <2>1. \A c \in DOMAIN channels[p] : c \in Chans /\ Listed(channels[p][c]) \subseteq Users
    BY ChannelAt, ListedTyped DEF IInv, TypeInv
  <2>2. UNION {(Listed(channels[p][c]) \ channels[p][c].users) \X {c} : c \in DOMAIN channels[p]}
          \subseteq Users \X Chans
    BY <2>1
  <2> QED BY <1>1, <2>2 DEF IInv, TypeInv, HistoryTyped, SaidKept
<1>8. Connected'
  <2>1. ASSUME NEW x \in Servers, NEW z \in Servers, Up(x) \/ x = y, Up(z) \/ z = y, x # z
        PROVE  Route[x][z] \in peers'[x]
    <3>1. CASE x = y
      BY <1>2, <1>3, <2>1, <3>1
    <3>2. CASE x # y /\ z = y /\ x = p
      BY <1>2, <1>3, <3>2
    <3>3. CASE x # y /\ z = y /\ x # p
      <4>1. Route[x][y] = Route[x][p] /\ Up(x)
        BY <1>2, <2>1, <3>3
      <4>2. Route[x][p] \in peers[x]
        BY <1>2, <3>3, <4>1 DEF IInv, Connected
      <4> QED BY <1>3, <3>3, <4>1, <4>2
    <3>4. CASE x # y /\ z # y
      <4>1. Route[x][z] \in peers[x]
        BY <2>1, <3>4 DEF IInv, Connected
      <4> QED BY <1>3, <3>4, <4>1
    <3> QED BY <3>1, <3>2, <3>3, <3>4
  <2>2. ASSUME NEW a \in Late, NEW x \in peers'[a]
        PROVE  peers'[a] = {x} /\ x \notin Late
    BY <1>1, <1>3, <2>2, LateAssumption DEF IInv, Connected
  <2> QED BY <1>4, <2>1, <2>2 DEF Connected
<1>9. ASSUME NEW m, NEW b \in Servers, NEW a \in Servers, Fits(m, b, a), Refers(m), m \in Msg
      PROVE  Fits(m, b, a)' /\ Refers(m)'
  <2>1. Refers(m)'
    BY <1>9, <1>7 DEF Refers, SaidKept, Numbered
  <2>2. m.type = "ANSWER" => m.number \in DOMAIN said
    BY <1>9 DEF Refers, Numbered
  <2>3. m.type \in Outward => Up(Home[m.who])'
    BY <1>4, <1>9, Fields, ServerOf DEF Fits
  <2>4. m.type = "ANSWER" => Up(Home[m.whom])'
    BY <1>4, <1>9, Fields, ServerOf DEF Fits
  <2>5. m.type = "ASK" => Up(m.server)'
    BY <1>4, <1>9, Fields DEF Fits
  <2>6. a \in Late /\ peers[a] = {b} => peers'[a] = {b}
    BY <1>1, <1>3
  <2> QED BY <1>1, <1>9, <2>1, <2>2, <2>3, <2>4, <2>5, <2>6 DEF Fits
<1>10. CASE status' = "undefined" /\ queue' = queue
  <2>1. Peered'
    BY <1>1, <1>2, <1>3, <1>10 DEF IInv, Peered
  <2>2. Traffic'
    <3> SUFFICES ASSUME NEW b \in Servers, NEW a \in Servers, NEW m \in ToSet(queue[b][a])
                 PROVE  Fits(m, b, a)' /\ Refers(m)'
      BY <1>10 DEF Traffic
    <3>1. Fits(m, b, a) /\ Refers(m)
      BY DEF IInv, Traffic
    <3>2. m \in Msg
      BY DEF IInv, TypeInv, Queues, ToSet
    <3> QED BY <1>9, <3>1, <3>2
  <2> QED BY <1>1, <1>3, <1>5, <1>6, <1>7, <1>8, <1>10, <2>1, <2>2 DEF IInv, TypeInv
<1>11. CASE /\ \A c \in DOMAIN channels[p] : Listed(channels[p][c]) \subseteq Known(p)
            /\ queue' = [queue EXCEPT ![p][y] = Introduction(p)] /\ status' = status
  <2>1. Introduction(p) \in Seq(Msg)
    <3>1. PICK us, l, b, r : Parts(p, us, l, b, r)
      BY DEF Parts
    <3>2. r \in Seq(Msg)
      BY <3>1, IntroductionIs DEF IInv, TypeInv
    <3> QED BY <3>1, <3>2 DEF Parts
  <2>2. queue' \in Queues
        /\ \A b, a \in Servers : queue'[b][a] = IF b = p /\ a = y THEN Introduction(p) ELSE queue[b][a]
    BY <1>11, <2>1 DEF IInv, TypeInv, Queues
  <2>3. Peered'
    BY <1>1, <1>2, <1>3, <2>2 DEF IInv, Peered
  <2>4. ASSUME NEW m \in ToSet(Introduction(p))
        PROVE  Fits(m, p, y)' /\ Refers(m)' 
    <3>0. PICK us, l, b, r : Parts(p, us, l, b, r)
      BY DEF Parts
    <3>1. /\ l \in Nat /\ Len(b) \in Nat /\ DOMAIN r = 1..(l + Len(b))
          /\ \A j \in 1..l : r[j] = NICKof(us[j]) /\ us[j] \in Known(p)
          /\ \A j \in 1..Len(b) : r[l + j] = b[j]
      BY <3>0, IntroductionIs DEF IInv, TypeInv
    <3>2. PICK i \in 1..(l + Len(b)) : m = r[i]
      BY <3>0, <3>1 DEF ToSet, Parts
    <3>3. ASSUME NEW u \in Known(p) PROVE u \in Users /\ Route[y][Home[u]] = p /\ Up(Home[u])
      <4>1. u \in Users /\ usr[p][u] # None
        BY DEF Known
      <4>2. Up(Home[u])
        BY <4>1 DEF IInv, UsersFit
      <4> QED BY <1>2, <4>1, <4>2, ServerOf
    <3>4. CASE i \in 1..l
      <4>1. PICK u \in Known(p) : m = NICKof(u)
        BY <3>1, <3>2, <3>4
      <4>2. m.type = "NICK" /\ m.who = u /\ u \in Users /\ Home[u] \in Servers
        BY <3>3, <4>1, UserMessages, ServerOf
      <4>3. Route[y][Home[u]] = p /\ Up(Home[u])'
        BY <1>4, <3>3, <4>2
      <4> QED BY <4>2, <4>3 DEF Fits, Refers, Numbered
    <3>5. CASE i \notin 1..l
      <4>1. PICK j \in 1..Len(b) : i = l + j
        <5>1. i - l \in 1..Len(b) /\ i = l + (i - l)
          BY <3>1, <3>5
        <5> QED BY <5>1
      <4>2. m = b[j] /\ j \in 1..Len(Burst(p)) /\ m = Burst(p)[j]
        BY <3>0, <3>1, <3>2, <4>1 DEF Parts
      <4>3. PICK cs : cs = SetToSeq(DOMAIN channels[p])
        OBVIOUS
      <4>4. /\ m.type \in {"NJOIN", "STOPIC", "SMODE"}
            /\ m.type = "NJOIN" => \E k \in 1..Len(cs) : m = NJOINof(p, cs[k], k)
        <5>1. ViewsTyped
          BY DEF IInv, TypeInv
        <5>2. /\ Len(cs) \in Nat /\ Len(Burst(p)) = 3 * Len(cs)
              /\ \A n \in 1..(3 * Len(cs)) :
                    /\ Burst(p)[n].type \in {"NJOIN", "STOPIC", "SMODE"}
                    /\ Burst(p)[n].type = "NJOIN" =>
                          \E k \in 1..Len(cs) : n = 3 * k - 2 /\ Burst(p)[n] = NJOINof(p, cs[k], k)
          BY <4>3, <5>1, BurstIs
        <5>3. j \in 1..(3 * Len(cs))
          BY <4>2, <5>2
        <5> QED BY <4>2, <5>2, <5>3
      <4>5. y \in Late /\ peers'[y] = {p}
        BY <1>1, <1>3
      <4>6. m.type = "NJOIN" =>
              /\ \A u \in m.users : Route[y][Home[u]] = p
              /\ m.operators \subseteq m.users /\ m.moderators \subseteq m.users
              /\ m.glued => \E c, d \in Chans : c # d
        <5> HAVE m.type = "NJOIN"
        <5>1. PICK k \in 1..Len(cs) : m = NJOINof(p, cs[k], k)
          BY <4>4
        <5>2. cs[k] \in DOMAIN channels[p] /\ cs[1] \in DOMAIN channels[p] /\ k \in Nat
              /\ (k > 1 => cs[1] # cs[k])
          <6>1. /\ Len(cs) \in Nat /\ \A i2 \in 1..Len(cs) : cs[i2] \in DOMAIN channels[p]
                /\ \A i1, i2 \in 1..Len(cs) : cs[i1] = cs[i2] => i1 = i2
            BY <4>3, BurstIs DEF IInv, TypeInv
          <6>2. k \in Nat /\ 1 \in 1..Len(cs)
            BY <6>1
          <6> QED BY <6>1, <6>2
        <5>3. PICK c \in DOMAIN channels[p] : c = cs[k]
          BY <5>2
        <5>4. /\ m.users = Listed(channels[p][c]) /\ m.operators \subseteq m.users
              /\ m.moderators \subseteq m.users /\ (m.glued <=> k > 1)
          BY <5>1, <5>3, BurstMessages DEF IInv, TypeInv
        <5>5. m.users \subseteq Known(p)
          BY <1>11, <5>4
        <5>6. DOMAIN channels[p] \subseteq Chans
          BY ChannelAt DEF IInv, TypeInv
        <5> QED BY <3>3, <5>2, <5>3, <5>4, <5>5, <5>6
      <4> QED BY <4>4, <4>5, <4>6 DEF Fits, Refers, Outward, Numbered
    <3> QED BY <3>4, <3>5
  <2>5. Traffic'
    <3> SUFFICES ASSUME NEW b \in Servers, NEW a \in Servers, NEW m \in ToSet(queue'[b][a])
                 PROVE  Fits(m, b, a)' /\ Refers(m)'
      BY DEF Traffic
    <3>1. CASE b = p /\ a = y
      BY <2>2, <2>4, <3>1
    <3>2. CASE ~(b = p /\ a = y)
      <4>1. m \in ToSet(queue[b][a])
        BY <2>2, <3>2
      <4>2. Fits(m, b, a) /\ Refers(m)
        BY <4>1 DEF IInv, Traffic
      <4>3. m \in Msg
        BY <4>1 DEF IInv, TypeInv, Queues, ToSet
      <4> QED BY <1>9, <4>2, <4>3
    <3> QED BY <3>1, <3>2
  <2> QED BY <1>1, <1>3, <1>5, <1>6, <1>7, <1>8, <1>11, <2>2, <2>3, <2>5 DEF IInv, TypeInv
<1>12. \/ status' = "undefined" /\ queue' = queue
       \/ /\ \A c \in DOMAIN channels[p] : Listed(channels[p][c]) \subseteq Known(p)
          /\ queue' = [queue EXCEPT ![p][y] = Introduction(p)] /\ status' = status
  BY DEF LinkUp
<1> QED BY <1>10, <1>11, <1>12

\* What becomes of an NJOIN: the channel is known, or made, or it is the end.
Ignored(x, y, m) ==
    /\ Exists(x, m.chan) /\ UNCHANGED views /\ Transfer(x, y, TRUE, {}, m)
    /\ apart' = apart \cup {<<u, m.chan>> : u \in m.users}
Records(x, m) ==
    \A a \in Servers, v \in Users :
        chan_of'[a][v] = IF a = x /\ v \in m.users THEN chan_of[a][v] \cup {m.chan} ELSE chan_of[a][v]
Created(x, y, m) ==
    /\ ~Exists(x, m.chan) /\ m.users \subseteq Known(x) /\ Transfer(x, y, TRUE, {}, m)
    /\ Joins(x, m.users, m.chan) /\ Records(x, m) /\ usr' = usr /\ apart' = apart
Unmade(x, m) ==
    /\ status' = "undefined" /\ UNCHANGED <<views, queue, apart>>
    /\ m.glued \/ ~(m.users \subseteq Known(x))

LEMMA ReceiveNjoinKeeps ==
    ASSUME IInv, NEW x \in Servers, NEW y \in Servers, NEW m, m = Head(queue[y][x]), ReceiveNjoin(x, y)
    PROVE  /\ IInv' /\ m.type = "NJOIN" /\ m.chan \in Chans /\ m.users \subseteq Users /\ SaidKept
           /\ m \in Msg /\ UNCHANGED <<said, heard>>
           /\ Ignored(x, y, m) \/ Unmade(x, m) \/ Created(x, y, m)
<1>1. Receives(x, y, "NJOIN")
  BY DEF ReceiveNjoin
<1>2. m \in Msg /\ m.type = "NJOIN" /\ Refers(m) /\ peers' = peers
  BY <1>1, ReceivesIs
<1>3. /\ m.chan \in Chans /\ m.users \subseteq Users /\ m.operators \subseteq Users
      /\ m.moderators \subseteq Users
  BY <1>2, Fields
<1>4. CASE /\ Exists(x, m.chan) /\ queue' = Taken(x, y)
           /\ apart' = apart \cup {<<u, m.chan>> : u \in m.users}
           /\ UNCHANGED <<views, status, said, heard>>
  <2>1. HistoryTyped' /\ SaidKept
    BY <1>3, <1>4 DEF IInv, TypeInv, HistoryTyped, SaidKept
  <2>2. ViewsTyped' /\ UsersFit' /\ status' \in {"running", "terminated", "undefined"}
    BY <1>2, <1>4, SameViews, SameUsers DEF IInv, TypeInv
  <2>3. IInv' /\ Transfer(x, y, TRUE, {}, m)
    BY <1>1, <1>4, <2>1, <2>2, DoneKeeps
  <2>4. Ignored(x, y, m)
    BY <1>4, <2>3 DEF Ignored
  <2> QED BY <1>2, <1>3, <1>4, <2>1, <2>3, <2>4
<1>5. CASE (m.glued \/ ~(m.users \subseteq Known(x))) /\ Undefined
  <2>1. IInv'
    BY <1>1, <1>5, EndKeeps
  <2>2. Unmade(x, m) /\ UNCHANGED history
    BY <1>5 DEF Unmade, Undefined, history
  <2> QED BY <1>2, <1>3, <2>1, <2>2, SaidStays DEF history
<1>6. CASE /\ ~Exists(x, m.chan) /\ m.users \subseteq Known(x) /\ queue' = Taken(x, y)
           /\ Put(x, m.chan, NewChannel(m.users, m.operators, m.moderators))
           /\ chan_of' = [chan_of EXCEPT ![x] =
                 [u \in Users |-> IF u \in m.users THEN @[u] \cup {m.chan} ELSE @[u]]]
           /\ UNCHANGED <<usr, status, history>>
  <2>1. HistoryTyped' /\ SaidKept
    BY <1>6, HistoryStays DEF IInv, TypeInv
  <2>2. PICK ch \in Channel : /\ ch = NewChannel(m.users, m.operators, m.moderators)
                              /\ ch.users = m.users
    BY <1>3, NewChannelTyped
  <2>3. PICK c \in Chans : c = m.chan
    BY <1>3
  <2>4. Put(x, c, ch)
    BY <1>6, <2>2, <2>3
  <2>5. Joins(x, m.users, m.chan)
    <3>1. ViewsTyped /\ c \notin DOMAIN channels[x]
      BY <1>6, <2>3 DEF IInv, TypeInv, Exists
    <3>2. /\ DOMAIN channels'[x] = DOMAIN channels[x] \cup {c} /\ channels'[x][c].users = m.users
          /\ \A d \in DOMAIN channels[x] \ {c} : channels'[x][d] = channels[x][d]
          /\ \A a \in Servers \ {x} : channels'[a] = channels[a]
      BY <2>2, <2>4, <3>1, PutEffect
    <3>3. ASSUME NEW v \in Users, NEW d \in Chans
          PROVE  Member(x, v, d)' <=> Member(x, v, d) \/ (v \in m.users /\ d = c)
      BY <3>1, <3>2 DEF Member, Exists
    <3>4. ASSUME NEW a \in Servers, NEW v \in Users, NEW d \in Chans, a # x
          PROVE  Member(a, v, d)' <=> Member(a, v, d)
      BY <3>2, <3>4 DEF Member, Exists
    <3> QED BY <2>3, <3>3, <3>4 DEF Joins
  <2>6. /\ chan_of' \in [Servers -> [Users -> SUBSET Chans]]
        /\ \A a \in Servers, v \in Users :
              chan_of'[a][v] = IF a = x /\ v \in m.users THEN chan_of[a][v] \cup {m.chan}
                               ELSE chan_of[a][v]
    BY <1>3, <1>6 DEF IInv, TypeInv, ViewsTyped
  <2>7. ViewsTyped'
    BY <1>6, <2>4, <2>6, PutEffect DEF IInv, TypeInv, ViewsTyped
  <2>8. UsersFit' /\ status' \in {"running", "terminated", "undefined"}
    BY <1>2, <1>6, SameUsers DEF IInv, TypeInv
  <2>9. IInv' /\ Transfer(x, y, TRUE, {}, m)
    BY <1>1, <1>6, <2>1, <2>7, <2>8, DoneKeeps
  <2>10. Created(x, y, m)
    BY <1>6, <2>5, <2>6, <2>9 DEF Created, Records, history
  <2> QED BY <1>2, <1>3, <1>6, <2>1, <2>9, <2>10 DEF history
<1>7. \/ /\ Exists(x, m.chan) /\ queue' = Taken(x, y)
         /\ apart' = apart \cup {<<u, m.chan>> : u \in m.users}
         /\ UNCHANGED <<views, status, said, heard>>
      \/ (m.glued \/ ~(m.users \subseteq Known(x))) /\ Undefined
      \/ /\ ~Exists(x, m.chan) /\ m.users \subseteq Known(x) /\ queue' = Taken(x, y)
         /\ Put(x, m.chan, NewChannel(m.users, m.operators, m.moderators))
         /\ chan_of' = [chan_of EXCEPT ![x] =
               [u \in Users |-> IF u \in m.users THEN @[u] \cup {m.chan} ELSE @[u]]]
         /\ UNCHANGED <<usr, status, history>>
  BY DEF ReceiveNjoin
<1> QED BY <1>4, <1>5, <1>6, <1>7

LEMMA ReceiveServerTopicKeeps ==
    ASSUME IInv, NEW x \in Servers, NEW y \in Servers, NEW m, m = Head(queue[y][x]),
           ReceiveServerTopic(x, y)
    PROVE  /\ IInv' /\ m.type = "STOPIC" /\ UNCHANGED <<status, history>> /\ SaidKept
           /\ MembersStay /\ usr' = usr /\ chan_of' = chan_of
           /\ Transfer(x, y, TRUE, {}, m)
<1>1. Receives(x, y, "STOPIC")
  BY DEF ReceiveServerTopic
<1>2. m \in Msg /\ m.type = "STOPIC" /\ peers' = peers
  BY <1>1, ReceivesIs
<1>3. m.chan \in Chans /\ m.topic \in Topics \cup {None}
  BY <1>2, Fields
<1>4. CASE Dropped(x, y)
  BY <1>1, <1>2, <1>4, DroppedKeeps DEF Dropped
<1>5. CASE /\ Exists(x, m.chan) /\ m.topic # None /\ SetTopic(x, m.chan, m.topic)
           /\ queue' = Taken(x, y) /\ UNCHANGED <<status, history>>
  <2>1. HistoryTyped' /\ SaidKept
    BY <1>5, HistoryStays DEF IInv, TypeInv
  <2>2. ViewsTyped' /\ MembersStay /\ usr' = usr /\ chan_of' = chan_of
    BY <1>3, <1>5, SetTopicEffect DEF IInv, TypeInv
  <2>3. UsersFit' /\ status' \in {"running", "terminated", "undefined"}
    BY <1>2, <1>5, <2>2, SameUsers DEF IInv, TypeInv
  <2>4. IInv' /\ Transfer(x, y, TRUE, {}, m)
    BY <1>1, <1>5, <2>1, <2>2, <2>3, DoneKeeps
  <2> QED BY <1>2, <1>5, <2>1, <2>2, <2>4
<1>6. \/ Dropped(x, y)
      \/ /\ Exists(x, m.chan) /\ m.topic # None /\ SetTopic(x, m.chan, m.topic)
         /\ queue' = Taken(x, y) /\ UNCHANGED <<status, history>>
  BY DEF ReceiveServerTopic
<1> QED BY <1>4, <1>5, <1>6

\* A late server has nobody to pass it on to.
LEMMA ReceiveServerModeKeeps ==
    ASSUME IInv, NEW x \in Servers, NEW y \in Servers, NEW m, m = Head(queue[y][x]),
           ReceiveServerMode(x, y)
    PROVE  /\ IInv' /\ m.type = "SMODE" /\ UNCHANGED <<status, history>> /\ SaidKept
           /\ MembersStay /\ usr' = usr /\ chan_of' = chan_of
           /\ Transfer(x, y, TRUE, {}, m)
<1>1. Receives(x, y, "SMODE")
  BY DEF ReceiveServerMode
<1>2. m \in Msg /\ m.type = "SMODE" /\ peers' = peers /\ Fits(m, y, x) /\ queue[y][x] # <<>>
  BY <1>1, ReceivesIs
<1>3. m.chan \in Chans /\ m.modes \subseteq Modes
  BY <1>2, Fields
<1>4. CASE Dropped(x, y)
  BY <1>1, <1>2, <1>4, DroppedKeeps DEF Dropped
<1>5. CASE /\ Exists(x, m.chan) /\ queue' = Passed(x, y, m)
           /\ Put(x, m.chan, [channels[x][m.chan] EXCEPT !.modes = @ \cup m.modes])
           /\ UNCHANGED <<usr, chan_of, status, history>>
  <2>1. HistoryTyped' /\ SaidKept
    BY <1>5, HistoryStays DEF IInv, TypeInv
  <2>2. ViewsTyped' /\ MembersStay /\ usr' = usr /\ chan_of' = chan_of
    <3>5. PICK c \in Chans : c = m.chan
      BY <1>3
    <3>1. PICK ch : c = m.chan /\ ch = [channels[x][c] EXCEPT !.modes = @ \cup m.modes]
      BY <3>5
    <3>2. channels[x][c] \in Channel
      BY <1>5, <3>1, ChannelAt DEF Exists, IInv, TypeInv
    <3>3. ch \in Channel /\ ch.users = channels[x][c].users
      BY <1>3, <3>1, <3>2 DEF Channel
    <3>4. Put(x, c, ch) /\ Exists(x, c)
      BY <1>5, <3>1
    <3> QED BY <1>5, <3>3, <3>4, PutSame DEF IInv, TypeInv
  <2>3. UsersFit' /\ status' \in {"running", "terminated", "undefined"}
    BY <1>2, <1>5, SameUsers DEF IInv, TypeInv
  <2>4. queue' = Taken(x, y)
    <3>1. PICK S : S = Others(x, y)
      OBVIOUS
    <3>2. peers[x] = {y}
      BY <1>2 DEF Fits
    <3>3. S = {}
      BY <3>1, <3>2 DEF Others
    <3>4. Taken(x, y) \in Queues
      BY <1>2, TakenEffect DEF IInv
    <3>5. queue' = Sent(Taken(x, y), x, S, m)
      BY <1>5, <3>1 DEF Passed
    <3> QED BY <1>2, <3>3, <3>4, <3>5, SentEffect
  <2>5. IInv' /\ Transfer(x, y, TRUE, {}, m)
    BY <1>1, <2>1, <2>2, <2>3, <2>4, DoneKeeps
  <2> QED BY <1>2, <1>5, <2>1, <2>2, <2>5
<1>6. \/ Dropped(x, y)
      \/ /\ Exists(x, m.chan) /\ queue' = Passed(x, y, m)
         /\ Put(x, m.chan, [channels[x][m.chan] EXCEPT !.modes = @ \cup m.modes])
         /\ UNCHANGED <<usr, chan_of, status, history>>
  BY DEF ReceiveServerMode
<1> QED BY <1>4, <1>5, <1>6

-----------------------------------------------------------------------------
LEMMA InitHolds ==
    ASSUME Init
    PROVE  IInv
<1>1. /\ peers \in [Servers -> SUBSET Servers]
      /\ \A x, y \in Servers : y \in peers[x] <=> y \notin Late /\ y # x /\ x \notin Late /\ Route[x][y] = y
  BY DEF Init
<1>2. queue \in Queues /\ \A x, y \in Servers : queue[x][y] = <<>>
  <2>1. <<>> \in Seq(Msg)
    BY EmptySeq
  <2> QED BY <2>1 DEF Init, Queues
<1>3. ViewsTyped
  <2>1. usr \in [Servers -> [Users -> Servers \cup {None}]]
    BY ServerOf, NextHop DEF Init
  <2>2. Founders \subseteq Users /\ Creator \in Users
    BY FoundersAssumption
  <2>3. PICK ch \in Channel : ch = NewChannel(Founders, {Creator}, {})
    BY <2>2, NewChannelTyped
  <2>4. \A x \in Servers : [c \in IF x \in Late THEN {} ELSE Chans |-> ch] \in ChannelMaps
    <3> TAKE x \in Servers
    <3>1. PICK D \in SUBSET Chans : D = IF x \in Late THEN {} ELSE Chans
      OBVIOUS
    <3>2. PICK f : f = [c \in D |-> ch]
      OBVIOUS
    <3>3. f \in ChannelMaps
      BY <3>2, MapIs
    <3> QED BY <3>1, <3>2, <3>3
  <2>5. channels = [x \in Servers |-> [c \in IF x \in Late THEN {} ELSE Chans |-> ch]]
    BY <2>3 DEF Init
  <2>6. channels \in [Servers -> ChannelMaps]
    BY <2>4, <2>5
  <2>7. chan_of \in [Servers -> [Users -> SUBSET Chans]]
    BY DEF Init
  <2> QED BY <2>1, <2>6, <2>7 DEF ViewsTyped
<1>4. HistoryTyped
  <2>1. said = <<>> /\ said \in Sayings /\ DOMAIN said = {}
    BY EmptySeq DEF Init, Sayings
  <2>2. heard \in [Users -> Seq(DOMAIN said)]
    <3>1. <<>> \in Seq(DOMAIN said)
      BY EmptySeq
    <3> QED BY <3>1 DEF Init
  <2> QED BY <2>1, <2>2 DEF HistoryTyped, Init
<1>5. TypeInv
  BY <1>1, <1>2, <1>3, <1>4, BoundAssumption DEF TypeInv, Init
<1>6. Peered
  BY <1>1, <1>2, Neighbours DEF Peered
<1>7. \A x \in Servers : Up(x) <=> x \notin Late
  BY <1>1 DEF Up
<1>8. Connected
  <2>1. \A x, z \in Servers : x \notin Late /\ z \notin Late /\ x # z => Route[x][z] \in peers[x]
    BY <1>1, LateAssumption, NextHop
  <2>2. \A y \in Late : \A x \in peers[y] : FALSE
    BY <1>1, LateAssumption
  <2> QED BY <1>7, <2>1, <2>2 DEF Connected
<1>9. UsersFit
  <2>1. \A x \in Servers, u \in Users :
           usr[x][u] = IF x \in Late \/ Home[u] \in Late THEN None ELSE Route[x][Home[u]]
    BY DEF Init
  <2> QED BY <1>7, <2>1, ServerOf DEF UsersFit
<1>10. Traffic
  BY <1>2 DEF Traffic, ToSet
<1> QED BY <1>5, <1>6, <1>8, <1>9, <1>10 DEF IInv

LEMMA CommandsKeep ==
    ASSUME IInv, NEW u \in Users,
           \/ NICK(u) \/ QUIT(u)
           \/ \E v \in Users : PrivmsgUser(u, v)
           \/ \E z \in Asked : VERSION(u, z)
           \/ \E c \in Chans :
                 \/ JOIN(u, c) \/ PART(u, c) \/ PRIVMSG(u, c)
                 \/ \E v \in Users : KICK(u, v, c)
                 \/ \E m \in Modes, on \in BOOLEAN : MODE(u, c, m, on)
                 \/ \E r \in Rights, on \in BOOLEAN, v \in Users : ModeRight(u, c, r, on, v)
                 \/ \E t \in Topics \cup {None} : TOPIC(u, c, t)
    PROVE  IInv'
<1>1. ASSUME NEW z \in Asked, VERSION(u, z) PROVE IInv'
  BY <1>1, VersionKeeps, LateAssumption
<1> QED BY <1>1, NickKeeps, QuitKeeps, PrivmsgUserKeeps, JoinKeeps, PartKeeps, PrivmsgKeeps,
           KickKeeps, ModeKeeps, ModeRightKeeps, TopicKeeps

LEMMA HandlersKeep ==
    ASSUME IInv, NEW x \in Servers, NEW y \in Servers, Handle(x, y)
    PROVE  IInv'
<1>1. PICK m : m = Head(queue[y][x])
  OBVIOUS
<1> QED BY <1>1, ReceiveNickKeeps, ReceiveQuitKeeps, ReceiveJoinKeeps, ReceivePartKeeps,
           ReceiveKickKeeps, ReceiveModeKeeps, ReceiveRightKeeps, ReceiveQueryKeeps,
           ReceiveTopicKeeps, ReceivePrivmsgKeeps, ReceivePrivmsgUserKeeps, ReceiveVersionKeeps,
           ReceiveAnswerKeeps, ReceiveNjoinKeeps, ReceiveServerTopicKeeps, ReceiveServerModeKeeps
           DEF Handle

LEMMA StutterKeeps ==
    ASSUME IInv, UNCHANGED vars
    PROVE  IInv'
<1>1. /\ queue' = queue /\ peers' = peers /\ usr' = usr /\ channels' = channels /\ chan_of' = chan_of
      /\ said' = said /\ heard' = heard /\ apart' = apart /\ given' = given /\ status' = status
  BY DEF vars, views, history
<1>2. TypeInv' /\ Peered' /\ Connected' /\ UsersFit'
  <2>1. ViewsTyped' /\ HistoryTyped'
    BY <1>1 DEF IInv, TypeInv, ViewsTyped, HistoryTyped
  <2>2. TypeInv'
    BY <1>1, <2>1 DEF IInv, TypeInv
  <2>3. Peered' /\ Connected' /\ UsersFit'
    BY <1>1 DEF IInv, Peered, Connected, UsersFit, Up
  <2> QED BY <2>2, <2>3
<1>3. Traffic'
  <2> SUFFICES ASSUME NEW b \in Servers, NEW a \in Servers, NEW m \in ToSet(queue[b][a])
               PROVE  Fits(m, b, a)' /\ Refers(m)'
    BY <1>1 DEF Traffic
  <2>1. Fits(m, b, a) /\ Refers(m)
    BY DEF IInv, Traffic
  <2>2. SaidKept
    BY <1>1 DEF SaidKept
  <2> QED BY <1>1, <2>1, <2>2, StillFits
<1> QED BY <1>2, <1>3 DEF IInv

\* The servers know each user by the link that leads to his home, and nothing is
\* on a link but what belongs there.
THEOREM Invariance == Spec => []IInv
<1>1. Init => IInv
  BY InitHolds
<1>2. IInv /\ [Next]_vars => IInv'
  <2> SUFFICES ASSUME IInv, [Next]_vars PROVE IInv'
    OBVIOUS
  <2>1. CASE Command
    <3>1. PICK u \in Users :
             \/ NICK(u) \/ QUIT(u)
             \/ \E v \in Users : PrivmsgUser(u, v)
             \/ \E z \in Asked : VERSION(u, z)
             \/ \E c \in Chans :
                   \/ JOIN(u, c) \/ PART(u, c) \/ PRIVMSG(u, c)
                   \/ \E v \in Users : KICK(u, v, c)
                   \/ \E m \in Modes, on \in BOOLEAN : MODE(u, c, m, on)
                   \/ \E r \in Rights, on \in BOOLEAN, v \in Users : ModeRight(u, c, r, on, v)
                   \/ \E t \in Topics \cup {None} : TOPIC(u, c, t)
      BY <2>1 DEF Command
    <3> QED BY <3>1, CommandsKeep
  <2>2. CASE \E x, y \in Servers : Handle(x, y) \/ LinkUp(x, y)
    BY <2>2, HandlersKeep, LinkUpKeeps
  <2>3. CASE UNCHANGED vars
    BY <2>3, StutterKeeps
  <2> QED BY <2>1, <2>2, <2>3 DEF Next
<1> QED BY <1>1, <1>2, PTL DEF Spec

\* Every variable has the shape the code gives it: what a handler reads of a
\* channel, a user or a message is there.
THEOREM TypeCorrect == Spec => []TypeOK
<1>1. IInv => TypeOK
  BY TypesOfChannels DEF IInv
<1> QED BY <1>1, Invariance, PTL
=============================================================================
