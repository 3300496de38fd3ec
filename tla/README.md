# IrishaIRC in TLA+

Irisha is an IRC server in C++: one process, one thread, one `select` loop.
Servers link to each other and relay what their users do. This directory holds
TLA+ modules of its parts, TLC configurations that check them on small
instances, and proofs that TLAPS checks for every value of the constants.
`PROJECT.json` lists components, runs, mutants, the definitions with the lines
they model, findings, hazards and theorems.

    tlc -workers 2 -config MCChannels_rights.cfg MCChannels
    tlapm ChannelsProofs.tla

## 1. The system

| Component | State | Operations | Talks to |
|---|---|---|---|
| Loop, registration, timeouts (`Irisha.cpp`, `Irisha.utils.cpp`) | `all_fds_`, `read_fds_`, the `timeval`, `last_ping`, `reg_expect`, `last_msg_time_` and `connection_time_` | `select`, `accept_connection`, `get_msg`, `register_connection`, `check_reg_timeouts`, `ping_connections`, `close_connection` | calls every handler; closes users and links |
| Users (`Irisha.users.cpp`, `User.cpp`) | `connections_` (name to `AConnection*`), the `User` objects | PASS, NICK, USER, QUIT, KILL, `find_user`, `add_user`, `remove_user` | channels (`remove_user` walks over them), links (QUIT and NICK are relayed) |
| Channels (`Channel.cpp`, `Irisha.irc.cpp`) | `channels_`; each `Channel` holds raw `User*` in four lists, each `User` the names of its channels | JOIN, NJOIN, PART, KICK, MODE, TOPIC, INVITE, NAMES | users; all changes are relayed |
| Links (`Server.cpp`, `Irisha.irc.cpp`, `Irisha.utils.cpp`) | the `Server` objects, `parent_fd_`, `source_socket_` of what was learnt by a link | SERVER, CONNECT, SQUIT, relayed NICK and QUIT, the introduction of all that is known, a lost link | other processes |
| Configuration (`Irisha.config.cpp`, `utils.cpp`) | the settings | `apply_config`, `check_timeout_values`, `get_config_value` | gives the loop its three timeouts |
| Parser (`parser.cpp`, `get_msg`) | the text of a socket that has no line end yet: `RegForm::buff_`, later `AConnection::buff_`; `arr_msg_`, the commands that wait | `choose_buff`, `parse_arr_msg`, `parse_msg`, `parse_argv` | the loop |
| Messages (PRIVMSG, NOTICE, `send_channel`, `send_servers`, `choose_sock`) | none | routing: to local members, to all links but one, to one link | users, channels, links |
| Channel burst (`send_channels`, NJOIN, TOPIC and MODE of a server) | none of its own | what is known of channels is sent to a new child | channels, links |
| Queries and replies (`Irisha.replies.cpp`, VERSION, ADMIN, LINKS, LUSERS, MOTD, STATS ...) | none | formatting; some are passed on to another server, and the answer back | the asker, links |
| Operators and user modes (OPER, MODE of a user) | one flag each | setting it | KILL, CONNECT, SQUIT and STATS ask for it |

Nothing is persisted and nothing runs in parallel inside a process. What is
hard is elsewhere:

- *Two tables about one socket.* A socket in registration has a form in
  `reg_expect` and, after NICK, an entry in `connections_`; three closers (the
  registration timeout, the ping round, `recv`) look at different parts of it.
  Descriptors are used again at once.
- *Pointers both ways.* Channels point at users, users name channels. Every
  departure must undo both sides.
- *Names as keys.* `connections_` is keyed by the nick at registration, the
  nick may change, lookups walk over the objects.
- *State read early.* `cmd_.type_` is computed when the bytes are received and
  holds for all commands in them.
- *Order on links.* What is known is sent to a new child while other links send
  more; the answer of a parent is on its way while children register; links
  are lost and processes end at any time. `parent_fd_` still has the descriptor
  of a lost parent when another server is accepted on it.
- *Channels in several copies.* Every server keeps all channels. Clients of
  different servers join, leave, kick and set topics at once, the messages
  cross, and no server decides.
- *Texts are cut anywhere.* `recv` ends in the middle of a line, and the half
  line is kept in one of two buffers, one of which gives way to the other.
- *An exception ends the process.* A failed `send` throws.

What makes the components correct: pointers and records agree, and rights do
not appear by themselves (channels); silence and unfinished registrations are
bounded, and nobody else is closed (loop); a lookup has one answer, nothing
leaks, no socket is forgotten (users); the timeouts fit together
(configuration); both ends of a link come to know the same users (links) and
the same members of channels, and everybody who should hears a message once
and in order (channels on links, messages); no text is lost, doubled or glued
to another (parser).

## 2. The modules

| Module | Models | Extended by |
|---|---|---|
| `Channels` | channels and users of one server, all commands that link or unlink them | `MCChannels`, `ChannelsProofs` |
| `Membership` | abstract: who is online, member, operator, and by whose act | instantiated in `Channels` (`Promise`) |
| `Timeouts` | loop, forms and timeouts, in seconds | `MCTimeouts`, `TimeoutsProofs` |
| `Registry` | the clients of one server: sockets, forms, objects, the map | `MCRegistry`, `RegistryProofs` |
| `Config` | how the three timeouts are read and checked | `MCConfig`, `ConfigProofs` |
| `Network` | several servers, their links as queues, who knows whom | `MCNetwork`, `NetworkProofs` |
| `Relay` | channels, messages and questions over several servers, and the introduction of a late one | `MCRelay`, `RelayProofs`, which `RelayTellsProofs` extends |
| `Framing` | from received bytes to commands | `MCFraming`, `FramingProofs` |

`Config` gives what `Timeouts` assumes: `Sane` in the one is
`ConfigAssumption` in the other. `Registry` and `Timeouts` cut the same code in
two ways: `Timeouts` counts seconds and forgets names, `Registry` keeps names,
objects and the commands of one text, and lets a timeout come at any time.
`Channels` starts where `Registry` ends: users are addresses that are live or
not. `Network` and `Relay` cut the links in two: in `Network` links come, are
lost and processes end, and of each server there is only which users and
servers it knows and by which link; in `Relay` links last (one may be added),
and each server has its channels. `Channels` has of one server what `Relay` has
of several, with the pointers, keys and invitations that `Relay` leaves out.
`Framing` ends where the others begin, with a command to be handled.

### Conventions

- Undefined behaviour (a freed object read, `end()` dereferenced, an argument
  read that is not there) and uncaught exceptions end a server: `status`
  becomes `"undefined"` or `"terminated"` and nothing is promised after that.
  Where the build may also go on unharmed, both outcomes are there
  (`PartLocal`, `ListOutcomes`).
- `Mutant:` in a comment marks a definition that is only used to check that a
  property can be broken: the definition after it, with a plausible mistake.
- `(Does not hold.)` marks a property taken from the comments or the
  documentation of the code that a run shows to be violated.

### State and actions

**Channels.** `live` is the set of allocated `User` objects, `external` those
behind a link, `chan_of` is `User::channels_`, `channels` is
`Irisha::channels_`, a function from the existing names to records with the
lists of `Channel`. `fresh` is the one user whose registration and further
commands came in one `recv`, for whom `cmd_.type_` is still `T_NONE`: the
commands of that user take the branches meant for links (`TypedLocal`).
`RemoveUser` is `remove_user`, with what `delUser` and `delOperators` do and do
not do; `JoinNew`, `JoinExisting`, `JoinWithoutKey` are the three ways through
JOIN; `PartLocal` and `PartRelayed` the two through PART; `TopicAsked` is TOPIC
without a text, which looks for the mode p that no channel has and reads what
lies at the end of the map. `NJOIN` is open to anybody: the handler looks neither
at the sender nor at the length of the list, and an empty list makes a channel of
nobody, which NAMES cannot list (`ListOutcomes`). A comma list is a sequence of
steps. Lists are sets: no handler adds twice.

**Timeouts.** `stage` is the place in the loop: `"select"` (time passes),
`"checks"` (`check_reg_timeouts`), `"ping"` (`ping_connections` if due),
`"dispatch"` (descriptors in ascending order, the listener first).
`remaining` is the `timeval`: Linux leaves in it what was not waited, the code
never sets it again, so that after a while `select` polls. All three counters
of seconds are ages, capped at `MaxAge`. `Victims` are the descriptors whose
users an operator may KILL: a KILL leaves the form of a half registered user
behind, so that the properties are stated for the other descriptors, while
those of the victims are used, abandoned and used again next to them. `Close`
erases an iterator of `reg_expect` and then deletes what it points at
(`Irisha.utils.cpp` 683): it reads a list node that was freed in the statement
before. With the allocator of the build the pointer is still there, and the form
is deleted; other outcomes are left out.

**Registry.** `serving` is the socket whose text is being handled; commands
follow each other until `EndText`, also after a QUIT. `connections` maps the
nick at registration to an address, `users` the addresses to objects.
`Sound` says that every entry points at an object; every lookup needs it, and
the first one without it is `ReadFreed`. NICK on a descriptor that a QUIT in the
same text has closed ends the process: `get_sock_host` returns `nullptr`, and
the constructor of `User` makes a string of it (`NickNew`).

**Config.** A file is a sequence of lines, a line what matters of its text. The
first line that *contains* the name of a setting is taken (`Matches`), a
missing one leaves an uninitialised number (`Garbage`).

**Network.** `srv[x][z]` and `usr[x][u]` are the entries of `connections_` at
`x`, with the link they were learnt by; `open[x]` the sockets of links;
`queue[x][y]` what `x` has sent and `y` has not handled. `Start` is the
constructor with a parent, `CONNECT` the command, `ReceiveRegistration` the
first SERVER on a link (the introduction, if it is a child's),
`ReceiveServer`, `ReceiveNick`, `ReceiveQuit`, `ReceiveSquit` the relays,
`HangUp` is `close_connection` of a link, `Crash` any end of a process. `reads`
of a NICK is the number of servers in a row that will find its seven
arguments: a relay glues two of them. `Commands[x]` are the commands that
clients may give at `x`.

SERVER tells a parent from a child by its descriptor, `sock != parent_fd_`
(`Irisha.irc.cpp` 553), and nothing resets `parent_fd_` when the link to the
parent is closed. A server that is accepted later may be given that descriptor
(`Reused`); those are `heirs[p]`, for good, since each of them leaves the
descriptor to the next. `ReceiveRegistration` sends an heir nothing and announces
it to nobody (`ByParentFd`). The heir, which was not answered, has no entry of
`p`, and what `p` relays to it later comes from an unknown socket:
`ReceiveStray` ends in `"undefined"`, so that nothing is said of an heir that
was sent anything but a registration. Who has the descriptor is a choice of the
environment, so that every run with lost links has both cases.

Two details of SQUIT are left out. When it comes in one text with the first
SERVER of its link, `cmd_.type_` is still `T_NONE` and the line is sent to the
server it names and not to all others (`Irisha.irc.cpp` 1791); in the model a
SQUIT is handled with the type of a server. And `remove_server_users` advances its
iterator twice for a client (`Irisha.users.cpp` 114), which may step over the end
of the map; `LinkRemoved` has the outcome in which it does not, and `Crash` may
come at any time.

**Relay.** `peers[x]` are the links of `x`, `usr[x][u]` is the link its entry of
`u` was learnt by (`x` itself for its own clients), `channels[x]` and
`chan_of[x]` its channels and what its users record of them, `queue` as in
`Network`. `JOIN`, `PART`, `QUIT`, `KICK`, `MODE`, `ModeRight`, `TOPIC`,
`PRIVMSG`, `PrivmsgUser` (to any nick, one's own too) and `VERSION` are the
commands of clients at their own server; `ReceiveJoin` and so on are the same handlers at the servers that are
told, which do it again and pass it on (`Passed`: to all links but the one it
came by; TOPIC goes back as well). `LinkUp` is the registration of a late
server and the whole introduction (`Introduction`: a NICK for each user, then
NJOIN, TOPIC and MODE for each channel), which `ReceiveNjoin`,
`ReceiveServerTopic` and `ReceiveServerMode` read. A refusal is sent to the
asker, and the asker at another server has the socket -1: the handler `Dies`.
What is not found and used is `Undefined`. A topic may be set and cleared
(`None` is the empty one). `said` and `heard` are histories of messages; `apart` remembers the pairs of users and channels that servers were
not told the same about, by KICK (which takes the membership in one list only),
by a JOIN that a next server refuses, or by an introduction that comes too
late.

**Framing.** `read` counts what was received of each peer's `Stream`; `form` and
`buff` are the two buffers of a socket and `entry` says which one
`choose_buff` finds; `Commands` is `parse_arr_msg`; `arr_msg` waits, and no
other socket is read until it is empty. A unit of text is a peer and a place in
its `Stream`, which has CR, LF or other text there, so that a property can tell
whose text is where. `Pieces` are what getline gives: what lies between one of
the places where it stops (`Stops`) and the next (`Nth`), which is said without
recursion, so that it can be proved about. `handled` and `reads` are histories.

## 3. Runs

| Run | Instance | Question | Result |
|---|---|---|---|
| `channels_rights` | 3 addresses, 1 channel, a key, a topic, modes i and t | `TypeOK`, `StaysOccupied`, `MembersRecorded`, `OplessStays`, `KeepsPromise` | pass |
| `channels_remove` | 2 addresses, 2 channels | `Removable` | violated |
| `timeouts_bounds` | 2 descriptors, one of them of a victim, timeouts 2, 4, 3 (ping, connection, registration), two forms a socket | `TypeOK`, `FormsArePending`, `RegBound`, `IdleBound`, `TalkersStay`, `AskedFirst`, `DeadPeersAreClosed` | pass |
| `timeouts_killed` | 2 descriptors, both of victims, timeouts 1, 3, 2 | `EveryTalkerStays` | violated |
| `config_boundary` | all files of up to three timeouts at the bounds, a doubled ping timeout, and a free text that may name a setting | `Sane`, `ValidKept` | pass |
| `registry_lookup` | 2 descriptors, 3 nicks, 3 addresses, 2 forms a socket | `TypeOK`, `Unambiguous`, `Consistent`, `Watched` | pass |
| `registry_rename` | the same | `EntriesExist` | violated |
| `network_links` | 3 servers, a client at one with a real name of two words; CONNECT, SQUIT and NICK at its server, CONNECT and SQUIT at the second, SQUIT at the third; clients wait while 3 messages are in a queue | `TypeOK`, `ParentTellsAll`, `ChildTellsTrue`, `OwnUsersAreLocal`, `SiblingsAreAnnounced` | pass |
| `network_ghosts` | 2 servers | `UsersHaveLinks` | violated |
| `relay_views` | servers a - b - c in a row, c started later, a client at each; one channel founded by two of them, modes i, m, n, t, rights o and v, one topic that may be cleared, VERSION asked of a; 3 commands; TOPICs cross until c has come | `TypeOK`, `LinkTellsTruth`, `ChannelsAreFound`, `HeardOnceInOrder`, `NobodyMissed`, `SendersAreKnown`, `OnlyTopicsGoRound` | pass |
| `relay_topics` | 2 servers, a client at each, mode t, right o, one topic that may be cleared; 2 commands | `Settles` | violated |
| `framing_cuts` | 2 peers, one sending three lines that end with CR LF, one two lines that end with LF; `recv` takes up to 6 units and more than 5 are refused | `TypeOK`, `TextInOrder`, `LinesApart`, `UncutLinesAreWhole` | pass |

What the properties say:

- `MembersRecorded`: a user or operator pointer of a channel points at a user
  that exists and records the channel. `StaysOccupied`: no step takes the last
  user and the last operator of a channel and leaves the channel, so that
  `getListUsers` finds a last character to erase; only a channel that NJOIN opened
  for nobody is without, until its first JOIN. `OplessStays`: once a channel has no operator it gets none.
  `KeepsPromise`: `Channels` implements `Membership`.
- `FormsArePending`: `reg_expect` is exactly the open sockets that are not
  registered. `RegBound`: a form is never older than the registration timeout.
  `IdleBound`: silence is suffered for less than the connection timeout and one
  ping period. `TalkersStay`: the checks close a registered connection after
  the connection timeout only. `AskedFirst`: who is closed by the ping round
  has been sent a PING before (with two ping periods in a connection timeout).
  `DeadPeersAreClosed`: the socket of a peer that died without closing is
  closed in the end. The first two and `TalkersStay` are about descriptors
  where nobody was killed; `EveryTalkerStays` is `TalkersStay` for all.
- `Sane`: the timeouts are in their range and fit together. `ValidKept`: valid
  settings are used as they are.
- `Unambiguous`: a lookup by nick or by socket has one answer. `Consistent`:
  before any nick has changed, `connections_` holds all objects under their
  nicks and nothing else. `Watched`: every open socket has a form or an entry,
  and so a timeout.
- `ParentTellsAll`: when a parent has registered a child, the users the child
  will know by that link, once the queue is handled, are those the parent
  knows by other ways; but for an heir (`Network` in section 2).
  `ChildTellsTrue`: a parent knows of a child's users
  only who is known there, or whose QUIT is on its way. `OwnUsersAreLocal`: no
  server takes its own user for an external one. `SiblingsAreAnnounced`: two
  children of one server hear of each other, whoever registers first; again, no
  heirs.
- `LinkTellsTruth`: for each link, a user is a member of a channel at one end
  iff the messages under way make it one at the other; the users in `apart`
  are the exception. `ChannelsAreFound`: with the same exception, no PART, QUIT
  or NJOIN uses a channel or user that is not there. `HeardOnceInOrder`: nobody
  is sent a message twice, or what he said himself, unless he said it to his own
  nick, and those of one sender come in order.
  `NobodyMissed`: when a message is no more under way, all members the
  sender's server knew have been sent it, unless they went; and a question was
  answered. `SendersAreKnown`: the user a message speaks for is known when it
  is handled. `Settles`: when clients are silent the servers fall silent.
  `OnlyTopicsGoRound` is what is left of it: whatever is under way for ever is
  TOPICs of one channel that contradict each other.
- `TextInOrder`: commands and kept halves of a peer are its text, in order,
  nothing lost, doubled or taken from another peer, however `recv` cuts it and
  whenever the form gives way to the connection. `LinesApart`: no command is
  glued of two lines. `UncutLinesAreWhole`: a line is one command unless a
  `recv` that ends in it has begun before it.

**Bounds.** Three addresses give a kicker, a kicked operator and a bystander;
the users of a channel are otherwise alike (symmetry is used). Two descriptors
give a silent and a talking peer and the use of a descriptor again; the
timeouts are such that no two of them are equal and two ping periods fit into
a connection timeout. `MaxForms` bounds the forms one descriptor may have: one
is all there are without KILL (`FormsArePending`), two are needed for a form
left by KILL. Three nicks are needed for a nick that goes, one that comes and
one that is in the way. Three servers are the shortest chain with a relay, and
the smallest network in which a server has two children or a child and a
parent; one client is enough in `Network`, since the handlers of NICK and QUIT
look at one nick only. `MaxQueue` holds back the commands of clients only while
a queue is that long: the introduction of a child, starts, lost links and
crashes come on top of it. `MaxCommands` of `Relay` counts the commands of all
clients together: three are what it takes for a command, one that crosses it
and one that meets the result at a third server; the channel and two members
are there at the start, so that none is spent on that. TOPICs that cross at
a server with two links multiply without end, since it sends each of them to
both sides, so that no run with them is finite: with `Crossing` FALSE, as in
`relay_views`, a TOPIC is given only while no server has two links or no TOPIC is
under way, and a late server comes only when none is. So they do cross on the one
link there is until c comes (`Settles` is violated in `relay_views` too, which
shows that the exception of `OnlyTopicsGoRound` is met). One topic and the empty
one are two values, which is all that crossing takes. The proofs are about both
values of `Crossing`. The heirs of `Network` are met on three servers by
`ParentTellsAll` (without its exception it is violated there); two children of
a server that has lost its parent take a fourth, which only the proof of
`SiblingsAreAnnounced` has. The
lengths of `Framing` allow a `recv` that holds a line and halves of its
neighbours, one that is refused, and a line cut in three.
All that the passing runs check, liveness apart, is proved without these bounds
(section 5).

**Fairness.** Two liveness properties need it. `DeadPeersAreClosed` assumes
`WF_vars(Loop)`: the process is scheduled; and `SF_vars(Tick)`: the clock
advances also while the loop polls, where `Tick` is enabled again and again but
not all the time. `OnlyTopicsGoRound`, and `Settles`, which is violated, assume for each link `WF_vars(Handle)`: every
server goes on reading every link, as the loop over the descriptors does.
Nothing is assumed of the peers, who may talk, connect and fall silent as they
like.

**Deadlock** is checked except where the system really stops: `Config` ends
when the file has been read, all servers of `Network` may have ended, the
clients of `Relay` have given their commands or a process has ended, the peers
of `Framing` have sent their texts.

## 4. Where the code does not do what its comments say

Five runs show a disagreement (`findings` in `PROJECT.json`):

- `channels_remove`: KICK leaves the name of the channel with the kicked user.
  The operator leaves, the channel is deleted, and `remove_user` of the kicked
  one uses `channels_.find(...)->second` of a name that is not there.
- `timeouts_killed`: KILL of a user between NICK and USER leaves the form, and
  the form's timeout closes whoever has the descriptor then.
- `registry_rename`: NICK changes the nick and not the key; QUIT erases by the
  nick, the entry stays, with a deleted object.
- `network_ghosts`: users behind a lost link stay for ever, since
  `remove_server_users` compares `server_`, which external users do not have.
- `relay_topics`: an operator sets the topic and clears it before the first TOPIC
  has come back. Two servers send the two TOPICs back and forth for ever, each
  the change of the other.

Others that the modules contain, without a run of their own: a voiced user who
leaves stays in `moderator_users_` (`ListOutcomes`); a kicked operator keeps its
rights and is sent nothing; any text resets the registration timeout (`Heard`);
with a connection timeout below two ping periods a peer is closed unasked
(`AskedFirst` fails); equal timeouts are accepted though `CONFIGURATION.md`
says lower (`Checked`); a setting is taken from any line that contains its name
(`Matches`); a changed nick makes a linked server read arguments that are not
there, and so does the NICK of a user with a one-word real name at the second
server (`ReadsBeyond`). A server announces the children it
registers, never its parent, so that a child that registers before the parent has
answered does not hear of the parent, nor the parent of the child
(`ReceiveRegistration`); a child that is accepted on the descriptor of the lost
parent is sent nothing and announced to nobody (`heirs`). NJOIN with an empty list
opens a channel of nobody, and the next NAMES of it throws (`NJOIN`,
`ListOutcomes`). On channels of several servers: a MODE that changes nothing is relayed without a mode, which the next
server takes for a query and answers to socket -1 (`ReceiveQuery`); so does any
refusal of what another server has allowed (`Dies`); the second channel of an
introduction is sent with the names of the first, two of them glued
(`NJOINof`); MOTD and LUSERS of another server are never answered, since the
name is looked up with its colon (`VERSION`). On texts: lines that end with LF
alone are glued, since only CR cuts (`Pieces`); the first half of a cut line is
handled as a command if an earlier line ended in the same `recv` (`Complete`);
what one `recv` took is dropped when it is longer than 510 bytes, though it may
be several lines (`Recv`).

## 5. Proofs

| Module | Theorems | Inductive invariant |
|---|---|---|
| `ChannelsProofs` | `TypeCorrect`, `MembersAreRecorded`, `ChannelsStayOccupied`, `RightsDoNotReappear`, `Refinement` | `TypeOK` and `MembersRecorded` together: a departure cleans the recorded channels only, so that nothing of a user is left rests on `MembersRecorded`. `StaysOccupied` is a fact about each step from there. The refinement has one lemma per command on how the two views change |
| `TimeoutsProofs` | `TypeCorrect`, `FormsArePendingAlways`, `RegistrationBounded`, `IdleBounded`, `TalkersAreKept`, `NobodyClosedUnasked` | `TypeOK`, `FormsArePending`, and four facts on clocks: `Clocks` (what is left of the timeval bounds the time since the last ping round until it is used up), `FormAges` (the same for forms, where no KILL leaves one), `Silence` (idle times against the ping clock, and against the form of a half registered user) and `Overdue` (an overdue round means that there was nobody to ping) |
| `ConfigProofs` | `TimeoutsAreSane`, `ValidTimeoutsAreKept` | the properties |
| `RegistryProofs` | `TypeCorrect`, `LookupsUnambiguous`, `RegistryConsistent`, `SocketsWatched` | the four properties together: `Unambiguous` makes the entry a removal finds by socket the one it erases by nick |
| `NetworkProofs` | `TypeCorrect`, `OwnUsersStayLocal` | links form a forest (`Acyclic`, `Started`); a message about a user comes from the side of the link where the user's server is (`Fits`), and who is known by a link is at that side (`UsersFit`), so that nothing comes back; the first message of an unregistered link is the SERVER of its other end, unless the reader is an heir (`Fresh`), and nobody is known by it (`LinksRegistered`, `ServersFit`) |
| `NetworkProofs`, second part | `ParentsTellAll`, `ChildrenTellTrue`, `SiblingsKnown` | `Informed`: the queue to a server is read as one history, of which the last word on a user counts (`Heard`, `HeardConcat`); what it says at its end is what the sender knows. It needs the invariant above: that a NICK from a third link cannot be about a user of this one. For servers `SInv`: a SERVER comes from the side of the server it names and a SQUIT from its tree (`Sides`, `Found`), and who tells others of a lost child has closed its socket (`Held`, `Gone`), so that a child that hears of the loss of a sibling has no announcement of it left to lose |
| `RelayProofs` | `TypeCorrect`, `Invariance` | links are those of the tree (`Peered`, `Connected`), users are known by the link that leads home (`UsersFit`), and every message is on a link that leads away from its sender and to whom it is for, with arguments that are there (`Traffic`) |
| `RelayTellsProofs` | `Truth`, `LinksTellTruth`, `ChannelsAreThere`, `SendersKnown`, `HeardInOrder`, `NobodyIsMissed` | `TellInv`: what one end of a link knows of a user (`Knowledge`) and of his membership (`Telling`), changed by the messages under way, is what the other end knows; no NICK comes twice, and no PART or QUIT of a user who is not there; and User::channels_ agrees with the channels but for those in `apart` (`Recorded`). `OrderInv`: what one user says, and what one server answers one user, is in the order of its numbers in every queue, ahead on the way and with every reader. `MissInv`: who is to be sent something is there, has it or is ahead of a copy of it, and no copy can be lost on its way to him |
| `FramingProofs` | `TypeCorrect`, `TextStaysInOrder`, `LinesStayApart`, `UncutLinesStayWhole` | `TypeInv`: what is kept of a line has no LF, is in one of the two buffers, and there is nothing of it when commands of its peer wait (`KeptInv`), so that no text is lost when the one buffer gives way to the other. `TextInOrder` itself. `LineInv`: when lines are proper, what is kept is what came last (`Latest`), and commands are pieces of lines (`Tidy`). `WholeInv`: a line that has begun to come is a command, or what is kept begins with it (`Whole`) |

`Victims` may be any descriptors: what is proved of the others holds next to
forms that a KILL left behind. `NobodyClosedUnasked` assumes `2 * PingT <= ConnT`. All others rest on the
`ASSUME`s of their modules only. For `Network` these are that servers and users
are finitely many (their tables are sent one by one) and that `None` and the
three states of a local client are no servers; for `Relay` that `Route` is the
routing of a tree (`RouteAssumption`, `TreeAssumption`), that late servers are
no way to others (`LateAssumption`), that users and channels are finitely many,
and that nobody has the name of a server. `ChannelsProofs` first says what
the helpers do (`SetFieldEffect`, `InsertEffect`, `LeaveEffect`), then has one
lemma per command; the others are built likewise.

The argument about the links of `Network` is about trees of any shape that grow
and break. `Under(par, z, x)` says without recursion that `z` is `x` or below
it: every set with `z` that has the parents of its members has `x`.
`Toward(par, x, y, h)` says that from `x` the server `h` lies by the link to
`y`. The guard of CONNECT, that the new parent is not below, is what keeps
`Acyclic`, and every relay keeps `Fits` because the other links of a server lead
to other sides.

In `Relay` every handler does one of four things to the queues: it takes a
message, sends one to some links, does both, or nothing. `Transfer` says which,
and the lemma of a handler (`JoinKeeps`, `ReceiveJoinKeeps`, ...) says what it
does to the tables. `RelayTellsProofs` reads a queue as a word on one fact about
one user: `Holds` says whether the fact holds before the n-th message,
`Told` that at the end of the queue it is what the sender knows, and that
messages that need the fact (or its absence) find it. `Told` is kept by sending
a message that is true and by handling one as it is meant; the introduction of
a late server is the case where a whole queue appears at once.

`HeardInOrder` needs an order of all queues, not only of one: a copy of a
message that has been passed on and one that waits to be are in two queues.
A queue from b to a is ahead of one from y to x if b is not behind y, seen from
x: what is taken from the later one has still to come by, or is at another
branch. `InOrder` says of a set of messages that numbers grow within each queue
and from queues ahead to queues behind, and that who is not behind a link has
been sent only numbers smaller than those on it. It holds of what one user says
and of the answers of one server to one user. An answer gets its number with the
question, which travels the other way, so that `AsksLast` is needed as well: a
question under way is younger than all answers and all that was read of them.
`RelayPlaced` and `NewPlaced` are the two lemmas about trees it rests on.

`NobodyIsMissed` says of each copy under way why it will not be lost (`Safe`).
What is said to a channel needs its reader to be a member at his own server
only, where nobody but he or a KICK can end it. A private message and an answer
are dropped by a server that does not know the reader, so that they need no QUIT
of a former user of the nick to cross them: there is none when the message is
sent, and those that are ahead of a question (`QuitsFirst`) go away from where
the answer is made, as the tree of links says (`QuitsAway`). That the next server
knows who the last one knows is `KnownBehind`, from `TellInv`.

In `Framing` most of the work is about `Commands`, for a text of any length.
What can be proved of the k-th stop of getline rests on counting: the k-th
element of a set of numbers is there (`EveryRank`) and there is one of it
(`RankGrows`). The first is an induction over numbers. The induction theorems
of the library take an operator as a parameter, which the provers cannot
instantiate, but `WFMin` speaks of sets: a set of natural numbers has a least
one (`LeastNatural`), and the least number without a k-th element does not
exist. From there, pieces are disjoint, in order, and have all but the CRs
(`PieceBounds`, `PiecesAreTheRest`), commands are the pieces without their first
LF (`CommandsAre`, `CutIs`, `SpotsOfCut`), and so they hold all the text of what
is cut, in order (`CommandsInOrder`, `CommandsHoldText`). Three facts join the
text to the lines: commands of CR LF lines have no LF and no gap
(`CommandsOfLines`), what lies between two CRs is a piece (`GapIsPiece`), and it
is a command if it is text behind one LF at most (`LineIsCommand`). That a line
is whole has two cases. If the new text begins with it, the text is kept until
a LF comes, which is the one behind the line. If it begins later, the LF of the
line before is in the text, so that it will be cut at once: `CutFairly` says that
the end of the line has come then. What is sent must be CR, LF and other text
(`StreamAssumption`), and what is taken fits into what is read
(`SizeAssumption`).

Only model-checked, because they are liveness: `DeadPeersAreClosed` and
`OnlyTopicsGoRound`. Every invariant and action property that a passing run checks is
proved, and so is the refinement of `Membership`; `AskedFirst` under the
assumption named above.

## 6. Not modelled, and why

- OPER, and MODE of a user, set a flag; who may be killed is a constant of
  `Timeouts`.
- MODE k, l and b, LIST, and users of channels whose nick changes are left out
  of `Channels` and `Relay`.
- LUSERS, MOTD, STATS, ISON, TIME and the numeric replies format what is there
  and change nothing. The way of a question and its answer over links is
  modelled for VERSION, which ADMIN and LINKS share.
- `parse_msg`, which splits a command at its spaces, and `parse_argv` are
  functions on text. Texts are never put together character by character.
- Start of the process, logging, the build and the settings files.
- In `Network`: nicks taken at two servers, a server that starts twice, a second
  parent, a client after it has changed its nick, wrong passwords, a server
  registered under a name that is known already, CONNECT given for another
  server, and what an heir does after it was sent more than a registration.
- In `Relay`: lost links (`Network` has them), keys and invitations, the erased
  iterator of PART (`Channels` has both), and what comes after a process has
  ended.
- In `Timeouts`: what follows a QUIT in its text, which `Registry` has, and the
  links that the ping round pings as well. With the links goes a SERVER under a
  name that is taken: `insert` does nothing (`Irisha.irc.cpp` 552), the form ends,
  and the socket is left with neither form nor entry, so that no timeout is
  about it.
- In `Framing`: commands that close the socket whose text is being handled.
- A failed `send` is an end of the process at any time in `Network`, and in
  `Relay` where it is certain; it is left out where no send to a closed
  descriptor can happen.

## 7. Plan

Done, in this order: `Channels` and `Membership`, `Timeouts`, `Config`,
`Registry`, `Network`, each with its runs; proofs of the first four; `Relay`
and `Framing`; `Timeouts` with operators, and its liveness; proofs about
`Network` and `Relay` for any tree of servers, and about `Framing` for any text.

Next, the most important first:

1. Liveness of announcements in `Network`: on links that last, a user who stays
   is known everywhere in the end, and one who has left nowhere.
2. Nicks taken at two servers at once, and a server name registered twice.
3. Links in the ping round of `Timeouts`.
4. Keys, invitations and the remaining channel modes in `Relay`, and lost links
   next to channels.
