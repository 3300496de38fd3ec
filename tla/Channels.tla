------------------------------ MODULE Channels ------------------------------
(***************************************************************************)
(* The channels of one Irisha server: the Channel objects of channels_,    *)
(* the User objects of connections_, and every command that links or       *)
(* unlinks the two (JOIN, PART, KICK, MODE, INVITE, NJOIN, TOPIC, NAMES,   *)
(* and the removal of a user on QUIT, KILL, a closed socket or a timeout). *)
(*                                                                         *)
(* A member of Users is the ADDRESS of a User object: channels keep raw    *)
(* pointers, a freed address may be given to a later user, and whatever    *)
(* still points at it then points at somebody else.                        *)
(*                                                                         *)
(* A command with a comma list ("JOIN #a,#b", "MODE #c +it-m") runs one    *)
(* iteration per item; an iteration reads no state another one has cached, *)
(* so a command is a sequence of the steps below.                          *)
(***************************************************************************)

CONSTANTS
    Users,      \* addresses a User object may have
    Chans,      \* channel names
    Keys,       \* channel keys (passwords)
    Topics,     \* non-empty topics
    Modes,      \* the mode characters of Channel::mode_ that are tracked
    NoKey, NoTopic, NoUser

ASSUME ModesAssumption == Modes \subseteq {"o", "v", "i", "m", "n", "s", "r", "t", "k", "l"}
ASSUME KeyAssumption == NoKey \notin Keys
ASSUME TopicAssumption == NoTopic \notin Topics
ASSUME UserAssumption == NoUser \notin Users

VARIABLES
    live,       \* the User objects that exist
    external,   \* those whose socket is U_EXTERNAL_CONNECTION
    fresh,      \* the user whose registration and next commands came in one recv
    chan_of,    \* User::channels_, the names the user records
    channels,   \* Irisha::channels_, name -> Channel
    status      \* "running", "terminated" (uncaught exception), "undefined"

userVars == <<live, external, fresh, chan_of>>
vars == <<live, external, fresh, chan_of, channels, status>>

Channel ==
    [users : SUBSET Users, operators : SUBSET Users, moderators : SUBSET Users,
     invited : SUBSET Users, modes : SUBSET Modes,
     key : Keys \cup {NoKey}, topic : Topics \cup {NoTopic}]

\* What a user with channel operator rights may toggle with a single letter.
ModeFlags == Modes \cap {"i", "m", "n", "s", "r", "t"}

Init ==
    /\ live = {}
    /\ external = {}
    /\ fresh = NoUser
    /\ chan_of = [u \in Users |-> {}]
    /\ channels = [c \in {} |-> {}]
    /\ status = "running"

-----------------------------------------------------------------------------
(* Who sends, and how a handler ends. *)

Exists(c) == c \in DOMAIN channels

\* u is a registered user whose command the server is handling.
Sends(u) ==
    /\ status = "running"
    /\ u \in live
    /\ fresh \in {NoUser, u}

\* cmd_.type_ is T_LOCAL_CLIENT.  It is computed when the bytes are received,
\* so it is still T_NONE for the commands that came with the registration.
TypedLocal(u) == u \notin external /\ u # fresh

\* A server link sends a command on its own behalf.
ServerSends == status = "running" /\ fresh = NoUser

\* Undefined behaviour is reached: nothing is known of the state afterwards.
Undefined == status' = "undefined" /\ UNCHANGED <<userVars, channels>>

\* A refusal is sent to user->socket().  For an external user that is -1, the
\* send fails, send_msg throws and the process exits; a local one is answered.
RefusalKills(u) ==
    /\ u \in external
    /\ status' = "terminated"
    /\ UNCHANGED <<userVars, channels>>

\* Channel::getListUsers reads the nick behind every pointer it holds and
\* erases the last character of the text, which throws when there is none.
ListOutcomes(ch) ==
    LET listed == ch.users \cup ch.operators \cup ch.moderators IN
    IF listed = {} THEN {"terminated"}
    ELSE IF listed \subseteq live THEN {"running"} ELSE {"running", "undefined"}

SetField(c, ch) == channels' = [channels EXCEPT ![c] = ch]

Insert(c, ch) ==
    channels' = [d \in DOMAIN channels \cup {c} |-> IF d = c THEN ch ELSE channels[d]]

NewChannel(us, os, vs, k) ==
    [users |-> us, operators |-> os, moderators |-> vs, invited |-> {},
     modes |-> Modes \cap {"t"}, key |-> k, topic |-> NoTopic]

\* Mutant: the size is tested before delUser.
EmptiedTestedEarly(u, S) == {c \in S : channels[c].users = {}}

\* delUser and delOperators on every channel of S; moderator_users_ and
\* invite_users_ keep the pointer.  Channels left without users are deleted.
Emptied(u, S) == {c \in S : channels[c].users \subseteq {u}}

\* Mutant: delOperators is forgotten.
WithoutUserKeepsRights(u, ch) == [ch EXCEPT !.users = @ \ {u}]

WithoutUser(u, ch) == [ch EXCEPT !.users = @ \ {u}, !.operators = @ \ {u}]

Leave(u, S) ==
    channels' = [c \in DOMAIN channels \ Emptied(u, S) |->
                    IF c \in S THEN WithoutUser(u, channels[c]) ELSE channels[c]]

-----------------------------------------------------------------------------
(* Users come and go. *)

\* NICK of a new local connection.  When USER and further commands came in the
\* same recv as NICK, they are handled with type T_NONE.
AddUser(u) ==
    /\ status = "running" /\ fresh = NoUser
    /\ u \in Users \ live
    /\ live' = live \cup {u}
    /\ fresh' \in {NoUser, u}
    /\ UNCHANGED <<external, chan_of, channels, status>>

\* NICK from a server link introduces one of its users.
AddExternal(u) ==
    /\ ServerSends
    /\ u \in Users \ live
    /\ live' = live \cup {u}
    /\ external' = external \cup {u}
    /\ UNCHANGED <<fresh, chan_of, channels, status>>

\* The last command of the received text has been handled.
EndBatch ==
    /\ status = "running" /\ fresh # NoUser
    /\ fresh' = NoUser
    /\ UNCHANGED <<live, external, chan_of, channels, status>>

\* Mutant: the rest of the text received with the QUIT is still handled for u.
RemoveUserBatchGoesOn(u) ==
    /\ status = "running"
    /\ u \in live
    /\ u \in external => fresh = NoUser
    /\ chan_of[u] \subseteq DOMAIN channels
    /\ Leave(u, chan_of[u])
    /\ live' = live \ {u}
    /\ external' = external \ {u}
    /\ chan_of' = [chan_of EXCEPT ![u] = {}]
    /\ UNCHANGED <<fresh, status>>

\* remove_user: QUIT, KILL, closed or timed out connection; an external user
\* goes by a QUIT from its link only.  Every recorded name is looked up and the
\* result used without a test for end().
RemoveUser(u) ==
    /\ status = "running"
    /\ u \in live
    /\ u \in external => fresh = NoUser
    /\ IF chan_of[u] \subseteq DOMAIN channels
       THEN /\ Leave(u, chan_of[u])
            /\ live' = live \ {u}
            /\ external' = external \ {u}
            /\ fresh' = IF fresh = u THEN NoUser ELSE fresh
            /\ chan_of' = [chan_of EXCEPT ![u] = {}]
            /\ UNCHANGED status
       ELSE Undefined

-----------------------------------------------------------------------------
(* JOIN, NJOIN, PART, KICK. *)

\* check_mode_channel, past the missing key: the banned list is always empty,
\* an external user is looked up by the link's socket and never found among
\* the invited, and max_users_ is always 0.
Admits(u, c, k) ==
    /\ channels[c].key \in {NoKey, k}
    /\ "i" \in channels[c].modes => u \notin external /\ u \in channels[c].invited
    /\ "l" \notin channels[c].modes

\* The first user of a name creates the channel and is its operator; k is the
\* first unused key of the command.  Relayed JOINs carry no key.
JoinNew(u, c, k) ==
    /\ Sends(u) /\ ~Exists(c)
    /\ u \in external => k = NoKey
    /\ Insert(c, NewChannel({u}, {u}, {}, k))
    /\ chan_of' = [chan_of EXCEPT ![u] = @ \cup {c}]
    /\ UNCHANGED <<live, external, fresh, status>>

\* Mutant: set_channel is forgotten when the channel exists.
JoinExistingUnrecorded(u, c, k) ==
    /\ Sends(u) /\ Exists(c)
    /\ u \in external => k = NoKey
    /\ Admits(u, c, k)
    /\ SetField(c, [channels[c] EXCEPT !.users = @ \cup {u}])
    /\ UNCHANGED <<userVars, status>>

\* A typed local user is sent the list of names after joining.
JoinExisting(u, c, k) ==
    /\ Sends(u) /\ Exists(c)
    /\ u \in external => k = NoKey
    /\ Admits(u, c, k)
    /\ LET ch == [channels[c] EXCEPT !.users = @ \cup {u}] IN
       /\ SetField(c, ch)
       /\ status' \in IF TypedLocal(u) THEN ListOutcomes(ch) ELSE {"running"}
    /\ chan_of' = [chan_of EXCEPT ![u] = @ \cup {c}]
    /\ UNCHANGED <<live, external, fresh>>

\* A keyed channel and no key: pop_front on an empty list.
JoinWithoutKey(u, c) ==
    /\ Sends(u) /\ Exists(c)
    /\ channels[c].key # NoKey
    /\ Undefined

\* A channel is introduced with its users, operators and voiced users.  Nobody
\* looks at who sends it, and an empty list opens a channel that nobody is on.
\* A channel that exists is left alone; a nick that is not known is used as a
\* null pointer.
NJOIN(c, us, os, vs) ==
    /\ status = "running" /\ ~Exists(c)
    /\ os \cup vs \subseteq us
    /\ IF us \subseteq live
       THEN /\ Insert(c, NewChannel(us, os, vs, NoKey))
            /\ chan_of' = [u \in Users |-> IF u \in us THEN chan_of[u] \cup {c} ELSE chan_of[u]]
            /\ UNCHANGED <<live, external, fresh, status>>
       ELSE Undefined

\* PART of a typed local user.  The emptied channel is deleted through the
\* iterator that has just been erased.
PartLocal(u, c) ==
    /\ Sends(u) /\ TypedLocal(u)
    /\ Exists(c) /\ u \in channels[c].users
    /\ Leave(u, {c})
    /\ chan_of' = [chan_of EXCEPT ![u] = @ \ {c}]
    /\ status' \in IF Emptied(u, {c}) = {} THEN {"running"} ELSE {"running", "undefined"}
    /\ UNCHANGED <<live, external, fresh>>

\* Any other PART: neither the channel nor the membership is checked.
PartRelayed(u, c) ==
    /\ Sends(u) /\ ~TypedLocal(u)
    /\ IF Exists(c)
       THEN /\ Leave(u, {c})
            /\ chan_of' = [chan_of EXCEPT ![u] = @ \ {c}]
            /\ UNCHANGED <<live, external, fresh, status>>
       ELSE Undefined

\* KICK takes v out of users_ only: v stays an operator if it was one, still
\* records the channel, and an emptied channel is not deleted.
KICK(s, v, c) ==
    /\ Sends(s) /\ Exists(c)
    /\ s \in channels[c].operators
    /\ v \in live \cap channels[c].users
    /\ SetField(c, [channels[c] EXCEPT !.users = @ \ {v}])
    /\ UNCHANGED <<userVars, status>>

-----------------------------------------------------------------------------
(* MODE, TOPIC, INVITE, NAMES. *)

Toggle(S, x, on) == IF on THEN S \cup {x} ELSE S \ {x}

\* Mutant: isUser is tested in place of isOperator.
MemberSends(u, c) == Sends(u) /\ Exists(c) /\ u \in channels[c].users

OperatorSends(u, c) == Sends(u) /\ Exists(c) /\ u \in channels[c].operators

ModeFlag(u, c, m, on) ==
    /\ OperatorSends(u, c)
    /\ SetField(c, [channels[c] EXCEPT !.modes = Toggle(@, m, on)])
    /\ UNCHANGED <<userVars, status>>

ModeOperator(u, c, v, on) ==
    /\ OperatorSends(u, c)
    /\ v \in live \cap channels[c].users
    /\ SetField(c, [channels[c] EXCEPT !.operators = Toggle(@, v, on)])
    /\ UNCHANGED <<userVars, status>>

ModeVoice(u, c, v, on) ==
    /\ OperatorSends(u, c)
    /\ v \in live \cap channels[c].users
    /\ SetField(c, [channels[c] EXCEPT !.moderators = Toggle(@, v, on)])
    /\ UNCHANGED <<userVars, status>>

\* MODE or TOPIC answered with 403 (no such channel), 482 (not an operator),
\* 441 (v, who is to get or lose a mode, is not on it), 442 (the sender is not
\* on it) or 477 (the 't' mode is off).
CommandRefused(u, v, c) ==
    /\ Sends(u)
    /\ Exists(c) => \/ u \notin channels[c].operators \cap channels[c].users
                    \/ v \notin live \cap channels[c].users
                    \/ "t" \in Modes \ channels[c].modes
    /\ RefusalKills(u)

\* A prefix that names a server: each letter is switched ON, whatever the sign.
ModeServer(c, m) ==
    /\ ServerSends /\ Exists(c)
    /\ SetField(c, [channels[c] EXCEPT !.modes = @ \cup {m}])
    /\ UNCHANGED <<userVars, status>>

TOPIC(u, c, t) ==
    /\ OperatorSends(u, c)
    /\ u \in channels[c].users
    /\ "t" \in Modes => "t" \in channels[c].modes
    /\ SetField(c, [channels[c] EXCEPT !.topic = t])
    /\ UNCHANGED <<userVars, status>>

\* TOPIC without a text asks for the topic.  The mode 'p' is not in the map, so
\* what lies at end() decides between the topic and a refusal, both for u.
TopicAsked(u, c) ==
    /\ Sends(u) /\ Exists(c)
    /\ status' \in {"undefined", IF u \in external THEN "terminated" ELSE "running"}
    /\ UNCHANGED <<userVars, channels>>

TopicServer(c, t) ==
    /\ ServerSends /\ Exists(c)
    /\ SetField(c, [channels[c] EXCEPT !.topic = t])
    /\ UNCHANGED <<userVars, status>>

\* INVITE is not relayed.  The channel is looked up but never tested.
INVITE(u, v, c) ==
    /\ Sends(u) /\ u \notin external
    /\ v \in live
    /\ IF Exists(c)
       THEN /\ u \in channels[c].users /\ v \notin channels[c].users
            /\ "i" \in channels[c].modes => u \in channels[c].operators
            /\ SetField(c, [channels[c] EXCEPT !.invited = @ \cup {v}])
            /\ UNCHANGED <<userVars, status>>
       ELSE Undefined

\* NAMES is not relayed; a secret channel is listed to its users only.
NAMES(u, c) ==
    /\ Sends(u) /\ u \notin external
    /\ Exists(c)
    /\ "s" \in channels[c].modes => u \in channels[c].users
    /\ status' \in ListOutcomes(channels[c])
    /\ UNCHANGED <<userVars, channels>>

\* The process is gone, or nothing can be said of it any more.
Stopped == status # "running" /\ UNCHANGED vars

-----------------------------------------------------------------------------
UserStep ==
    \E u \in Users : AddUser(u) \/ AddExternal(u) \/ RemoveUser(u)

EntryStep ==
    \E u \in Users, c \in Chans :
        \/ \E k \in Keys \cup {NoKey} : JoinNew(u, c, k) \/ JoinExisting(u, c, k)
        \/ JoinWithoutKey(u, c)
        \/ PartLocal(u, c)
        \/ PartRelayed(u, c)
        \/ \E v \in Users : KICK(u, v, c) \/ INVITE(u, v, c)
        \/ NAMES(u, c)

ModeStep ==
    \E u \in Users, c \in Chans :
        \/ \E m \in ModeFlags, on \in BOOLEAN : ModeFlag(u, c, m, on)
        \/ \E v \in Users, on \in BOOLEAN : ModeOperator(u, c, v, on) \/ ModeVoice(u, c, v, on)
        \/ \E t \in Topics \cup {NoTopic} : TOPIC(u, c, t)
        \/ TopicAsked(u, c)
        \/ \E v \in Users : CommandRefused(u, v, c)

ServerStep ==
    \E c \in Chans :
        \/ \E us, os, vs \in SUBSET Users : NJOIN(c, us, os, vs)
        \/ \E m \in Modes : ModeServer(c, m)
        \/ \E t \in Topics \cup {NoTopic} : TopicServer(c, t)

Next == UserStep \/ EndBatch \/ EntryStep \/ ModeStep \/ ServerStep \/ Stopped

Spec == Init /\ [][Next]_vars

-----------------------------------------------------------------------------
(* Properties. *)

\* Every variable has the shape the code gives it.
TypeOK ==
    /\ live \subseteq Users
    /\ external \subseteq live
    /\ fresh \in (live \ external) \cup {NoUser}
    /\ chan_of \in [Users -> SUBSET Chans]
    /\ DOMAIN channels \subseteq Chans
    /\ \A c \in DOMAIN channels : channels[c] \in Channel
    /\ status \in {"running", "terminated", "undefined"}

\* A user or operator pointer of a channel points at an object that exists and
\* that records the channel.  remove_user cleans only the recorded channels, so
\* a link missing here is a pointer to freed memory after the next QUIT.
MembersRecorded ==
    /\ \A c \in DOMAIN channels :
          \A u \in channels[c].users \cup channels[c].operators : u \in live /\ c \in chan_of[u]
    /\ \A u \in Users \ live : chan_of[u] = {}

\* Users and operators: those without whom getListUsers has no character to
\* erase, and whose departure deletes the channel.
Occupants(c) == channels[c].users \cup channels[c].operators

\* KICK may leave a channel without users, but no step takes users AND operators
\* away and leaves the channel: somebody can still be listed by NAMES, and an
\* emptied channel has an operator whose departure deletes it.  Only a channel
\* that NJOIN opened for nobody is deserted, until its first JOIN.
StaysOccupied ==
    [][\A c \in DOMAIN channels :
          Occupants(c) # {} /\ c \in DOMAIN channels' => Occupants(c)' # {}]_vars

\* Operator rights come from creating the channel or from an operator: once the
\* last operator is gone nobody gets them while the channel lasts, whoever
\* joins, leaves, reconnects or is announced by a server.
OplessStays ==
    [][\A c \in DOMAIN channels :
          channels[c].operators = {} /\ c \in DOMAIN channels' => channels'[c].operators = {}]_vars

\* The members and the operators an observer sees, of every name.
MembersSeen == [c \in Chans |-> IF Exists(c) THEN channels[c].users ELSE {}]
RightsSeen == [c \in Chans |-> IF Exists(c) THEN channels[c].operators ELSE {}]

Promise == INSTANCE Membership WITH
    online <- live, open <- DOMAIN channels, member <- MembersSeen, chanop <- RightsSeen

\* JOIN, PART, KICK, MODE +o/-o, NJOIN, QUIT and all the rest keep what module
\* Membership promises: rights come from opening a channel or from an operator,
\* a kick takes the membership alone, and a user who goes leaves nothing behind.
KeepsPromise == Promise!Spec

\* (does not hold) A connected user can be removed: the channels it records
\* are in channels_, where remove_user looks them up.
Removable ==
    status = "running" => \A u \in live : chan_of[u] \subseteq DOMAIN channels
=============================================================================
