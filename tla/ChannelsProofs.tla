--------------------------- MODULE ChannelsProofs ---------------------------
(***************************************************************************)
(* Proofs about module Channels, for any sets of users, channels, keys,    *)
(* topics and modes.                                                       *)
(***************************************************************************)
EXTENDS Channels, TLAPS

\* The two invariants are inductive together: Leave cleans a user's recorded
\* channels only, so that none of it is left behind rests on MembersRecorded.
IInv == TypeOK /\ MembersRecorded

-----------------------------------------------------------------------------
(* What the helpers do to channels_. *)

\* Storing a new value of one channel changes that channel only.
LEMMA SetFieldEffect ==
    ASSUME NEW c \in DOMAIN channels, NEW ch, SetField(c, ch)
    PROVE  /\ DOMAIN channels' = DOMAIN channels
           /\ channels'[c] = ch
           /\ \A d \in DOMAIN channels \ {c} : channels'[d] = channels[d]
BY DEF SetField

\* Inserting a channel adds its name and changes no other channel.
LEMMA InsertEffect ==
    ASSUME NEW c, ~Exists(c), NEW ch, Insert(c, ch)
    PROVE  /\ DOMAIN channels' = DOMAIN channels \cup {c}
           /\ channels'[c] = ch
           /\ \A d \in DOMAIN channels : channels'[d] = channels[d]
BY DEF Insert, Exists

\* The channels that u does not empty stay; those of S lose u as a user and an
\* operator, and keep everything else.
LEMMA LeaveEffect ==
    ASSUME NEW u, NEW S, Leave(u, S)
    PROVE  /\ DOMAIN channels' = DOMAIN channels \ Emptied(u, S)
           /\ \A d \in DOMAIN channels' :
                 channels'[d] = IF d \in S THEN WithoutUser(u, channels[d]) ELSE channels[d]
BY DEF Leave

\* The fields of a channel without u.
LEMMA WithoutUserFields ==
    ASSUME NEW u, NEW ch \in Channel
    PROVE  /\ WithoutUser(u, ch) \in Channel
           /\ WithoutUser(u, ch).users = ch.users \ {u}
           /\ WithoutUser(u, ch).operators = ch.operators \ {u}
BY DEF WithoutUser, Channel

\* A new channel has the fields it is given and the code's defaults.
LEMMA NewChannelFields ==
    ASSUME NEW us \in SUBSET Users, NEW os \in SUBSET Users, NEW vs \in SUBSET Users,
           NEW k \in Keys \cup {NoKey}
    PROVE  /\ NewChannel(us, os, vs, k) \in Channel
           /\ NewChannel(us, os, vs, k).users = us
           /\ NewChannel(us, os, vs, k).operators = os
BY DEF NewChannel, Channel

\* getListUsers ends in one of three ways.
LEMMA ListOutcomesType ==
    ASSUME NEW ch
    PROVE  ListOutcomes(ch) \subseteq {"running", "terminated", "undefined"}
BY DEF ListOutcomes

-----------------------------------------------------------------------------
(* The three shapes of a step that changes channels_. *)

\* Nobody comes or goes, records only grow, and only for existing users.
RecordsGrow ==
    /\ live' = live /\ external' = external /\ fresh' = fresh
    /\ chan_of' \in [Users -> SUBSET Chans]
    /\ \A u \in Users : chan_of[u] \subseteq chan_of'[u]
    /\ \A u \in Users \ live : chan_of'[u] = chan_of[u]
    /\ status' \in {"running", "terminated", "undefined"}

\* A channel value that the invariant allows under name c after the step.
Admissible(c, ch) ==
    /\ ch \in Channel
    /\ \A u \in ch.users \cup ch.operators : u \in live /\ c \in chan_of'[u]

\* Replacing an existing channel by an admissible one.
LEMMA SetFieldKeepsIInv ==
    ASSUME IInv, NEW c \in Chans, Exists(c), NEW ch, SetField(c, ch),
           RecordsGrow, Admissible(c, ch)
    PROVE  IInv'
<1>1. /\ DOMAIN channels' = DOMAIN channels
      /\ channels'[c] = ch
      /\ \A d \in DOMAIN channels \ {c} : channels'[d] = channels[d]
  BY SetFieldEffect DEF Exists
<1>2. TypeOK'
  BY <1>1 DEF IInv, TypeOK, RecordsGrow, Admissible
<1>3. MembersRecorded'
  <2>1. ASSUME NEW d \in DOMAIN channels', NEW u \in channels'[d].users \cup channels'[d].operators
        PROVE  u \in live' /\ d \in chan_of'[u]
    <3>1. CASE d = c
      BY <1>1, <2>1, <3>1 DEF RecordsGrow, Admissible
    <3>2. CASE d # c
      <4>1. u \in live /\ d \in chan_of[u]
        BY <1>1, <2>1, <3>2 DEF IInv, MembersRecorded
      <4>2. u \in Users
        BY <4>1 DEF IInv, TypeOK
      <4> QED BY <4>1, <4>2 DEF RecordsGrow
    <3> QED BY <3>1, <3>2
  <2>2. \A u \in Users \ live' : chan_of'[u] = {}
    BY DEF IInv, MembersRecorded, RecordsGrow
  <2> QED BY <2>1, <2>2 DEF MembersRecorded
<1> QED BY <1>2, <1>3 DEF IInv

\* Inserting an admissible channel under a new name.
LEMMA InsertKeepsIInv ==
    ASSUME IInv, NEW c \in Chans, ~Exists(c), NEW ch, Insert(c, ch),
           RecordsGrow, Admissible(c, ch)
    PROVE  IInv'
<1>1. /\ DOMAIN channels' = DOMAIN channels \cup {c}
      /\ channels'[c] = ch
      /\ \A d \in DOMAIN channels : channels'[d] = channels[d]
  BY InsertEffect
<1>2. TypeOK'
  BY <1>1 DEF IInv, TypeOK, RecordsGrow, Admissible
<1>3. MembersRecorded'
  <2>1. ASSUME NEW d \in DOMAIN channels', NEW u \in channels'[d].users \cup channels'[d].operators
        PROVE  u \in live' /\ d \in chan_of'[u]
    <3>1. CASE d = c
      BY <1>1, <2>1, <3>1 DEF RecordsGrow, Admissible
    <3>2. CASE d # c
      <4>1. u \in live /\ d \in chan_of[u]
        BY <1>1, <2>1, <3>2 DEF IInv, MembersRecorded
      <4>2. u \in Users
        BY <4>1 DEF IInv, TypeOK
      <4> QED BY <4>1, <4>2 DEF RecordsGrow
    <3> QED BY <3>1, <3>2
  <2>2. \A u \in Users \ live' : chan_of'[u] = {}
    BY DEF IInv, MembersRecorded, RecordsGrow
  <2> QED BY <2>1, <2>2 DEF MembersRecorded
<1> QED BY <1>2, <1>3 DEF IInv

\* u leaves the channels of S and no longer records them; it may be freed when
\* it records no other.
LEMMA LeaveKeepsIInv ==
    ASSUME IInv, NEW u \in Users, NEW S \in SUBSET DOMAIN channels, Leave(u, S),
           chan_of' = [chan_of EXCEPT ![u] = @ \ S],
           \/ live' = live /\ external' = external /\ fresh' = fresh
           \/ /\ chan_of[u] = S
              /\ live' = live \ {u} /\ external' = external \ {u}
              /\ fresh' = IF fresh = u THEN NoUser ELSE fresh,
           status' \in {"running", "terminated", "undefined"}
    PROVE  IInv'
<1>1. /\ DOMAIN channels' = DOMAIN channels \ Emptied(u, S)
      /\ \A d \in DOMAIN channels' :
            channels'[d] = IF d \in S THEN WithoutUser(u, channels[d]) ELSE channels[d]
  BY LeaveEffect
<1>2. ASSUME NEW d \in DOMAIN channels'
      PROVE  /\ d \in DOMAIN channels /\ channels[d] \in Channel /\ channels'[d] \in Channel
             /\ d \in S => /\ channels'[d].users = channels[d].users \ {u}
                           /\ channels'[d].operators = channels[d].operators \ {u}
                           /\ ~(channels[d].users \subseteq {u})
             /\ d \notin S => channels'[d] = channels[d]
  <2>1. d \in DOMAIN channels /\ channels[d] \in Channel
    BY <1>1 DEF IInv, TypeOK
  <2>2. d \in S => ~(channels[d].users \subseteq {u})
    BY <1>1 DEF Emptied
  <2> QED BY <1>1, <2>1, <2>2, WithoutUserFields
<1>3. TypeOK'
  <2>1. chan_of' \in [Users -> SUBSET Chans]
    BY DEF IInv, TypeOK
  <2>2. live' \subseteq Users /\ external' \subseteq live' /\ fresh' \in (live' \ external') \cup {NoUser}
    BY DEF IInv, TypeOK
  <2>3. DOMAIN channels' \subseteq Chans
    BY <1>1 DEF IInv, TypeOK
  <2> QED BY <1>2, <2>1, <2>2, <2>3 DEF TypeOK
<1>4. MembersRecorded'
  <2>1. ASSUME NEW d \in DOMAIN channels', NEW v \in channels'[d].users \cup channels'[d].operators
        PROVE  v \in live' /\ d \in chan_of'[v]
    <3>1. v \in channels[d].users \cup channels[d].operators
      BY <1>2, <2>1
    <3>2. v \in live /\ d \in chan_of[v] /\ v \in Users
      BY <1>2, <3>1 DEF IInv, MembersRecorded, TypeOK
    <3>3. CASE v = u
      <4>1. d \notin S
        BY <1>2, <2>1, <3>3
      <4>2. chan_of[u] # S
        BY <3>2, <3>3, <4>1
      <4> QED BY <3>2, <3>3, <4>1, <4>2 DEF IInv, TypeOK
    <3>4. CASE v # u
      BY <3>2, <3>4 DEF IInv, TypeOK
    <3> QED BY <3>3, <3>4
  <2>2. \A v \in Users \ live' : chan_of'[v] = {}
    BY DEF IInv, MembersRecorded, TypeOK
  <2> QED BY <2>1, <2>2 DEF MembersRecorded
<1> QED BY <1>3, <1>4 DEF IInv

-----------------------------------------------------------------------------
(* Every action keeps the invariant. *)

\* A step after which only the status may differ keeps the invariant.
LEMMA StatusOnlyKeepsIInv ==
    ASSUME IInv, UNCHANGED <<userVars, channels>>,
           status' \in {"running", "terminated", "undefined"}
    PROVE  IInv'
BY DEF IInv, TypeOK, MembersRecorded, userVars

\* Users come and go.
LEMMA UserStepKeepsIInv ==
    ASSUME IInv, NEW u \in Users, AddUser(u) \/ AddExternal(u) \/ RemoveUser(u)
    PROVE  IInv'
<1>1. CASE AddUser(u)
  BY <1>1 DEF AddUser, IInv, TypeOK, MembersRecorded
<1>2. CASE AddExternal(u)
  BY <1>2 DEF AddExternal, ServerSends, IInv, TypeOK, MembersRecorded
<1>3. CASE RemoveUser(u)
  <2>1. CASE chan_of[u] \subseteq DOMAIN channels
    <3>1. /\ Leave(u, chan_of[u])
          /\ live' = live \ {u} /\ external' = external \ {u}
          /\ fresh' = IF fresh = u THEN NoUser ELSE fresh
          /\ status' = "running"
      BY <1>3, <2>1 DEF RemoveUser
    <3>2. chan_of' = [chan_of EXCEPT ![u] = @ \ chan_of[u]]
      BY <1>3, <2>1 DEF RemoveUser
    <3> QED BY <2>1, <3>1, <3>2, LeaveKeepsIInv
  <2>2. CASE ~(chan_of[u] \subseteq DOMAIN channels)
    BY <1>3, <2>2, StatusOnlyKeepsIInv DEF RemoveUser, Undefined
  <2> QED BY <2>1, <2>2
<1> QED BY <1>1, <1>2, <1>3

\* A user enters a channel or is refused for want of a key.
LEMMA JoinKeepsIInv ==
    ASSUME IInv, NEW u \in Users, NEW c \in Chans, NEW k \in Keys \cup {NoKey},
           JoinNew(u, c, k) \/ JoinExisting(u, c, k) \/ JoinWithoutKey(u, c)
    PROVE  IInv'
<1>1. CASE JoinNew(u, c, k)
  <2> DEFINE ch == NewChannel({u}, {u}, {}, k)
  <2>1. ~Exists(c) /\ Insert(c, ch) /\ u \in live
    BY <1>1 DEF JoinNew, Sends
  <2>2. RecordsGrow
    BY <1>1 DEF JoinNew, Sends, RecordsGrow, IInv, TypeOK
  <2>3. Admissible(c, ch)
    <3>1. ch \in Channel /\ ch.users = {u} /\ ch.operators = {u}
      BY NewChannelFields
    <3>2. c \in chan_of'[u]
      BY <1>1 DEF JoinNew, IInv, TypeOK
    <3> QED BY <2>1, <3>1, <3>2 DEF Admissible
  <2> QED BY <2>1, <2>2, <2>3, InsertKeepsIInv
<1>2. CASE JoinExisting(u, c, k)
  <2> DEFINE ch == [channels[c] EXCEPT !.users = @ \cup {u}]
  <2>1. Exists(c) /\ SetField(c, ch) /\ u \in live
    BY <1>2 DEF JoinExisting, Sends
  <2>2. status' \in {"running", "terminated", "undefined"}
    BY <1>2, ListOutcomesType DEF JoinExisting
  <2>3. RecordsGrow
    BY <1>2, <2>2 DEF JoinExisting, Sends, RecordsGrow, IInv, TypeOK
  <2>4. Admissible(c, ch)
    <3>1. channels[c] \in Channel
      BY <2>1 DEF IInv, TypeOK, Exists
    <3>2. ch \in Channel /\ ch.users = channels[c].users \cup {u} /\ ch.operators = channels[c].operators
      BY <3>1 DEF Channel
    <3>3. c \in chan_of'[u]
      BY <1>2 DEF JoinExisting, IInv, TypeOK
    <3>4. ASSUME NEW v \in channels[c].users \cup channels[c].operators
          PROVE  v \in live /\ c \in chan_of'[v]
      <4>1. v \in live /\ c \in chan_of[v] /\ v \in Users
        BY <2>1 DEF IInv, MembersRecorded, TypeOK, Exists
      <4> QED BY <2>3, <4>1 DEF RecordsGrow
    <3> HIDE DEF ch
    <3> QED BY <2>1, <3>2, <3>3, <3>4 DEF Admissible
  <2> HIDE DEF ch
  <2> QED BY <2>1, <2>3, <2>4, SetFieldKeepsIInv
<1>3. CASE JoinWithoutKey(u, c)
  BY <1>3, StatusOnlyKeepsIInv DEF JoinWithoutKey, Undefined
<1> QED BY <1>1, <1>2, <1>3

\* A user leaves a channel.
LEMMA PartKeepsIInv ==
    ASSUME IInv, NEW u \in Users, NEW c \in Chans, PartLocal(u, c) \/ PartRelayed(u, c)
    PROVE  IInv'
<1>1. CASE Exists(c) /\ Leave(u, {c})
  <2>1. /\ live' = live /\ external' = external /\ fresh' = fresh
        /\ chan_of' = [chan_of EXCEPT ![u] = @ \ {c}]
        /\ status' \in {"running", "terminated", "undefined"}
    <3>1. CASE PartLocal(u, c)
      BY <3>1 DEF PartLocal
    <3>2. CASE PartRelayed(u, c)
      BY <1>1, <3>2 DEF PartRelayed, Sends
    <3> QED BY <3>1, <3>2
  <2>2. {c} \in SUBSET DOMAIN channels
    BY <1>1 DEF Exists
  <2> QED BY <1>1, <2>1, <2>2, LeaveKeepsIInv
<1>2. CASE ~(Exists(c) /\ Leave(u, {c}))
  BY <1>2, StatusOnlyKeepsIInv DEF PartLocal, PartRelayed, Undefined
<1> QED BY <1>1, <1>2

\* Replacing a channel by one with the same members, or with other members taken
\* from its users, is allowed.
LEMMA EditKeepsIInv ==
    ASSUME IInv, NEW c \in Chans, Exists(c), NEW ch \in Channel, SetField(c, ch),
           ch.users \cup ch.operators \subseteq channels[c].users \cup channels[c].operators,
           UNCHANGED <<userVars, status>>
    PROVE  IInv'
<1>1. RecordsGrow
  BY DEF RecordsGrow, IInv, TypeOK, userVars
<1>2. Admissible(c, ch)
  BY DEF Admissible, IInv, MembersRecorded, Exists, userVars
<1> QED BY <1>1, <1>2, SetFieldKeepsIInv

\* KICK takes one user out.
LEMMA KickKeepsIInv ==
    ASSUME IInv, NEW s \in Users, NEW v \in Users, NEW c \in Chans, KICK(s, v, c)
    PROVE  IInv'
<1> DEFINE ch == [channels[c] EXCEPT !.users = @ \ {v}]
<1>1. /\ Exists(c) /\ SetField(c, ch) /\ s \in channels[c].operators
      /\ UNCHANGED <<userVars, status>>
  BY DEF KICK
<1>2. channels[c] \in Channel
  BY <1>1 DEF IInv, TypeOK, Exists
<1>3. ch \in Channel /\ ch.users = channels[c].users \ {v} /\ ch.operators = channels[c].operators
  BY <1>2 DEF Channel
<1> HIDE DEF ch
<1> QED BY <1>1, <1>3, EditKeepsIInv

\* The commands that leave users_ and operators_ alone.
LEMMA SettingKeepsIInv ==
    ASSUME IInv, NEW c \in Chans, Exists(c), NEW ch \in Channel, SetField(c, ch),
           ch.users = channels[c].users, ch.operators = channels[c].operators,
           UNCHANGED <<userVars, status>>
    PROVE  IInv'
BY EditKeepsIInv

LEMMA InviteKeepsIInv ==
    ASSUME IInv, NEW u \in Users, NEW v \in Users, NEW c \in Chans, INVITE(u, v, c)
    PROVE  IInv'
<1>1. CASE Exists(c)
  <2> DEFINE ch == [channels[c] EXCEPT !.invited = @ \cup {v}]
  <2>1. SetField(c, ch) /\ UNCHANGED <<userVars, status>>
    BY <1>1 DEF INVITE
  <2>2. channels[c] \in Channel
    BY <1>1 DEF IInv, TypeOK, Exists
  <2>3. ch \in Channel /\ ch.users = channels[c].users /\ ch.operators = channels[c].operators
    BY <2>2 DEF Channel
  <2> HIDE DEF ch
  <2> QED BY <1>1, <2>1, <2>3, SettingKeepsIInv
<1>2. CASE ~Exists(c)
  BY <1>2, StatusOnlyKeepsIInv DEF INVITE, Undefined
<1> QED BY <1>1, <1>2

\* NAMES only reads.
LEMMA NamesKeepsIInv ==
    ASSUME IInv, NEW u \in Users, NEW c \in Chans, NAMES(u, c)
    PROVE  IInv'
BY StatusOnlyKeepsIInv, ListOutcomesType DEF NAMES

\* The operator's MODE commands.
LEMMA ModeKeepsIInv ==
    ASSUME IInv, NEW u \in Users, NEW v \in Users, NEW c \in Chans, NEW on \in BOOLEAN,
           \/ \E m \in ModeFlags : ModeFlag(u, c, m, on)
           \/ ModeOperator(u, c, v, on)
           \/ ModeVoice(u, c, v, on)
    PROVE  IInv'
<1>1. Exists(c) /\ u \in channels[c].operators /\ UNCHANGED <<userVars, status>>
  BY DEF ModeFlag, ModeOperator, ModeVoice, OperatorSends
<1>2. channels[c] \in Channel
  BY <1>1 DEF IInv, TypeOK, Exists
<1>3. CASE \E m \in ModeFlags : ModeFlag(u, c, m, on)
  <2>1. PICK m \in ModeFlags : ModeFlag(u, c, m, on)
    BY <1>3
  <2> DEFINE ch == [channels[c] EXCEPT !.modes = Toggle(@, m, on)]
  <2>2. SetField(c, ch)
    BY <2>1 DEF ModeFlag
  <2>3. ch \in Channel /\ ch.users = channels[c].users /\ ch.operators = channels[c].operators
    BY <1>2, <2>1 DEF Channel, ModeFlags, Toggle
  <2> HIDE DEF ch
  <2> QED BY <1>1, <2>2, <2>3, SettingKeepsIInv
<1>4. CASE ModeOperator(u, c, v, on)
  <2> DEFINE ch == [channels[c] EXCEPT !.operators = Toggle(@, v, on)]
  <2>1. SetField(c, ch) /\ v \in channels[c].users
    BY <1>4 DEF ModeOperator
  <2>2. /\ ch \in Channel /\ ch.users = channels[c].users
        /\ ch.operators = Toggle(channels[c].operators, v, on)
    BY <1>2 DEF Channel, Toggle
  <2>3. ch.users \cup ch.operators \subseteq channels[c].users \cup channels[c].operators
    BY <2>1, <2>2 DEF Toggle
  <2> HIDE DEF ch
  <2> QED BY <1>1, <2>1, <2>2, <2>3, EditKeepsIInv
<1>5. CASE ModeVoice(u, c, v, on)
  <2> DEFINE ch == [channels[c] EXCEPT !.moderators = Toggle(@, v, on)]
  <2>1. SetField(c, ch)
    BY <1>5 DEF ModeVoice
  <2>2. ch \in Channel /\ ch.users = channels[c].users /\ ch.operators = channels[c].operators
    BY <1>2 DEF Channel, Toggle
  <2> HIDE DEF ch
  <2> QED BY <1>1, <2>1, <2>2, SettingKeepsIInv
<1> QED BY <1>3, <1>4, <1>5

\* A topic set by an operator.
LEMMA TopicKeepsIInv ==
    ASSUME IInv, NEW u \in Users, NEW c \in Chans, NEW t \in Topics \cup {NoTopic}, TOPIC(u, c, t)
    PROVE  IInv'
<1> DEFINE ch == [channels[c] EXCEPT !.topic = t]
<1>1. Exists(c) /\ SetField(c, ch) /\ UNCHANGED <<userVars, status>>
  BY DEF TOPIC, OperatorSends
<1>2. channels[c] \in Channel
  BY <1>1 DEF IInv, TypeOK, Exists
<1>3. ch \in Channel /\ ch.users = channels[c].users /\ ch.operators = channels[c].operators
  BY <1>2 DEF Channel
<1> HIDE DEF ch
<1> QED BY <1>1, <1>3, SettingKeepsIInv

\* A refusal that ends the process, or a question, changes nothing else.
LEMMA RefusedKeepsIInv ==
    ASSUME IInv, NEW u \in Users, NEW v \in Users, NEW c \in Chans,
           TopicAsked(u, c) \/ CommandRefused(u, v, c)
    PROVE  IInv'
BY StatusOnlyKeepsIInv DEF TopicAsked, CommandRefused, RefusalKills

\* A server link's NJOIN, MODE and TOPIC.
LEMMA ServerKeepsIInv ==
    ASSUME IInv, NEW c \in Chans,
           \/ \E us, os, vs \in SUBSET Users : NJOIN(c, us, os, vs)
           \/ \E m \in Modes : ModeServer(c, m)
           \/ \E t \in Topics \cup {NoTopic} : TopicServer(c, t)
    PROVE  IInv'
<1>1. CASE \E us, os, vs \in SUBSET Users : NJOIN(c, us, os, vs)
  <2>1. PICK us \in SUBSET Users, os \in SUBSET Users, vs \in SUBSET Users : NJOIN(c, us, os, vs)
    BY <1>1
  <2>2. CASE us \subseteq live
    <3> DEFINE ch == NewChannel(us, os, vs, NoKey)
    <3>1. /\ ~Exists(c) /\ Insert(c, ch) /\ os \subseteq us
          /\ chan_of' = [u \in Users |-> IF u \in us THEN chan_of[u] \cup {c} ELSE chan_of[u]]
          /\ UNCHANGED <<live, external, fresh, status>>
      BY <2>1, <2>2 DEF NJOIN
    <3>2. RecordsGrow
      BY <2>2, <3>1 DEF RecordsGrow, IInv, TypeOK
    <3>3. ch \in Channel /\ ch.users = us /\ ch.operators = os
      BY NewChannelFields
    <3> HIDE DEF ch
    <3>4. Admissible(c, ch)
      BY <2>2, <3>1, <3>3 DEF Admissible, IInv, TypeOK
    <3> QED BY <3>1, <3>2, <3>4, InsertKeepsIInv
  <2>3. CASE ~(us \subseteq live)
    BY <2>1, <2>3, StatusOnlyKeepsIInv DEF NJOIN, Undefined
  <2> QED BY <2>2, <2>3
<1>2. CASE \E m \in Modes : ModeServer(c, m)
  <2>1. PICK m \in Modes : ModeServer(c, m)
    BY <1>2
  <2> DEFINE ch == [channels[c] EXCEPT !.modes = @ \cup {m}]
  <2>2. Exists(c) /\ SetField(c, ch) /\ UNCHANGED <<userVars, status>>
    BY <2>1 DEF ModeServer
  <2>3. channels[c] \in Channel
    BY <2>2 DEF IInv, TypeOK, Exists
  <2>4. ch \in Channel /\ ch.users = channels[c].users /\ ch.operators = channels[c].operators
    BY <2>3 DEF Channel
  <2> HIDE DEF ch
  <2> QED BY <2>2, <2>4, SettingKeepsIInv
<1>3. CASE \E t \in Topics \cup {NoTopic} : TopicServer(c, t)
  <2>1. PICK t \in Topics \cup {NoTopic} : TopicServer(c, t)
    BY <1>3
  <2> DEFINE ch == [channels[c] EXCEPT !.topic = t]
  <2>2. Exists(c) /\ SetField(c, ch) /\ UNCHANGED <<userVars, status>>
    BY <2>1 DEF TopicServer
  <2>3. channels[c] \in Channel
    BY <2>2 DEF IInv, TypeOK, Exists
  <2>4. ch \in Channel /\ ch.users = channels[c].users /\ ch.operators = channels[c].operators
    BY <2>3 DEF Channel
  <2> HIDE DEF ch
  <2> QED BY <2>2, <2>4, SettingKeepsIInv
<1> QED BY <1>1, <1>2, <1>3

-----------------------------------------------------------------------------
(* The theorems. *)

LEMMA InitIInv == Init => IInv
BY DEF Init, IInv, TypeOK, MembersRecorded

LEMMA NextIInv == IInv /\ [Next]_vars => IInv'
<1> SUFFICES ASSUME IInv, [Next]_vars PROVE IInv'
  OBVIOUS
<1>1. CASE UserStep
  BY <1>1, UserStepKeepsIInv DEF UserStep
<1>2. CASE EndBatch
  BY <1>2 DEF EndBatch, IInv, TypeOK, MembersRecorded
<1>3. CASE EntryStep
  BY <1>3, JoinKeepsIInv, PartKeepsIInv, KickKeepsIInv, InviteKeepsIInv, NamesKeepsIInv DEF EntryStep
<1>4. CASE ModeStep
  BY <1>4, ModeKeepsIInv, TopicKeepsIInv, RefusedKeepsIInv DEF ModeStep
<1>5. CASE ServerStep
  BY <1>5, ServerKeepsIInv DEF ServerStep
<1>6. CASE Stopped \/ UNCHANGED vars
  BY <1>6 DEF Stopped, vars, IInv, TypeOK, MembersRecorded
<1> QED BY <1>1, <1>2, <1>3, <1>4, <1>5, <1>6 DEF Next

\* The invariant holds in every reachable state.
THEOREM Invariant == Spec => []IInv
BY InitIInv, NextIInv, PTL DEF Spec

\* Type correctness: whatever the sets, every variable keeps its shape.
THEOREM TypeCorrect == Spec => []TypeOK
BY Invariant, PTL DEF IInv

\* Users and operators of a channel exist and record it, so that removing a
\* user (QUIT, KILL, lost connection) leaves no pointer to it among them.
THEOREM MembersAreRecorded == Spec => []MembersRecorded
BY Invariant, PTL DEF IInv

-----------------------------------------------------------------------------
(* Operator rights do not come back, and channels are not deserted. *)

\* What may become of a channel that lasts: without operators it stays without,
\* and with users or operators it stays with some.
Lasts(old, new) ==
    /\ old.operators = {} => new.operators = {}
    /\ old.users \cup old.operators # {} => new.users \cup new.operators # {}

AllLast == \A c \in DOMAIN channels : c \in DOMAIN channels' => Lasts(channels[c], channels'[c])

\* Who leaves a channel that lasts leaves another user there.
LEMMA LeaveAllLast ==
    ASSUME IInv, NEW u, NEW S, Leave(u, S)
    PROVE  AllLast
<1> SUFFICES ASSUME NEW d \in DOMAIN channels, d \in DOMAIN channels'
             PROVE  Lasts(channels[d], channels'[d])
  BY DEF AllLast
<1>1. /\ d \notin Emptied(u, S)
      /\ channels'[d] = IF d \in S THEN WithoutUser(u, channels[d]) ELSE channels[d]
  <2>1. /\ DOMAIN channels' = DOMAIN channels \ Emptied(u, S)
        /\ \A e \in DOMAIN channels' :
              channels'[e] = IF e \in S THEN WithoutUser(u, channels[e]) ELSE channels[e]
    BY LeaveEffect
  <2> QED BY <2>1
<1>2. CASE d \in S
  <2>1. /\ channels'[d].users = channels[d].users \ {u}
        /\ channels'[d].operators = channels[d].operators \ {u}
    BY <1>1, <1>2, WithoutUserFields DEF IInv, TypeOK
  <2>2. ~(channels[d].users \subseteq {u})
    BY <1>1, <1>2 DEF Emptied
  <2> QED BY <2>1, <2>2 DEF Lasts
<1>3. CASE d \notin S
  BY <1>1, <1>3 DEF Lasts
<1> QED BY <1>2, <1>3

\* A channel is replaced by one that it may become.
LEMMA SetFieldAllLast ==
    ASSUME NEW c \in DOMAIN channels, NEW ch, SetField(c, ch), Lasts(channels[c], ch)
    PROVE  AllLast
BY SetFieldEffect DEF AllLast, Lasts

LEMMA InsertAllLast ==
    ASSUME NEW c, ~Exists(c), NEW ch, Insert(c, ch)
    PROVE  AllLast
BY InsertEffect DEF AllLast, Lasts

LEMMA StutterAllLast ==
    ASSUME UNCHANGED channels
    PROVE  AllLast
BY DEF AllLast, Lasts

\* An operator may change the rights of the users, and takes none of them out.
LEMMA OperatorAllLast ==
    ASSUME IInv, NEW u \in Users, NEW v \in Users, NEW c \in Chans, NEW on \in BOOLEAN,
           \/ \E m \in ModeFlags : ModeFlag(u, c, m, on)
           \/ ModeOperator(u, c, v, on)
           \/ ModeVoice(u, c, v, on)
           \/ \E t \in Topics \cup {NoTopic} : TOPIC(u, c, t)
    PROVE  AllLast
<1>1. Exists(c) /\ u \in channels[c].operators
  BY DEF ModeFlag, ModeOperator, ModeVoice, TOPIC, OperatorSends
<1>2. c \in DOMAIN channels /\ channels[c] \in Channel
  BY <1>1 DEF IInv, TypeOK, Exists
<1>3. ASSUME NEW ch, SetField(c, ch), ch.users = channels[c].users,
             ch.operators = channels[c].operators \/ ch.users # {}
      PROVE  AllLast
  <2>1. Lasts(channels[c], ch)
    BY <1>1, <1>3 DEF Lasts
  <2> QED BY <1>2, <1>3, <2>1, SetFieldAllLast
<1>4. CASE \E m \in ModeFlags : ModeFlag(u, c, m, on)
  <2>1. PICK m \in ModeFlags : ModeFlag(u, c, m, on)
    BY <1>4
  <2> DEFINE ch == [channels[c] EXCEPT !.modes = Toggle(@, m, on)]
  <2>2. SetField(c, ch) /\ ch.users = channels[c].users /\ ch.operators = channels[c].operators
    BY <1>2, <2>1 DEF ModeFlag, Channel
  <2> HIDE DEF ch
  <2> QED BY <1>3, <2>2
<1>5. CASE ModeOperator(u, c, v, on)
  <2> DEFINE ch == [channels[c] EXCEPT !.operators = Toggle(@, v, on)]
  <2>1. SetField(c, ch) /\ ch.users = channels[c].users /\ v \in channels[c].users
    BY <1>2, <1>5 DEF ModeOperator, Channel
  <2> HIDE DEF ch
  <2> QED BY <1>3, <2>1
<1>6. CASE ModeVoice(u, c, v, on)
  <2> DEFINE ch == [channels[c] EXCEPT !.moderators = Toggle(@, v, on)]
  <2>1. SetField(c, ch) /\ ch.users = channels[c].users /\ ch.operators = channels[c].operators
    BY <1>2, <1>6 DEF ModeVoice, Channel
  <2> HIDE DEF ch
  <2> QED BY <1>3, <2>1
<1>7. CASE \E t \in Topics \cup {NoTopic} : TOPIC(u, c, t)
  <2>1. PICK t \in Topics \cup {NoTopic} : TOPIC(u, c, t)
    BY <1>7
  <2> DEFINE ch == [channels[c] EXCEPT !.topic = t]
  <2>2. SetField(c, ch) /\ ch.users = channels[c].users /\ ch.operators = channels[c].operators
    BY <1>2, <2>1 DEF TOPIC, Channel
  <2> HIDE DEF ch
  <2> QED BY <1>3, <2>2
<1> QED BY <1>4, <1>5, <1>6, <1>7

LEMMA NextAllLast == IInv /\ [Next]_vars => AllLast
<1> SUFFICES ASSUME IInv, [Next]_vars PROVE AllLast
  OBVIOUS
<1>1. CASE UserStep
  BY <1>1, LeaveAllLast, StutterAllLast
  DEF UserStep, AddUser, AddExternal, RemoveUser, Undefined
<1>2. CASE EndBatch \/ Stopped \/ UNCHANGED vars
  BY <1>2, StutterAllLast DEF EndBatch, Stopped, vars
<1>3. CASE EntryStep
  <2>1. PICK u \in Users, c \in Chans :
           \/ \E k \in Keys \cup {NoKey} : JoinNew(u, c, k) \/ JoinExisting(u, c, k)
           \/ JoinWithoutKey(u, c)
           \/ PartLocal(u, c)
           \/ PartRelayed(u, c)
           \/ \E v \in Users : KICK(u, v, c) \/ INVITE(u, v, c)
           \/ NAMES(u, c)
    BY <1>3 DEF EntryStep
  <2>2. CASE \E k \in Keys \cup {NoKey} : JoinNew(u, c, k)
    BY <2>2, InsertAllLast DEF JoinNew
  <2>3. CASE \E k \in Keys \cup {NoKey} : JoinExisting(u, c, k)
    <3>1. Exists(c) /\ SetField(c, [channels[c] EXCEPT !.users = @ \cup {u}])
      BY <2>3 DEF JoinExisting
    <3>2. Lasts(channels[c], [channels[c] EXCEPT !.users = @ \cup {u}])
      BY <3>1 DEF Exists, IInv, TypeOK, Channel, Lasts
    <3> QED BY <3>1, <3>2, SetFieldAllLast DEF Exists
  <2>4. CASE PartLocal(u, c) \/ PartRelayed(u, c)
    BY <2>4, LeaveAllLast, StutterAllLast DEF PartLocal, PartRelayed, Undefined
  <2>5. CASE \E v \in Users : KICK(u, v, c)
    <3>1. PICK v \in Users : KICK(u, v, c)
      BY <2>5
    <3>2. /\ Exists(c) /\ SetField(c, [channels[c] EXCEPT !.users = @ \ {v}])
          /\ u \in channels[c].operators
      BY <3>1 DEF KICK
    <3>3. Lasts(channels[c], [channels[c] EXCEPT !.users = @ \ {v}])
      BY <3>2 DEF Exists, IInv, TypeOK, Channel, Lasts
    <3> QED BY <3>2, <3>3, SetFieldAllLast DEF Exists
  <2>6. CASE \E v \in Users : INVITE(u, v, c)
    <3>1. PICK v \in Users : INVITE(u, v, c)
      BY <2>6
    <3>2. CASE Exists(c)
      <4>1. SetField(c, [channels[c] EXCEPT !.invited = @ \cup {v}])
        BY <3>1, <3>2 DEF INVITE
      <4>2. Lasts(channels[c], [channels[c] EXCEPT !.invited = @ \cup {v}])
        BY <3>2 DEF Exists, IInv, TypeOK, Channel, Lasts
      <4> QED BY <3>2, <4>1, <4>2, SetFieldAllLast DEF Exists
    <3>3. CASE ~Exists(c)
      BY <3>1, <3>3, StutterAllLast DEF INVITE, Undefined
    <3> QED BY <3>2, <3>3
  <2>7. CASE JoinWithoutKey(u, c) \/ NAMES(u, c)
    BY <2>7, StutterAllLast DEF JoinWithoutKey, NAMES, Undefined
  <2> QED BY <2>1, <2>2, <2>3, <2>4, <2>5, <2>6, <2>7
<1>4. CASE ModeStep
  <2>1. PICK u \in Users, c \in Chans :
           \/ \E m \in ModeFlags, on \in BOOLEAN : ModeFlag(u, c, m, on)
           \/ \E v \in Users, on \in BOOLEAN : ModeOperator(u, c, v, on) \/ ModeVoice(u, c, v, on)
           \/ \E t \in Topics \cup {NoTopic} : TOPIC(u, c, t)
           \/ TopicAsked(u, c)
           \/ \E v \in Users : CommandRefused(u, v, c)
    BY <1>4 DEF ModeStep
  <2>2. CASE TopicAsked(u, c) \/ \E v \in Users : CommandRefused(u, v, c)
    BY <2>2, StutterAllLast DEF TopicAsked, CommandRefused, RefusalKills
  <2>3. CASE ~(TopicAsked(u, c) \/ \E v \in Users : CommandRefused(u, v, c))
    BY <2>1, <2>3, OperatorAllLast
  <2> QED BY <2>2, <2>3
<1>5. CASE ServerStep
  <2>1. PICK c \in Chans :
           \/ \E us, os, vs \in SUBSET Users : NJOIN(c, us, os, vs)
           \/ \E m \in Modes : ModeServer(c, m)
           \/ \E t \in Topics \cup {NoTopic} : TopicServer(c, t)
    BY <1>5 DEF ServerStep
  <2>2. CASE \E us, os, vs \in SUBSET Users : NJOIN(c, us, os, vs)
    BY <2>2, InsertAllLast, StutterAllLast DEF NJOIN, Undefined
  <2>3. CASE \E m \in Modes : ModeServer(c, m)
    <3>1. PICK m \in Modes : ModeServer(c, m)
      BY <2>3
    <3>2. Exists(c) /\ SetField(c, [channels[c] EXCEPT !.modes = @ \cup {m}])
      BY <3>1 DEF ModeServer
    <3>3. Lasts(channels[c], [channels[c] EXCEPT !.modes = @ \cup {m}])
      BY <3>2 DEF Exists, IInv, TypeOK, Channel, Lasts
    <3> QED BY <3>2, <3>3, SetFieldAllLast DEF Exists
  <2>4. CASE \E t \in Topics \cup {NoTopic} : TopicServer(c, t)
    <3>1. PICK t \in Topics \cup {NoTopic} : TopicServer(c, t)
      BY <2>4
    <3>2. Exists(c) /\ SetField(c, [channels[c] EXCEPT !.topic = t])
      BY <3>1 DEF TopicServer
    <3>3. Lasts(channels[c], [channels[c] EXCEPT !.topic = t])
      BY <3>2 DEF Exists, IInv, TypeOK, Channel, Lasts
    <3> QED BY <3>2, <3>3, SetFieldAllLast DEF Exists
  <2> QED BY <2>1, <2>2, <2>3, <2>4
<1> QED BY <1>1, <1>2, <1>3, <1>4, <1>5 DEF Next

\* Once a channel has no operator it has none until it is deleted: neither a
\* JOIN, nor a MODE, nor a server's announcement brings one back.
THEOREM RightsDoNotReappear == Spec => OplessStays
<1> DEFINE A == \A c \in DOMAIN channels :
                   channels[c].operators = {} /\ c \in DOMAIN channels' => channels'[c].operators = {}
<1>1. IInv /\ [Next]_vars => [A]_vars
  BY NextAllLast DEF AllLast, Lasts
<1> QED BY <1>1, Invariant, PTL DEF Spec, OplessStays

\* No step takes the last user and the last operator from a channel that lasts:
\* KICK, MODE -o and whoever leaves keep somebody whom NAMES can list.
THEOREM ChannelsStayOccupied == Spec => StaysOccupied
<1> DEFINE A == \A c \in DOMAIN channels :
                   Occupants(c) # {} /\ c \in DOMAIN channels' => Occupants(c)' # {}
<1>1. IInv /\ [Next]_vars => [A]_vars
  BY NextAllLast DEF AllLast, Lasts, Occupants
<1> QED BY <1>1, Invariant, PTL DEF Spec, StaysOccupied

-----------------------------------------------------------------------------
(* The refinement: every behaviour of Channels, seen through MembersSeen   *)
(* and RightsSeen, is a behaviour of Membership.                           *)

\* How the two views change when one channel is stored, inserted or left.
LEMMA SetFieldSeen ==
    ASSUME NEW c \in Chans, Exists(c), NEW ch, SetField(c, ch)
    PROVE  /\ DOMAIN channels' = DOMAIN channels
           /\ MembersSeen[c] = channels[c].users /\ RightsSeen[c] = channels[c].operators
           /\ MembersSeen' = [MembersSeen EXCEPT ![c] = ch.users]
           /\ RightsSeen' = [RightsSeen EXCEPT ![c] = ch.operators]
           /\ ch.users = channels[c].users => MembersSeen' = MembersSeen
           /\ ch.operators = channels[c].operators => RightsSeen' = RightsSeen
BY SetFieldEffect DEF MembersSeen, RightsSeen, Exists

LEMMA InsertSeen ==
    ASSUME NEW c \in Chans, ~Exists(c), NEW ch, Insert(c, ch)
    PROVE  /\ DOMAIN channels' = DOMAIN channels \cup {c}
           /\ MembersSeen' = [MembersSeen EXCEPT ![c] = ch.users]
           /\ RightsSeen' = [RightsSeen EXCEPT ![c] = ch.operators]
BY InsertEffect DEF MembersSeen, RightsSeen, Exists

\* u leaves S, a set of channels; seen from outside it may as well leave a
\* larger set T of which the others never had it.
LEMMA LeaveSeen ==
    ASSUME IInv, NEW u, NEW T \in SUBSET DOMAIN channels, NEW S \in SUBSET T, Leave(u, S),
           \A c \in T \ S : u \notin channels[c].users \cup channels[c].operators
    PROVE  Promise!Depart(u, T)
<1> DEFINE closed == Emptied(u, S)
<1>1. /\ DOMAIN channels' = DOMAIN channels \ closed
      /\ \A d \in DOMAIN channels' :
            channels'[d] = IF d \in S THEN WithoutUser(u, channels[d]) ELSE channels[d]
  BY LeaveEffect
<1>2. closed \in SUBSET T
  BY DEF Emptied
<1>3. \A c \in closed : MembersSeen[c] \subseteq {u}
  BY <1>2 DEF Emptied, MembersSeen, IInv, TypeOK
<1>4. \A c \in T : MembersSeen[c] = {u} => c \in closed
  BY DEF Emptied, MembersSeen, IInv, TypeOK, Exists
<1>5. \A d \in DOMAIN channels' :
         /\ d \in DOMAIN channels /\ d \notin closed
         /\ d \in T => /\ channels'[d].users = channels[d].users \ {u}
                       /\ channels'[d].operators = channels[d].operators \ {u}
         /\ d \notin T => channels'[d] = channels[d]
  <2> TAKE d \in DOMAIN channels'
  <2>1. d \in DOMAIN channels /\ channels[d] \in Channel
    BY <1>1 DEF IInv, TypeOK
  <2> QED BY <1>1, <2>1, WithoutUserFields
<1>6. MembersSeen' = [c \in Chans |-> IF c \in closed THEN {}
                                      ELSE IF c \in T THEN MembersSeen[c] \ {u} ELSE MembersSeen[c]]
  <2> SUFFICES ASSUME NEW c \in Chans
               PROVE  (IF c \in DOMAIN channels' THEN channels'[c].users ELSE {}) =
                      (IF c \in closed THEN {}
                       ELSE IF c \in T THEN MembersSeen[c] \ {u} ELSE MembersSeen[c])
    BY DEF MembersSeen, Exists
  <2> HIDE DEF closed
  <2> QED BY <1>1, <1>2, <1>5 DEF MembersSeen, Exists
<1>7. RightsSeen' = [c \in Chans |-> IF c \in closed THEN {}
                                     ELSE IF c \in T THEN RightsSeen[c] \ {u} ELSE RightsSeen[c]]
  <2> SUFFICES ASSUME NEW c \in Chans
               PROVE  (IF c \in DOMAIN channels' THEN channels'[c].operators ELSE {}) =
                      (IF c \in closed THEN {}
                       ELSE IF c \in T THEN RightsSeen[c] \ {u} ELSE RightsSeen[c])
    BY DEF RightsSeen, Exists
  <2> HIDE DEF closed
  <2> QED BY <1>1, <1>2, <1>5 DEF RightsSeen, Exists
<1> HIDE DEF closed
<1> QED BY <1>1, <1>2, <1>3, <1>4, <1>6, <1>7 DEF Promise!Depart

-----------------------------------------------------------------------------
(* One lemma per kind of step. *)

UnseenStep == UNCHANGED Promise!vars

\* A step that touches neither users nor channels is not seen.
LEMMA StutterSeen ==
    ASSUME UNCHANGED <<live, channels>>
    PROVE  UnseenStep
BY DEF UnseenStep, Promise!vars, MembersSeen, RightsSeen, Exists

LEMMA UserStepSeen ==
    ASSUME IInv, NEW u \in Users, AddUser(u) \/ AddExternal(u) \/ RemoveUser(u)
    PROVE  Promise!SignOn(u) \/ Promise!SignOff(u) \/ UnseenStep
<1>1. CASE AddUser(u) \/ AddExternal(u)
  BY <1>1 DEF AddUser, AddExternal, Promise!SignOn, MembersSeen, RightsSeen, Exists
<1>2. CASE RemoveUser(u) /\ chan_of[u] \subseteq DOMAIN channels
  <2>1. Leave(u, chan_of[u]) /\ u \in live /\ live' = live \ {u}
    BY <1>2 DEF RemoveUser
  <2>2. \A c \in DOMAIN channels \ chan_of[u] : u \notin channels[c].users \cup channels[c].operators
    BY DEF IInv, MembersRecorded
  <2>3. Promise!Depart(u, DOMAIN channels)
    BY <1>2, <2>1, <2>2, LeaveSeen
  <2> QED BY <2>1, <2>3 DEF Promise!SignOff
<1>3. CASE RemoveUser(u) /\ ~(chan_of[u] \subseteq DOMAIN channels)
  BY <1>3, StutterSeen DEF RemoveUser, Undefined, userVars
<1> QED BY <1>1, <1>2, <1>3

LEMMA JoinSeen ==
    ASSUME IInv, NEW u \in Users, NEW c \in Chans, NEW k \in Keys \cup {NoKey},
           JoinNew(u, c, k) \/ JoinExisting(u, c, k) \/ JoinWithoutKey(u, c)
    PROVE  Promise!Open(c, {u}, {u}) \/ Promise!Enter(u, c) \/ UnseenStep
<1>1. CASE JoinNew(u, c, k)
  <2> DEFINE ch == NewChannel({u}, {u}, {}, k)
  <2>1. ~Exists(c) /\ Insert(c, ch) /\ u \in live /\ live' = live
    BY <1>1 DEF JoinNew, Sends
  <2>2. ch.users = {u} /\ ch.operators = {u}
    BY NewChannelFields
  <2> HIDE DEF ch
  <2> QED BY <2>1, <2>2, InsertSeen DEF Promise!Open, Exists
<1>2. CASE JoinExisting(u, c, k)
  <2> DEFINE ch == [channels[c] EXCEPT !.users = @ \cup {u}]
  <2>1. Exists(c) /\ SetField(c, ch) /\ u \in live /\ live' = live
    BY <1>2 DEF JoinExisting, Sends
  <2>2. ch.users = channels[c].users \cup {u} /\ ch.operators = channels[c].operators
    BY <2>1 DEF IInv, TypeOK, Exists, Channel
  <2> HIDE DEF ch
  <2>3. /\ MembersSeen' = [MembersSeen EXCEPT ![c] = @ \cup {u}]
        /\ RightsSeen' = RightsSeen
    BY <2>1, <2>2, SetFieldSeen
  <2> QED BY <2>1, <2>3, SetFieldSeen DEF Promise!Enter, Exists
<1>3. CASE JoinWithoutKey(u, c)
  BY <1>3, StutterSeen DEF JoinWithoutKey, Undefined, userVars
<1> QED BY <1>1, <1>2, <1>3

LEMMA PartSeen ==
    ASSUME IInv, NEW u \in Users, NEW c \in Chans, PartLocal(u, c) \/ PartRelayed(u, c)
    PROVE  Promise!Part(u, c) \/ UnseenStep
<1>1. CASE Exists(c) /\ Leave(u, {c})
  <2>1. u \in live /\ live' = live
    BY <1>1 DEF PartLocal, PartRelayed, Sends
  <2>2. {c} \in SUBSET DOMAIN channels
    BY <1>1 DEF Exists
  <2>3. Promise!Depart(u, {c})
    BY <1>1, <2>2, LeaveSeen
  <2> QED BY <1>1, <2>1, <2>3 DEF Promise!Part, Exists
<1>2. CASE ~(Exists(c) /\ Leave(u, {c}))
  BY <1>2, StutterSeen DEF PartLocal, PartRelayed, Undefined, userVars
<1> QED BY <1>1, <1>2

LEMMA KickSeen ==
    ASSUME IInv, NEW s \in Users, NEW v \in Users, NEW c \in Chans, KICK(s, v, c)
    PROVE  Promise!KickOut(s, v, c)
<1> DEFINE ch == [channels[c] EXCEPT !.users = @ \ {v}]
<1>1. /\ Exists(c) /\ SetField(c, ch) /\ live' = live
      /\ s \in channels[c].operators /\ v \in channels[c].users
  BY DEF KICK, userVars
<1>2. ch.users = channels[c].users \ {v} /\ ch.operators = channels[c].operators
  BY <1>1 DEF IInv, TypeOK, Exists, Channel
<1> HIDE DEF ch
<1>3. /\ MembersSeen' = [MembersSeen EXCEPT ![c] = @ \ {v}]
      /\ RightsSeen' = RightsSeen
      /\ s \in RightsSeen[c] /\ v \in MembersSeen[c]
  BY <1>1, <1>2, SetFieldSeen
<1> QED BY <1>1, <1>3, SetFieldSeen DEF Promise!KickOut, Exists

LEMMA AppointSeen ==
    ASSUME IInv, NEW u \in Users, NEW v \in Users, NEW c \in Chans, NEW on \in BOOLEAN,
           ModeOperator(u, c, v, on)
    PROVE  Promise!Appoint(u, v, c, on)
<1> DEFINE ch == [channels[c] EXCEPT !.operators = Toggle(@, v, on)]
<1>1. /\ Exists(c) /\ SetField(c, ch) /\ live' = live
      /\ u \in channels[c].operators /\ v \in channels[c].users
  BY DEF ModeOperator, OperatorSends, userVars
<1>2. ch.users = channels[c].users /\ ch.operators = Toggle(channels[c].operators, v, on)
  BY <1>1 DEF IInv, TypeOK, Exists, Channel
<1> HIDE DEF ch
<1>3. /\ MembersSeen' = MembersSeen
      /\ RightsSeen' = [RightsSeen EXCEPT ![c] = IF on THEN @ \cup {v} ELSE @ \ {v}]
      /\ u \in RightsSeen[c] /\ v \in MembersSeen[c]
  BY <1>1, <1>2, SetFieldSeen DEF Toggle
<1> QED BY <1>1, <1>3, SetFieldSeen DEF Promise!Appoint, Exists

\* The steps that change settings, or read, or fail.
LEMMA UnseenEntry ==
    ASSUME IInv, NEW u \in Users, NEW v \in Users, NEW c \in Chans, INVITE(u, v, c) \/ NAMES(u, c)
    PROVE  UnseenStep
<1>1. CASE INVITE(u, v, c) /\ Exists(c)
  <2> DEFINE ch == [channels[c] EXCEPT !.invited = @ \cup {v}]
  <2>1. SetField(c, ch) /\ live' = live
    BY <1>1 DEF INVITE, userVars
  <2>2. ch.users = channels[c].users /\ ch.operators = channels[c].operators
    BY <1>1 DEF IInv, TypeOK, Exists, Channel
  <2> HIDE DEF ch
  <2> QED BY <1>1, <2>1, <2>2, SetFieldSeen DEF UnseenStep, Promise!vars
<1>2. CASE INVITE(u, v, c) /\ ~Exists(c)
  BY <1>2, StutterSeen DEF INVITE, Undefined, userVars
<1>3. CASE NAMES(u, c)
  BY <1>3, StutterSeen DEF NAMES, userVars
<1> QED BY <1>1, <1>2, <1>3

LEMMA UnseenMode ==
    ASSUME IInv, NEW u \in Users, NEW v \in Users, NEW c \in Chans, NEW on \in BOOLEAN,
           \/ \E m \in ModeFlags : ModeFlag(u, c, m, on)
           \/ ModeVoice(u, c, v, on)
           \/ \E t \in Topics \cup {NoTopic} : TOPIC(u, c, t)
           \/ TopicAsked(u, c) \/ CommandRefused(u, v, c)
    PROVE  UnseenStep
<1>1. CASE \E m \in ModeFlags : ModeFlag(u, c, m, on)
  <2>1. PICK m \in ModeFlags : ModeFlag(u, c, m, on)
    BY <1>1
  <2> DEFINE ch == [channels[c] EXCEPT !.modes = Toggle(@, m, on)]
  <2>2. Exists(c) /\ SetField(c, ch) /\ live' = live
    BY <2>1 DEF ModeFlag, OperatorSends, userVars
  <2>3. ch.users = channels[c].users /\ ch.operators = channels[c].operators
    BY <2>2 DEF IInv, TypeOK, Exists, Channel
  <2> HIDE DEF ch
  <2> QED BY <2>2, <2>3, SetFieldSeen DEF UnseenStep, Promise!vars
<1>2. CASE ModeVoice(u, c, v, on)
  <2> DEFINE ch == [channels[c] EXCEPT !.moderators = Toggle(@, v, on)]
  <2>1. Exists(c) /\ SetField(c, ch) /\ live' = live
    BY <1>2 DEF ModeVoice, OperatorSends, userVars
  <2>2. ch.users = channels[c].users /\ ch.operators = channels[c].operators
    BY <2>1 DEF IInv, TypeOK, Exists, Channel
  <2> HIDE DEF ch
  <2> QED BY <2>1, <2>2, SetFieldSeen DEF UnseenStep, Promise!vars
<1>3. CASE \E t \in Topics \cup {NoTopic} : TOPIC(u, c, t)
  <2>1. PICK t \in Topics \cup {NoTopic} : TOPIC(u, c, t)
    BY <1>3
  <2> DEFINE ch == [channels[c] EXCEPT !.topic = t]
  <2>2. Exists(c) /\ SetField(c, ch) /\ live' = live
    BY <2>1 DEF TOPIC, OperatorSends, userVars
  <2>3. ch.users = channels[c].users /\ ch.operators = channels[c].operators
    BY <2>2 DEF IInv, TypeOK, Exists, Channel
  <2> HIDE DEF ch
  <2> QED BY <2>2, <2>3, SetFieldSeen DEF UnseenStep, Promise!vars
<1>4. CASE TopicAsked(u, c) \/ CommandRefused(u, v, c)
  BY <1>4, StutterSeen DEF TopicAsked, CommandRefused, RefusalKills, userVars
<1> QED BY <1>1, <1>2, <1>3, <1>4

LEMMA ServerSeen ==
    ASSUME IInv, NEW c \in Chans,
           \/ \E us, os, vs \in SUBSET Users : NJOIN(c, us, os, vs)
           \/ \E m \in Modes : ModeServer(c, m)
           \/ \E t \in Topics \cup {NoTopic} : TopicServer(c, t)
    PROVE  (\E us, os \in SUBSET Users : Promise!Open(c, us, os)) \/ UnseenStep
<1>1. CASE \E us, os, vs \in SUBSET Users : NJOIN(c, us, os, vs)
  <2>1. PICK us \in SUBSET Users, os \in SUBSET Users, vs \in SUBSET Users : NJOIN(c, us, os, vs)
    BY <1>1
  <2>2. CASE us \subseteq live
    <3> DEFINE ch == NewChannel(us, os, vs, NoKey)
    <3>1. ~Exists(c) /\ Insert(c, ch) /\ os \subseteq us /\ live' = live
      BY <2>1, <2>2 DEF NJOIN
    <3>2. ch.users = us /\ ch.operators = os
      BY NewChannelFields
    <3> HIDE DEF ch
    <3>3. Promise!Open(c, us, os)
      BY <2>2, <3>1, <3>2, InsertSeen DEF Promise!Open, Exists
    <3> QED BY <3>3
  <2>3. CASE ~(us \subseteq live)
    BY <2>1, <2>3, StutterSeen DEF NJOIN, Undefined, userVars
  <2> QED BY <2>2, <2>3
<1>2. CASE \E m \in Modes : ModeServer(c, m)
  <2>1. PICK m \in Modes : ModeServer(c, m)
    BY <1>2
  <2> DEFINE ch == [channels[c] EXCEPT !.modes = @ \cup {m}]
  <2>2. Exists(c) /\ SetField(c, ch) /\ live' = live
    BY <2>1 DEF ModeServer, userVars
  <2>3. ch.users = channels[c].users /\ ch.operators = channels[c].operators
    BY <2>2 DEF IInv, TypeOK, Exists, Channel
  <2> HIDE DEF ch
  <2> QED BY <2>2, <2>3, SetFieldSeen DEF UnseenStep, Promise!vars
<1>3. CASE \E t \in Topics \cup {NoTopic} : TopicServer(c, t)
  <2>1. PICK t \in Topics \cup {NoTopic} : TopicServer(c, t)
    BY <1>3
  <2> DEFINE ch == [channels[c] EXCEPT !.topic = t]
  <2>2. Exists(c) /\ SetField(c, ch) /\ live' = live
    BY <2>1 DEF TopicServer, userVars
  <2>3. ch.users = channels[c].users /\ ch.operators = channels[c].operators
    BY <2>2 DEF IInv, TypeOK, Exists, Channel
  <2> HIDE DEF ch
  <2> QED BY <2>2, <2>3, SetFieldSeen DEF UnseenStep, Promise!vars
<1> QED BY <1>1, <1>2, <1>3

-----------------------------------------------------------------------------
LEMMA NextSeen == IInv /\ [Next]_vars => [Promise!Next]_(Promise!vars)
<1> SUFFICES ASSUME IInv, [Next]_vars PROVE Promise!Next \/ UnseenStep
  BY DEF UnseenStep
<1>1. CASE UserStep
  BY <1>1, UserStepSeen DEF UserStep, Promise!Next
<1>2. CASE EndBatch \/ Stopped \/ UNCHANGED vars
  BY <1>2, StutterSeen DEF EndBatch, Stopped, vars
<1>3. CASE EntryStep
  <2>1. PICK u \in Users, c \in Chans :
           \/ \E k \in Keys \cup {NoKey} : JoinNew(u, c, k) \/ JoinExisting(u, c, k)
           \/ JoinWithoutKey(u, c)
           \/ PartLocal(u, c)
           \/ PartRelayed(u, c)
           \/ \E v \in Users : KICK(u, v, c) \/ INVITE(u, v, c)
           \/ NAMES(u, c)
    BY <1>3 DEF EntryStep
  <2>2. CASE \/ \E k \in Keys \cup {NoKey} : JoinNew(u, c, k) \/ JoinExisting(u, c, k)
             \/ JoinWithoutKey(u, c)
    <3>1. Promise!Open(c, {u}, {u}) \/ Promise!Enter(u, c) \/ UnseenStep
      BY <2>2, JoinSeen
    <3>2. {u} \in SUBSET Users
      OBVIOUS
    <3> QED BY <3>1, <3>2 DEF Promise!Next
  <2>3. CASE PartLocal(u, c) \/ PartRelayed(u, c)
    BY <2>3, PartSeen DEF Promise!Next
  <2>4. CASE (\E v \in Users : KICK(u, v, c) \/ INVITE(u, v, c)) \/ NAMES(u, c)
    BY <2>4, KickSeen, UnseenEntry DEF Promise!Next
  <2> QED BY <2>1, <2>2, <2>3, <2>4
<1>4. CASE ModeStep
  <2>1. PICK u \in Users, c \in Chans :
           \/ \E m \in ModeFlags, on \in BOOLEAN : ModeFlag(u, c, m, on)
           \/ \E v \in Users, on \in BOOLEAN : ModeOperator(u, c, v, on) \/ ModeVoice(u, c, v, on)
           \/ \E t \in Topics \cup {NoTopic} : TOPIC(u, c, t)
           \/ TopicAsked(u, c)
           \/ \E v \in Users : CommandRefused(u, v, c)
    BY <1>4 DEF ModeStep
  <2>2. CASE \E v \in Users, on \in BOOLEAN : ModeOperator(u, c, v, on)
    BY <2>2, AppointSeen DEF Promise!Next
  <2>3. CASE ~(\E v \in Users, on \in BOOLEAN : ModeOperator(u, c, v, on))
    BY <2>1, <2>3, UnseenMode
  <2> QED BY <2>2, <2>3
<1>5. CASE ServerStep
  BY <1>5, ServerSeen DEF ServerStep, Promise!Next
<1> QED BY <1>1, <1>2, <1>3, <1>4, <1>5 DEF Next

LEMMA InitSeen == Init => Promise!Init
BY DEF Init, Promise!Init, MembersSeen, RightsSeen, Exists

\* The channels of the server implement the abstract memberships and rights.
THEOREM Refinement == Spec => KeepsPromise
BY InitSeen, NextSeen, Invariant, PTL DEF Spec, KeepsPromise, Promise!Spec
=============================================================================
