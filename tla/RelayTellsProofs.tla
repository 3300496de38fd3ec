--------------------------- MODULE RelayTellsProofs ---------------------------
(***************************************************************************)
(* Proofs about module Relay: what the messages on a link make of what its *)
(* far end knows of users and members, in which order what is said         *)
(* arrives, and that it arrives.                                           *)
(***************************************************************************)
EXTENDS RelayProofs

(***************************************************************************)
(* A fact about user u, that he is known or a member, is told from one end *)
(* of a link to the other: a message of t.yes makes it true, one of t.no   *)
(* false, one of t.needs is sent only while it is true, one of t.bars only *)
(* while it is false.                                                      *)
(***************************************************************************)

\* Is it true for u when the messages before the n-th have been handled, if
\* now it is for those of A?
Holds(q, t, u, A, n) ==
    \/ \E i \in DOMAIN q : i < n /\ q[i] \in t.yes /\ \A j \in DOMAIN q : i < j /\ j < n => q[j] \notin t.no
    \/ u \in A /\ \A j \in DOMAIN q : j < n => q[j] \notin t.no

\* The messages q make it what it is at the end they come from, where it is
\* true for those of B.
Told(q, t, u, A, B) ==
    /\ Holds(q, t, u, A, Len(q) + 1) <=> u \in B
    /\ \A i \in DOMAIN q :
          /\ q[i] \in t.needs => Holds(q, t, u, A, i)
          /\ q[i] \in t.bars => ~Holds(q, t, u, A, i)

LEMMA HoldsAppend ==
    ASSUME NEW q \in Seq(Msg), NEW m \in Msg, NEW t, NEW u, NEW A
    PROVE  /\ \A n \in 1..(Len(q) + 1) : Holds(Append(q, m), t, u, A, n) <=> Holds(q, t, u, A, n)
           /\ Holds(Append(q, m), t, u, A, Len(q) + 2) <=>
                 m \in t.yes \/ (m \notin t.no /\ Holds(q, t, u, A, Len(q) + 1))
<1> DEFINE r == Append(q, m)
           l == Len(q)
<1>1. /\ l \in Nat /\ DOMAIN q = 1..l /\ DOMAIN r = 1..(l + 1)
      /\ \A i \in 1..l : r[i] = q[i]
      /\ r[l + 1] = m
  BY AppendIs
<1> HIDE DEF r, l
<1>2. ASSUME NEW n \in 1..(l + 1)
      PROVE  Holds(r, t, u, A, n) <=> Holds(q, t, u, A, n)
  <2>1. \A j : j \in 1..(l + 1) /\ j < n <=> j \in 1..l /\ j < n
    BY <1>1
  <2> QED BY <1>1, <2>1 DEF Holds
<1>3. Holds(r, t, u, A, l + 2) <=> m \in t.yes \/ (m \notin t.no /\ Holds(q, t, u, A, l + 1))
  <2>1. \A j \in 1..(l + 1) : j < l + 2 /\ (j = l + 1 \/ j \in 1..l)
    BY <1>1
  <2>2. \A j \in 1..l : j \in 1..(l + 1) /\ j < l + 1 /\ j < l + 2
    BY <1>1
  <2>3. l + 1 \in 1..(l + 1) /\ \A j \in 1..(l + 1) : ~(l + 1 < j)
    BY <1>1
  <2>4. ASSUME Holds(r, t, u, A, l + 2), m \notin t.yes
        PROVE  m \notin t.no /\ Holds(q, t, u, A, l + 1)
    <3>1. CASE \E i \in DOMAIN r : r[i] \in t.yes /\ \A j \in DOMAIN r : i < j /\ j < l + 2 => r[j] \notin t.no
      <4>1. PICK i \in 1..l : q[i] \in t.yes /\ \A j \in 1..(l + 1) : i < j => r[j] \notin t.no
        BY <1>1, <2>1, <2>4, <3>1
      <4>2. m \notin t.no
        BY <1>1, <2>2, <2>3, <4>1
      <4>3. \A j \in 1..l : i < j => q[j] \notin t.no
        BY <1>1, <2>2, <4>1
      <4> QED BY <1>1, <2>2, <4>1, <4>2, <4>3 DEF Holds
    <3>2. CASE u \in A /\ \A j \in DOMAIN r : j < l + 2 => r[j] \notin t.no
      BY <1>1, <2>1, <2>2, <2>3, <3>2 DEF Holds
    <3> QED BY <2>4, <3>1, <3>2 DEF Holds
  <2>5. ASSUME m \in t.yes PROVE Holds(r, t, u, A, l + 2)
    BY <1>1, <2>1, <2>3, <2>5 DEF Holds
  <2>6. ASSUME m \notin t.no, Holds(q, t, u, A, l + 1) PROVE Holds(r, t, u, A, l + 2)
    <3>1. CASE u \in A /\ \A j \in DOMAIN q : j < l + 1 => q[j] \notin t.no
      BY <1>1, <2>1, <2>2, <2>6, <3>1 DEF Holds
    <3>2. CASE \E i \in DOMAIN q : q[i] \in t.yes /\ \A j \in DOMAIN q : i < j /\ j < l + 1 => q[j] \notin t.no
      <4>1. PICK i \in 1..l : q[i] \in t.yes /\ \A j \in 1..l : i < j => q[j] \notin t.no
        BY <1>1, <2>2, <3>2
      <4> QED BY <1>1, <2>1, <2>2, <2>6, <4>1 DEF Holds
    <3> QED BY <2>6, <3>1, <3>2 DEF Holds
  <2> QED BY <2>4, <2>5, <2>6
<1> QED BY <1>2, <1>3 DEF r, l

LEMMA HoldsTail ==
    ASSUME NEW q \in Seq(Msg), q # <<>>, NEW t, NEW u, NEW A, NEW B,
           u \in B <=> Head(q) \in t.yes \/ (Head(q) \notin t.no /\ u \in A)
    PROVE  /\ \A n \in 1..Len(q) : Holds(Tail(q), t, u, B, n) <=> Holds(q, t, u, A, n + 1)
           /\ Holds(q, t, u, A, 1) <=> u \in A
<1> DEFINE r == Tail(q)
           l == Len(q)
<1>1. /\ l \in Nat \ {0} /\ DOMAIN q = 1..l /\ DOMAIN r = 1..(l - 1)
      /\ \A i \in 1..(l - 1) : r[i] = q[i + 1]
      /\ Head(q) = q[1]
  BY TailIs
<1> HIDE DEF r, l
<1>2. Holds(q, t, u, A, 1) <=> u \in A
  BY <1>1 DEF Holds
<1>3. ASSUME NEW n \in 1..l
      PROVE  Holds(r, t, u, B, n) <=> Holds(q, t, u, A, n + 1)
  <2>1. 1 \in 1..l /\ 1 < n + 1 /\ \A j \in 1..l : j = 1 \/ (j - 1 \in 1..(l - 1) /\ 1 < j)
    BY <1>1
  <2>2. \A j \in 1..(l - 1) : j + 1 \in 1..l /\ (j + 1) - 1 = j /\ 1 < j + 1 /\ (j < n <=> j + 1 < n + 1)
    BY <1>1
  <2>3. \A j \in 1..(l - 1), i \in 1..(l - 1) : i < j <=> i + 1 < j + 1
    BY <1>1
  <2>4. ASSUME Holds(r, t, u, B, n) PROVE Holds(q, t, u, A, n + 1)
    <3>1. CASE \E i \in 1..(l - 1) : i < n /\ r[i] \in t.yes
                 /\ \A j \in 1..(l - 1) : i < j /\ j < n => r[j] \notin t.no
      <4>1. PICK i \in 1..(l - 1) : i < n /\ r[i] \in t.yes
                 /\ \A j \in 1..(l - 1) : i < j /\ j < n => r[j] \notin t.no
        BY <3>1
      <4>2. i + 1 \in 1..l /\ i + 1 < n + 1 /\ q[i + 1] \in t.yes
        BY <1>1, <2>2, <4>1
      <4>3. ASSUME NEW j \in 1..l, i + 1 < j, j < n + 1 PROVE q[j] \notin t.no
        <5>1. j - 1 \in 1..(l - 1) /\ i < j - 1 /\ j - 1 < n /\ (j - 1) + 1 = j
          BY <1>1, <4>1, <4>3
        <5> QED BY <1>1, <4>1, <5>1
      <4> QED BY <1>1, <4>2, <4>3 DEF Holds
    <3>2. CASE u \in B /\ \A j \in 1..(l - 1) : j < n => r[j] \notin t.no
      <4>1. ASSUME NEW j \in 1..l, 1 < j, j < n + 1 PROVE q[j] \notin t.no
        <5>1. j - 1 \in 1..(l - 1) /\ j - 1 < n /\ (j - 1) + 1 = j
          BY <1>1, <4>1
        <5> QED BY <1>1, <3>2, <5>1
      <4> QED BY <1>1, <2>1, <3>2, <4>1 DEF Holds
    <3> QED BY <1>1, <2>4, <3>1, <3>2 DEF Holds
  <2>5. ASSUME Holds(q, t, u, A, n + 1) PROVE Holds(r, t, u, B, n)
    <3>1. CASE \E i \in 1..l : i < n + 1 /\ q[i] \in t.yes
                 /\ \A j \in 1..l : i < j /\ j < n + 1 => q[j] \notin t.no
      <4>1. PICK i \in 1..l : i < n + 1 /\ q[i] \in t.yes
                 /\ \A j \in 1..l : i < j /\ j < n + 1 => q[j] \notin t.no
        BY <3>1
      <4>2. ASSUME NEW j \in 1..(l - 1), i < j + 1, j < n PROVE r[j] \notin t.no
        BY <1>1, <2>2, <4>1, <4>2
      <4>3. CASE i = 1
        <5>1. u \in B
          BY <1>1, <4>1, <4>3
        <5>2. \A j \in 1..(l - 1) : j < n => r[j] \notin t.no
          BY <2>2, <4>2, <4>3
        <5> QED BY <1>1, <5>1, <5>2 DEF Holds
      <4>4. CASE i # 1
        <5>1. i - 1 \in 1..(l - 1) /\ (i - 1) + 1 = i /\ i - 1 < n
          BY <1>1, <4>1, <4>4
        <5>2. r[i - 1] \in t.yes
          BY <1>1, <4>1, <5>1
        <5>3. \A j \in 1..(l - 1) : i - 1 < j /\ j < n => r[j] \notin t.no
          <6> TAKE j \in 1..(l - 1)
          <6> HAVE i - 1 < j /\ j < n
          <6>1. i < j + 1
            BY <1>1, <5>1
          <6> QED BY <4>2, <6>1
        <5> QED BY <1>1, <5>1, <5>2, <5>3 DEF Holds
      <4> QED BY <4>3, <4>4
    <3>2. CASE u \in A /\ \A j \in 1..l : j < n + 1 => q[j] \notin t.no
      <4>1. u \in B
        BY <1>1, <2>1, <3>2
      <4>2. \A j \in 1..(l - 1) : j < n => r[j] \notin t.no
        BY <1>1, <2>2, <3>2
      <4> QED BY <1>1, <4>1, <4>2 DEF Holds
    <3> QED BY <1>1, <2>5, <3>1, <3>2 DEF Holds
  <2> QED BY <2>4, <2>5
<1> QED BY <1>2, <1>3 DEF r, l

\* m is sent.
LEMMA ToldAppend ==
    ASSUME NEW q \in Seq(Msg), NEW m \in Msg, NEW t, NEW u, NEW A, NEW B, NEW C, Told(q, t, u, A, B),
           m \in t.needs => u \in B, m \in t.bars => u \notin B,
           u \in C <=> m \in t.yes \/ (m \notin t.no /\ u \in B)
    PROVE  Told(Append(q, m), t, u, A, C)
<1> DEFINE r == Append(q, m)
           l == Len(q)
<1>1. /\ l \in Nat /\ DOMAIN q = 1..l /\ DOMAIN r = 1..(l + 1) /\ Len(r) = l + 1
      /\ \A i \in 1..l : r[i] = q[i]
      /\ r[l + 1] = m
  BY AppendIs
<1>2. /\ \A n \in 1..(l + 1) : Holds(r, t, u, A, n) <=> Holds(q, t, u, A, n)
      /\ Holds(r, t, u, A, l + 2) <=> m \in t.yes \/ (m \notin t.no /\ Holds(q, t, u, A, l + 1))
  BY HoldsAppend
<1>3. Holds(q, t, u, A, l + 1) <=> u \in B
  BY DEF Told
<1>4. \A i \in 1..l : /\ q[i] \in t.needs => Holds(q, t, u, A, i)
                      /\ q[i] \in t.bars => ~Holds(q, t, u, A, i)
  BY <1>1 DEF Told
<1> HIDE DEF r, l
<1>5. (l + 1) + 1 = l + 2 /\ l + 1 \in 1..(l + 1)
  BY <1>1
<1>6. Holds(r, t, u, A, Len(r) + 1) <=> u \in C
  BY <1>1, <1>2, <1>3, <1>5
<1>7. ASSUME NEW i \in 1..(l + 1)
      PROVE  /\ r[i] \in t.needs => Holds(r, t, u, A, i)
             /\ r[i] \in t.bars => ~Holds(r, t, u, A, i)
  <2>1. CASE i = l + 1
    BY <1>1, <1>2, <1>3, <2>1
  <2>2. CASE i \in 1..l
    BY <1>1, <1>2, <1>4, <2>2
  <2> QED BY <1>1, <2>1, <2>2
<1> QED BY <1>1, <1>6, <1>7 DEF Told, r

\* The first message is handled.
LEMMA ToldTail ==
    ASSUME NEW q \in Seq(Msg), q # <<>>, NEW t, NEW u, NEW A, NEW B, NEW C, Told(q, t, u, A, B),
           u \in C <=> Head(q) \in t.yes \/ (Head(q) \notin t.no /\ u \in A)
    PROVE  Told(Tail(q), t, u, C, B)
<1> DEFINE r == Tail(q)
           l == Len(q)
<1>1. /\ l \in Nat \ {0} /\ DOMAIN q = 1..l /\ DOMAIN r = 1..(l - 1) /\ Len(r) = l - 1
      /\ \A i \in 1..(l - 1) : r[i] = q[i + 1]
  BY TailIs
<1>2. \A n \in 1..l : Holds(r, t, u, C, n) <=> Holds(q, t, u, A, n + 1)
  BY HoldsTail
<1>3. Holds(q, t, u, A, l + 1) <=> u \in B
  BY DEF Told
<1>4. \A i \in 1..l : /\ q[i] \in t.needs => Holds(q, t, u, A, i)
                      /\ q[i] \in t.bars => ~Holds(q, t, u, A, i)
  BY <1>1 DEF Told
<1> HIDE DEF r, l
<1>5. Holds(r, t, u, C, Len(r) + 1) <=> u \in B
  <2>1. (l - 1) + 1 = l /\ l \in 1..l
    BY <1>1
  <2> QED BY <1>1, <1>2, <1>3, <2>1
<1>6. ASSUME NEW i \in 1..(l - 1)
      PROVE  /\ r[i] \in t.needs => Holds(r, t, u, C, i)
             /\ r[i] \in t.bars => ~Holds(r, t, u, C, i)
  <2>1. i \in 1..l /\ i + 1 \in 1..l
    BY <1>1
  <2> QED BY <1>1, <1>2, <1>4, <2>1
<1> QED BY <1>1, <1>5, <1>6 DEF Told, r

\* What the first message shows.
LEMMA ToldHead ==
    ASSUME NEW q \in Seq(Msg), q # <<>>, NEW t, NEW u, NEW A, NEW B, Told(q, t, u, A, B)
    PROVE  /\ Head(q) \in t.needs => u \in A
           /\ Head(q) \in t.bars => u \notin A
<1>1. 1 \in DOMAIN q /\ Head(q) = q[1]
  BY TailIs
<1>2. Holds(q, t, u, A, 1) <=> u \in A
  <2>1. PICK C : u \in C <=> Head(q) \in t.yes \/ (Head(q) \notin t.no /\ u \in A)
    <3>1. CASE Head(q) \in t.yes \/ (Head(q) \notin t.no /\ u \in A)
      <4>1. u \in {u}
        OBVIOUS
      <4> QED BY <3>1, <4>1
    <3>2. CASE ~(Head(q) \in t.yes \/ (Head(q) \notin t.no /\ u \in A))
      <4>1. u \notin {}
        OBVIOUS
      <4> QED BY <3>2, <4>1
    <3> QED BY <3>1, <3>2
  <2> QED BY <2>1, HoldsTail
<1> QED BY <1>1, <1>2 DEF Told

-----------------------------------------------------------------------------
(* The facts that are told: who is known, and who is a member. *)

\* That u is known.  His messages, and those that name him, need it.
Life(u) ==
    [yes |-> {NICKof(u)}, no |-> {QUITof(u)}, bars |-> {NICKof(u)},
     needs |-> {m \in Msg : \/ m.type \notin Unsigned /\ m.who = u
                            \/ m.type = "NJOIN" /\ u \in m.users}]

\* That u is a member of c.  A PART finds him, an NJOIN does not.
Stay(u, c) ==
    [yes |-> {m \in Msg : m = JOINof(u, c) \/ (m.type = "NJOIN" /\ m.chan = c /\ u \in m.users)},
     no |-> {m \in Msg : \/ m \in {NICKof(u), QUITof(u), PARTof(u, c)}
                         \/ m.type = "NJOIN" /\ m.chan = c /\ u \notin m.users},
     needs |-> {PARTof(u, c)},
     bars |-> {m \in Msg : m.type = "NJOIN" /\ m.chan = c}]

Members(x, c) == {u \in Users : Member(x, u, c)}

Knowledge ==
    status = "running" =>
        \A x \in Servers : \A y \in peers[x] : \A u \in Users :
            Route[x][Home[u]] = y => Told(queue[y][x], Life(u), u, Known(x), Known(y))

Telling ==
    status = "running" =>
        \A x \in Servers : \A y \in peers[x] : \A u \in Users, c \in Chans :
            Route[x][Home[u]] = y /\ <<u, c>> \notin apart =>
                Told(queue[y][x], Stay(u, c), u, Members(x, c), Members(y, c))

\* User::channels_ and the users of the channels agree, but for those apart.
Recorded ==
    \A x \in Servers, u \in Users, c \in Chans :
        /\ Member(x, u, c) => c \in chan_of[x][u]
        /\ c \in chan_of[x][u] => usr[x][u] # None
        /\ status = "running" /\ <<u, c>> \notin apart /\ c \in chan_of[x][u] => Member(x, u, c)

TellInv == Knowledge /\ Telling /\ Recorded /\ ChannelsAreFound

LEMMA LifeOf ==
    ASSUME NEW u \in Users, NEW m \in Msg
    PROVE  /\ m \in Life(u).yes <=> m.type = "NICK" /\ m.who = u
           /\ m \in Life(u).no <=> m.type = "QUIT" /\ m.who = u
           /\ m \in Life(u).bars <=> m.type = "NICK" /\ m.who = u
           /\ m \in Life(u).needs <=>
                 (m.type \notin Unsigned /\ m.who = u) \/ (m.type = "NJOIN" /\ u \in m.users)
<1>1. m = NICKof(u) <=> m.type = "NICK" /\ m.who = u
  BY Fields, UserMessages
<1>2. m = QUITof(u) <=> m.type = "QUIT" /\ m.who = u
  BY Fields, UserMessages
<1> QED BY <1>1, <1>2 DEF Life

LEMMA StayOf ==
    ASSUME NEW u \in Users, NEW c \in Chans, NEW m \in Msg
    PROVE  /\ m \in Stay(u, c).yes <=> \/ m.type = "JOIN" /\ m.who = u /\ m.chan = c
                                       \/ m.type = "NJOIN" /\ m.chan = c /\ u \in m.users
           /\ m \in Stay(u, c).no <=> \/ m.type \in {"NICK", "QUIT"} /\ m.who = u
                                      \/ m.type = "PART" /\ m.who = u /\ m.chan = c
                                      \/ m.type = "NJOIN" /\ m.chan = c /\ u \notin m.users
           /\ m \in Stay(u, c).needs <=> m.type = "PART" /\ m.who = u /\ m.chan = c
           /\ m \in Stay(u, c).bars <=> m.type = "NJOIN" /\ m.chan = c
<1>1. m = NICKof(u) <=> m.type = "NICK" /\ m.who = u
  BY Fields, UserMessages
<1>2. m = QUITof(u) <=> m.type = "QUIT" /\ m.who = u
  BY Fields, UserMessages
<1>3. m = JOINof(u, c) <=> m.type = "JOIN" /\ m.who = u /\ m.chan = c
  BY Fields, MemberMessages
<1>4. m = PARTof(u, c) <=> m.type = "PART" /\ m.who = u /\ m.chan = c
  BY Fields, MemberMessages
<1> QED BY <1>1, <1>2, <1>3, <1>4 DEF Stay

\* The messages from y to x have it of u, for whom one end changes: A becomes C,
\* or B becomes D.
Telltale(x, y, t, u, A, B, C, D) ==
    /\ Told(queue[y][x], t, u, A, B)
    /\ (u \in C <=> u \in A) \/ (u \in D <=> u \in B)

\* One link after a transfer.
LEMMA ToldStep ==
    ASSUME IInv, NEW a, NEW b, NEW take, NEW S, NEW m, Transfer(a, b, take, S, m),
           NEW x \in Servers, NEW y \in peers[x], NEW t, NEW u, NEW A, NEW B, NEW C, NEW D,
           Telltale(x, y, t, u, A, B, C, D),
           x = a /\ y = b /\ take =>
              (u \in C <=> Head(queue[y][x]) \in t.yes \/ (Head(queue[y][x]) \notin t.no /\ u \in A)),
           ~(x = a /\ y = b /\ take) => (u \in C <=> u \in A),
           y = a /\ x \in S =>
              /\ u \in D <=> m \in t.yes \/ (m \notin t.no /\ u \in B)
              /\ m \in t.needs => u \in B
              /\ m \in t.bars => u \notin B,
           ~(y = a /\ x \in S) => (u \in D <=> u \in B)
    PROVE  Told(queue'[y][x], t, u, C, D)
<1>1. y \in Servers /\ queue[y][x] \in Seq(Msg) /\ m \in Msg
  BY DEF IInv, TypeInv, Queues, Transfer
<1>2. queue'[y][x] = IF y = a /\ x \in S THEN Append(queue[y][x], m)
                     ELSE IF take /\ y = b /\ x = a THEN Tail(queue[y][x])
                     ELSE queue[y][x]
  BY <1>1, TransferEffect DEF IInv
<1>3. x # y /\ Told(queue[y][x], t, u, A, B)
  BY DEF IInv, Peered, Telltale
<1>4. CASE y = a /\ x \in S
  <2>1. u \in C <=> u \in A
    BY <1>3, <1>4
  <2>2. Told(queue[y][x], t, u, C, B)
    BY <1>3, <2>1 DEF Told, Holds
  <2>3. Told(Append(queue[y][x], m), t, u, C, D)
    BY <1>1, <1>4, <2>2, ToldAppend
  <2> QED BY <1>2, <1>4, <2>3
<1>5. CASE ~(y = a /\ x \in S) /\ take /\ y = b /\ x = a
  <2>1. Told(queue[y][x], t, u, A, D)
    BY <1>3, <1>5 DEF Told
  <2>2. queue[y][x] # <<>>
    BY <1>5 DEF Transfer
  <2>3. Told(Tail(queue[y][x]), t, u, C, D)
    BY <1>1, <1>5, <2>1, <2>2, ToldTail
  <2> QED BY <1>2, <1>5, <2>3
<1>6. CASE ~(y = a /\ x \in S) /\ ~(take /\ y = b /\ x = a)
  <2>1. (u \in C <=> u \in A) /\ (u \in D <=> u \in B)
    BY <1>6
  <2>2. Told(queue[y][x], t, u, C, D)
    BY <1>3, <2>1 DEF Told, Holds
  <2> QED BY <1>2, <1>6, <2>2
<1> QED BY <1>4, <1>5, <1>6

\* Messages that neither tell.
Loud == {"NICK", "QUIT", "JOIN", "PART", "NJOIN"}

LEMMA QuietKeeps ==
    ASSUME IInv, TellInv, NEW a, NEW b, NEW take, NEW S, NEW m, Transfer(a, b, take, S, m),
           status = "running", usr' = usr, apart \subseteq apart',
           \A z \in Servers, u \in Users, c \in Chans :
              <<u, c>> \notin apart' => (Member(z, u, c)' <=> Member(z, u, c)),
           take => Head(queue[b][a]).type \notin Loud,
           S # {} => m.type \notin Loud /\ (m.type \notin Unsigned => usr[a][m.who] # None)
    PROVE  Knowledge' /\ Telling'
<1>1. peers' = peers /\ m \in Msg /\ a \in Servers /\ b \in Servers
  BY DEF Transfer
<1>2. take => Head(queue[b][a]) \in Msg
  BY <1>1, FirstMessage DEF Transfer
<1>3. \A z : Known(z)' = Known(z)
  BY DEF Known
<1>4. ASSUME NEW x \in Servers, NEW y \in peers[x], NEW u \in Users, Route[x][Home[u]] = y
      PROVE  Told(queue'[y][x], Life(u), u, Known(x), Known(y))
  <2>1. PICK A, B, t : A = Known(x) /\ B = Known(y) /\ t = Life(u)
    OBVIOUS
  <2>2. Told(queue[y][x], t, u, A, B)
    BY <1>4, <2>1 DEF TellInv, Knowledge
  <2>3. x = a /\ y = b /\ take =>
           (u \in A <=> Head(queue[y][x]) \in t.yes \/ (Head(queue[y][x]) \notin t.no /\ u \in A))
    BY <1>2, <2>1, LifeOf DEF Loud
  <2>4. y = a /\ x \in S =>
           /\ u \in B <=> m \in t.yes \/ (m \notin t.no /\ u \in B)
           /\ m \in t.needs => u \in B
           /\ m \in t.bars => u \notin B
    <3> HAVE y = a /\ x \in S
    <3>1. m.type \notin Loud /\ (m.type \notin Unsigned => usr[y][m.who] # None)
      OBVIOUS
    <3>2. m \notin t.yes /\ m \notin t.no /\ m \notin t.bars
      BY <1>1, <2>1, <3>1, LifeOf DEF Loud
    <3>3. m \in t.needs => u \in B
      BY <1>1, <2>1, <3>1, LifeOf DEF Loud, Known
    <3> QED BY <3>2, <3>3
  <2>5. Telltale(x, y, t, u, A, B, A, B)
    BY <2>2 DEF Telltale
  <2>6. Told(queue'[y][x], t, u, A, B)
    BY <2>3, <2>4, <2>5, ToldStep
  <2> QED BY <2>1, <2>6
<1>5. ASSUME NEW x \in Servers, NEW y \in peers[x], NEW u \in Users, NEW c \in Chans,
             Route[x][Home[u]] = y, <<u, c>> \notin apart'
      PROVE  Told(queue'[y][x], Stay(u, c), u, Members(x, c)', Members(y, c)')
  <2>1. PICK A, B, C, D, t : /\ A = Members(x, c) /\ B = Members(y, c) /\ t = Stay(u, c)
                             /\ C = Members(x, c)' /\ D = Members(y, c)'
    OBVIOUS
  <2>2. Told(queue[y][x], t, u, A, B)
    BY <1>5, <2>1 DEF TellInv, Telling
  <2>3. y \in Servers
    BY DEF IInv, TypeInv
  <2>4. (u \in C <=> u \in A) /\ (u \in D <=> u \in B)
    BY <1>5, <2>1, <2>3 DEF Members
  <2>5. x = a /\ y = b /\ take => Head(queue[y][x]) \notin t.yes /\ Head(queue[y][x]) \notin t.no
    BY <1>2, <2>1, StayOf DEF Loud
  <2>6. y = a /\ x \in S => m \notin t.yes /\ m \notin t.no /\ m \notin t.bars /\ m \notin t.needs
    <3> HAVE y = a /\ x \in S
    <3>1. m.type \notin Loud
      OBVIOUS
    <3> QED BY <1>1, <2>1, <3>1, StayOf DEF Loud
  <2>7. Told(queue'[y][x], t, u, C, D)
    <3>1. x = a /\ y = b /\ take =>
             (u \in C <=> Head(queue[y][x]) \in t.yes \/ (Head(queue[y][x]) \notin t.no /\ u \in A))
      BY <2>4, <2>5
    <3>2. y = a /\ x \in S =>
             /\ u \in D <=> m \in t.yes \/ (m \notin t.no /\ u \in B)
             /\ m \in t.needs => u \in B
             /\ m \in t.bars => u \notin B
      BY <2>4, <2>6
    <3>3. Telltale(x, y, t, u, A, B, C, D)
      BY <2>2, <2>4 DEF Telltale
    <3> QED BY <2>4, <3>1, <3>2, <3>3, ToldStep
  <2> QED BY <2>1, <2>7
<1> QED BY <1>1, <1>3, <1>4, <1>5 DEF Knowledge, Telling

LEMMA EndedTells ==
    ASSUME TellInv, UNCHANGED views, status' # "running", ChannelsAreFound'
    PROVE  TellInv'
<1>1. Knowledge' /\ Telling'
  BY DEF Knowledge, Telling
<1>2. Recorded'
  BY DEF TellInv, Recorded, Member, Exists, views
<1> QED BY <1>1, <1>2 DEF TellInv

LEMMA QuietTells ==
    ASSUME IInv, TellInv, NEW a, NEW b, NEW take, NEW S, NEW m, Transfer(a, b, take, S, m),
           status = "running", status' = status, usr' = usr, chan_of' = chan_of, apart \subseteq apart',
           \A z \in Servers, u \in Users, c \in Chans :
              /\ Member(z, u, c)' => Member(z, u, c)
              /\ <<u, c>> \notin apart' => (Member(z, u, c)' <=> Member(z, u, c)),
           take => Head(queue[b][a]).type \notin Loud,
           S # {} => m.type \notin Loud /\ (m.type \notin Unsigned => usr[a][m.who] # None)
    PROVE  TellInv'
<1>1. Knowledge' /\ Telling'
  BY QuietKeeps
<1>2. Recorded'
  BY DEF TellInv, Recorded
<1>3. ChannelsAreFound'
  BY DEF ChannelsAreFound
<1> QED BY <1>1, <1>2, <1>3 DEF TellInv

\* Nobody's membership changes.
LEMMA CalmTells ==
    ASSUME IInv, TellInv, NEW a, NEW b, NEW take, NEW S, NEW m, Transfer(a, b, take, S, m),
           status = "running", status' = status, usr' = usr, chan_of' = chan_of, apart' = apart,
           MembersStay,
           take => Head(queue[b][a]).type \notin Loud,
           S # {} => m.type \notin Loud /\ (m.type \notin Unsigned => usr[a][m.who] # None)
    PROVE  TellInv'
<1>1. \A z \in Servers, u \in Users, c \in Chans :
         /\ Member(z, u, c)' => Member(z, u, c)
         /\ <<u, c>> \notin apart' => (Member(z, u, c)' <=> Member(z, u, c))
  BY DEF MembersStay
<1> QED BY <1>1, QuietTells

LEMMA QuietTypes ==
    {"KICK", "FLAG", "RIGHT", "QUERY", "TOPIC", "SAY", "TELL", "ASK", "ANSWER", "STOPIC", "SMODE"}
        \cap Loud = {}
BY DEF Loud

-----------------------------------------------------------------------------
(* Commands and handlers that tell neither. *)

LEMMA ModeTells ==
    ASSUME IInv, TellInv, NEW u \in Users, NEW c \in Chans, NEW f \in Modes, NEW on \in BOOLEAN,
           MODE(u, c, f, on)
    PROVE  TellInv'
<1>1. PICK a, S : a = Home[u] /\ S = peers[a]
  OBVIOUS
<1>2. PICK m : m.type \in {"FLAG", "QUERY"} /\ Transfer(a, a, FALSE, S, m) /\ m.who = u
  BY <1>1, ModeKeeps
<1>3. usr[a][m.who] # None /\ status = "running" /\ status' = status /\ apart' = apart
  BY <1>1, <1>2, GivesIs, ServerOf DEF MODE, history
<1>4. MembersStay /\ usr' = usr /\ chan_of' = chan_of
  BY ModeKeeps
<1>5. m.type \notin Loud
  BY <1>2 DEF Loud
<1> QED BY <1>2, <1>3, <1>4, <1>5, CalmTells

LEMMA ModeRightTells ==
    ASSUME IInv, TellInv, NEW u \in Users, NEW c \in Chans, NEW r \in Rights, NEW on \in BOOLEAN,
           NEW v \in Users, ModeRight(u, c, r, on, v)
    PROVE  TellInv'
<1>1. PICK a, S : a = Home[u] /\ S = peers[a]
  OBVIOUS
<1>2. PICK m : m.type = "RIGHT" /\ Transfer(a, a, FALSE, S, m) /\ m.who = u
  BY <1>1, ModeRightKeeps
<1>3. usr[a][m.who] # None /\ status = "running" /\ status' = status /\ apart' = apart
  BY <1>1, <1>2, GivesIs, ServerOf DEF ModeRight, history
<1>4. MembersStay /\ usr' = usr /\ chan_of' = chan_of
  BY ModeRightKeeps
<1>5. m.type \notin Loud
  BY <1>2 DEF Loud
<1> QED BY <1>2, <1>3, <1>4, <1>5, CalmTells

LEMMA TopicTells ==
    ASSUME IInv, TellInv, NEW u \in Users, NEW c \in Chans, NEW t \in Topics \cup {None}, TOPIC(u, c, t)
    PROVE  TellInv'
<1>1. PICK a, S : a = Home[u] /\ S = peers[a]
  OBVIOUS
<1>2. PICK m : m.type = "TOPIC" /\ Transfer(a, a, FALSE, S, m)
  BY <1>1, TopicKeeps
<1>3. status = "running" /\ status' = status /\ apart' = apart
  BY GivesIs DEF TOPIC, history
<1>4. MembersStay /\ usr' = usr /\ chan_of' = chan_of
  BY TopicKeeps
<1>5. m.type \notin Loud /\ m.type \in Unsigned
  BY <1>2 DEF Loud, Unsigned
<1> QED BY <1>2, <1>3, <1>4, <1>5, CalmTells

LEMMA SaysTells ==
    ASSUME IInv, TellInv, NEW u \in Users, Gives(u), NEW S, NEW m, Transfer(Home[u], Home[u], FALSE, S, m),
           m.type \in {"SAY", "TELL", "ASK"}, m.who = u, UNCHANGED <<views, status, apart>>
    PROVE  TellInv'
<1>1. PICK a : a = Home[u]
  OBVIOUS
<1>2. usr[a][m.who] # None /\ status = "running"
  BY <1>1, GivesIs, ServerOf
<1>3. MembersStay /\ usr' = usr /\ chan_of' = chan_of
  BY SameViews DEF IInv, TypeInv
<1>4. m.type \notin Loud
  BY DEF Loud
<1>5. Transfer(a, a, FALSE, S, m)
  BY <1>1
<1> QED BY <1>2, <1>3, <1>4, <1>5, CalmTells

LEMMA PrivmsgTells ==
    ASSUME IInv, TellInv, NEW u \in Users, NEW c \in Chans, PRIVMSG(u, c)
    PROVE  TellInv'
<1>1. PICK n, m, S : n = Len(said) + 1 /\ m = SAYof(u, c, n) /\ S = peers[Home[u]]
  OBVIOUS
<1>2. Transfer(Home[u], Home[u], FALSE, S, m)
  BY <1>1, PrivmsgKeeps
<1>3. m.type = "SAY" /\ m.who = u
  BY <1>1 DEF SAYof
<1> QED BY <1>2, <1>3, SaysTells DEF PRIVMSG

LEMMA PrivmsgUserTells ==
    ASSUME IInv, TellInv, NEW u \in Users, NEW v \in Users, PrivmsgUser(u, v)
    PROVE  TellInv'
<1>1. PICK n, m, S : n = Len(said) + 1 /\ m = TELLof(u, v, n) /\ S = Towards(Home[u], v)
  OBVIOUS
<1>2. Transfer(Home[u], Home[u], FALSE, S, m)
  BY <1>1, PrivmsgUserKeeps
<1>3. m.type = "TELL" /\ m.who = u
  BY <1>1 DEF TELLof
<1> QED BY <1>2, <1>3, SaysTells DEF PrivmsgUser

LEMMA VersionTells ==
    ASSUME IInv, TellInv, NEW u \in Users, NEW z \in Servers, VERSION(u, z)
    PROVE  TellInv'
<1>1. PICK n, m, S : n = Len(said) + 1 /\ m = ASKof(u, z, n) /\ S = {Route[Home[u]][z]}
  OBVIOUS
<1>2. Transfer(Home[u], Home[u], FALSE, S, m)
  BY <1>1, VersionKeeps
<1>3. m.type = "ASK" /\ m.who = u
  BY <1>1 DEF ASKof
<1> QED BY <1>2, <1>3, SaysTells DEF VERSION

LEMMA KickTells ==
    ASSUME IInv, TellInv, NEW u \in Users, NEW v \in Users, NEW c \in Chans, KICK(u, v, c)
    PROVE  TellInv'
<1>1. PICK a, S, m : a = Home[u] /\ S = peers[a] /\ m = KICKof(u, v, c)
  OBVIOUS
<1>2. Transfer(a, a, FALSE, S, m)
  BY <1>1, KickKeeps
<1>3. m.type = "KICK" /\ m.who = u
  BY <1>1 DEF KICKof
<1>4. usr[a][m.who] # None /\ status = "running" /\ status' = status
  BY <1>1, <1>3, GivesIs, ServerOf DEF KICK
<1>5. Leaves(a, v, {c}) /\ usr' = usr /\ chan_of' = chan_of
  BY <1>1, KickedEffect, ServerOf DEF KICK, IInv, TypeInv, Operator
<1>6. apart' = apart \cup {<<v, c>>}
  BY DEF KICK
<1>7. \A z \in Servers, w \in Users, d \in Chans :
         /\ Member(z, w, d)' => Member(z, w, d)
         /\ <<w, d>> \notin apart' => (Member(z, w, d)' <=> Member(z, w, d))
  BY <1>5, <1>6 DEF Leaves
<1>8. m.type \notin Loud
  BY <1>3 DEF Loud
<1> QED BY <1>2, <1>4, <1>5, <1>6, <1>7, <1>8, QuietTells

LEMMA ReceiveKickTells ==
    ASSUME IInv, TellInv, NEW x \in Servers, NEW y \in Servers, ReceiveKick(x, y)
    PROVE  TellInv'
<1>1. PICK m : m = Head(queue[y][x])
  OBVIOUS
<1>2. /\ m.whom \in Users /\ m.chan \in Chans /\ m.type = "KICK"
      /\ <<m.whom, m.chan>> \in apart /\ UNCHANGED <<status, history>>
      /\ usr' = usr /\ chan_of' = chan_of
      /\ \/ Leaves(x, m.whom, {m.chan}) /\ Transfer(x, y, TRUE, Others(x, y), m)
         \/ MembersStay /\ Transfer(x, y, TRUE, {}, m)
  BY <1>1, ReceiveKickKeeps
<1>3. Receives(x, y, "KICK")
  BY DEF ReceiveKick
<1>4. status = "running" /\ usr[x][m.who] # None
  BY <1>1, <1>3, ReceivesIs DEF Unsigned
<1>5. PICK S : Transfer(x, y, TRUE, S, m)
  BY <1>2
<1>6. m.type \notin Loud
  BY <1>2 DEF Loud
<1>7. \A z \in Servers, w \in Users, d \in Chans :
         /\ Member(z, w, d)' => Member(z, w, d)
         /\ <<w, d>> \notin apart' => (Member(z, w, d)' <=> Member(z, w, d))
  BY <1>2 DEF Leaves, MembersStay, history
<1>8. apart' = apart
  BY <1>2 DEF history
<1> QED BY <1>1, <1>2, <1>4, <1>5, <1>6, <1>7, <1>8, QuietTells

LEMMA DiesTells ==
    ASSUME TellInv, Dies
    PROVE  TellInv'
<1>1. UNCHANGED views /\ apart' = apart /\ status' = "terminated"
  BY DEF Dies, history
<1>2. ChannelsAreFound'
  BY <1>1 DEF ChannelsAreFound
<1> QED BY <1>1, <1>2, EndedTells

LEMMA ReceiveModeTells ==
    ASSUME IInv, TellInv, NEW x \in Servers, NEW y \in Servers, ReceiveMode(x, y)
    PROVE  TellInv'
<1>1. PICK m, S : m = Head(queue[y][x]) /\ S = Others(x, y)
  OBVIOUS
<1>2. Receives(x, y, "FLAG")
  BY DEF ReceiveMode
<1>3. m.type = "FLAG" /\ status = "running" /\ usr[x][m.who] # None
  BY <1>1, <1>2, ReceivesIs DEF Unsigned
<1>4. CASE status' # "running"
  <2>1. Dies
    BY <1>3, <1>4 DEF ReceiveMode
  <2> QED BY <2>1, DiesTells
<1>5. CASE status' = "running"
  <2>1. /\ MembersStay /\ usr' = usr /\ chan_of' = chan_of
        /\ \E o : o.type \in {"FLAG", "QUERY"} /\ o.who = m.who /\ Transfer(x, y, TRUE, Others(x, y), o)
        /\ UNCHANGED history
    BY <1>1, <1>5, ReceiveModeKeeps
  <2>2. PICK o : o.type \in {"FLAG", "QUERY"} /\ o.who = m.who /\ Transfer(x, y, TRUE, S, o)
    BY <1>1, <2>1
  <2>3. m.type \notin Loud /\ o.type \notin Loud /\ apart' = apart /\ usr[x][o.who] # None
    BY <1>3, <2>1, <2>2 DEF Loud, history
  <2> QED BY <1>1, <1>3, <1>5, <2>1, <2>2, <2>3, CalmTells
<1> QED BY <1>4, <1>5

LEMMA ReceiveRightTells ==
    ASSUME IInv, TellInv, NEW x \in Servers, NEW y \in Servers, ReceiveRight(x, y)
    PROVE  TellInv'
<1>1. PICK m, S : m = Head(queue[y][x]) /\ S = Others(x, y)
  OBVIOUS
<1>2. Receives(x, y, "RIGHT")
  BY DEF ReceiveRight
<1>3. m.type = "RIGHT" /\ status = "running" /\ usr[x][m.who] # None
  BY <1>1, <1>2, ReceivesIs DEF Unsigned
<1>4. CASE status' # "running"
  <2>1. Dies
    BY <1>3, <1>4 DEF ReceiveRight
  <2> QED BY <2>1, DiesTells
<1>5. CASE status' = "running"
  <2>1. /\ MembersStay /\ usr' = usr /\ chan_of' = chan_of
        /\ Transfer(x, y, TRUE, Others(x, y), m) /\ UNCHANGED history
    BY <1>1, <1>5, ReceiveRightKeeps
  <2>2. Transfer(x, y, TRUE, S, m)
    BY <1>1, <2>1
  <2>3. m.type \notin Loud /\ apart' = apart
    BY <1>3, <2>1 DEF Loud, history
  <2> QED BY <1>1, <1>3, <1>5, <2>1, <2>2, <2>3, CalmTells
<1> QED BY <1>4, <1>5

LEMMA ReceiveTopicTells ==
    ASSUME IInv, TellInv, NEW x \in Servers, NEW y \in Servers, ReceiveTopic(x, y)
    PROVE  TellInv'
<1>1. PICK m : m = Head(queue[y][x])
  OBVIOUS
<1>2. Receives(x, y, "TOPIC")
  BY DEF ReceiveTopic
<1>3. m.type = "TOPIC" /\ status = "running"
  BY <1>1, <1>2, ReceivesIs
<1>4. CASE status' # "running"
  <2>1. Dies
    BY <1>3, <1>4 DEF ReceiveTopic, Dropped
  <2> QED BY <2>1, DiesTells
<1>5. CASE status' = "running"
  <2>1. /\ MembersStay /\ usr' = usr /\ chan_of' = chan_of /\ UNCHANGED history
        /\ Transfer(x, y, TRUE, {}, m) \/ Transfer(x, y, TRUE, peers[x], m)
    BY <1>1, <1>5, ReceiveTopicKeeps
  <2>2. PICK S : Transfer(x, y, TRUE, S, m)
    BY <2>1
  <2>3. m.type \notin Loud /\ apart' = apart /\ m.type \in Unsigned
    BY <1>3, <2>1 DEF Loud, history, Unsigned
  <2> QED BY <1>1, <1>3, <1>5, <2>1, <2>2, <2>3, CalmTells
<1> QED BY <1>4, <1>5

LEMMA ReceivePrivmsgTells ==
    ASSUME IInv, TellInv, NEW x \in Servers, NEW y \in Servers, ReceivePrivmsg(x, y)
    PROVE  TellInv'
<1>1. PICK m, S : m = Head(queue[y][x]) /\ S = Others(x, y)
  OBVIOUS
<1>2. Receives(x, y, "SAY")
  BY DEF ReceivePrivmsg
<1>3. m.type = "SAY" /\ status = "running" /\ usr[x][m.who] # None
  BY <1>1, <1>2, ReceivesIs DEF Unsigned
<1>4. CASE status' # "running"
  <2>1. Dies
    BY <1>3, <1>4 DEF ReceivePrivmsg
  <2> QED BY <2>1, DiesTells
<1>5. CASE status' = "running"
  <2>1. UNCHANGED <<views, status>> /\ Transfer(x, y, TRUE, Others(x, y), m) /\ UNCHANGED <<said, apart>>
    BY <1>1, <1>5, ReceivePrivmsgKeeps
  <2>2. Transfer(x, y, TRUE, S, m)
    BY <1>1, <2>1
  <2>3. m.type \notin Loud /\ apart' = apart
    BY <1>3, <2>1 DEF Loud
  <2>4. MembersStay /\ usr' = usr /\ chan_of' = chan_of
    BY <2>1, SameViews DEF IInv, TypeInv
  <2> QED BY <1>1, <1>3, <1>5, <2>1, <2>2, <2>3, <2>4, CalmTells
<1> QED BY <1>4, <1>5

LEMMA ReceivePrivmsgUserTells ==
    ASSUME IInv, TellInv, NEW x \in Servers, NEW y \in Servers, ReceivePrivmsgUser(x, y)
    PROVE  TellInv'
<1>1. PICK m, S : m = Head(queue[y][x]) /\ S = Towards(x, m.whom)
  OBVIOUS
<1>2. Receives(x, y, "TELL") /\ UNCHANGED <<views, status, said, apart>>
  BY DEF ReceivePrivmsgUser
<1>3. m.type = "TELL" /\ status = "running" /\ usr[x][m.who] # None
  BY <1>1, <1>2, ReceivesIs DEF Unsigned
<1>4. Transfer(x, y, TRUE, S, m)
  BY <1>1, ReceivePrivmsgUserKeeps
<1>5. m.type \notin Loud
  BY <1>3 DEF Loud
<1>6. MembersStay /\ usr' = usr /\ chan_of' = chan_of
  BY <1>2, SameViews DEF IInv, TypeInv
<1> QED BY <1>1, <1>2, <1>3, <1>4, <1>5, <1>6, CalmTells

LEMMA ReceiveAnswerTells ==
    ASSUME IInv, TellInv, NEW x \in Servers, NEW y \in Servers, ReceiveAnswer(x, y)
    PROVE  TellInv'
<1>1. PICK m, S : m = Head(queue[y][x]) /\ S = Towards(x, m.whom)
  OBVIOUS
<1>2. Receives(x, y, "ANSWER") /\ UNCHANGED <<views, status, said, apart>>
  BY DEF ReceiveAnswer
<1>3. m.type = "ANSWER" /\ status = "running"
  BY <1>1, <1>2, ReceivesIs
<1>4. Transfer(x, y, TRUE, S, m)
  BY <1>1, ReceiveAnswerKeeps
<1>5. m.type \notin Loud /\ m.type \in Unsigned
  BY <1>3 DEF Loud, Unsigned
<1>6. MembersStay /\ usr' = usr /\ chan_of' = chan_of
  BY <1>2, SameViews DEF IInv, TypeInv
<1> QED BY <1>1, <1>2, <1>3, <1>4, <1>5, <1>6, CalmTells

LEMMA ReceiveVersionTells ==
    ASSUME IInv, TellInv, NEW x \in Servers, NEW y \in Servers, ReceiveVersion(x, y)
    PROVE  TellInv'
<1>1. PICK m : m = Head(queue[y][x])
  OBVIOUS
<1>2. Receives(x, y, "ASK")
  BY DEF ReceiveVersion
<1>3. m.type = "ASK" /\ status = "running" /\ usr[x][m.who] # None
  BY <1>1, <1>2, ReceivesIs DEF Unsigned
<1>4. /\ UNCHANGED <<views, status, history>>
      /\ \/ m.server = x /\ Transfer(x, y, TRUE, {y}, ANSWERof(m.who, m.number))
         \/ m.server # x /\ Transfer(x, y, TRUE, {Route[x][m.server]}, m)
  BY <1>1, ReceiveVersionKeeps
<1>5. PICK o, S : Transfer(x, y, TRUE, S, o) /\ (o.type = "ANSWER" \/ o = m)
  <2>1. ANSWERof(m.who, m.number).type = "ANSWER"
    BY DEF ANSWERof
  <2> QED BY <1>4, <2>1
<1>6. m.type \notin Loud /\ o.type \notin Loud /\ (o.type \notin Unsigned => o = m)
  BY <1>3, <1>5 DEF Loud, Unsigned
<1>7. MembersStay /\ usr' = usr /\ chan_of' = chan_of /\ apart' = apart
  BY <1>4, SameViews DEF IInv, TypeInv, history
<1> QED BY <1>1, <1>3, <1>4, <1>5, <1>6, <1>7, CalmTells

LEMMA ReceiveServerTopicTells ==
    ASSUME IInv, TellInv, NEW x \in Servers, NEW y \in Servers, ReceiveServerTopic(x, y)
    PROVE  TellInv'
<1>1. PICK m, S : m = Head(queue[y][x]) /\ S = {}
  OBVIOUS
<1>2. Receives(x, y, "STOPIC")
  BY DEF ReceiveServerTopic
<1>3. status = "running"
  BY <1>1, <1>2, ReceivesIs
<1>4. /\ m.type = "STOPIC" /\ UNCHANGED <<status, history>>
      /\ MembersStay /\ usr' = usr /\ chan_of' = chan_of /\ Transfer(x, y, TRUE, S, m)
  BY <1>1, ReceiveServerTopicKeeps
<1>5. m.type \notin Loud /\ apart' = apart
  BY <1>4 DEF Loud, history
<1> QED BY <1>1, <1>3, <1>4, <1>5, CalmTells

LEMMA ReceiveServerModeTells ==
    ASSUME IInv, TellInv, NEW x \in Servers, NEW y \in Servers, ReceiveServerMode(x, y)
    PROVE  TellInv'
<1>1. PICK m, S : m = Head(queue[y][x]) /\ S = {}
  OBVIOUS
<1>2. Receives(x, y, "SMODE")
  BY DEF ReceiveServerMode
<1>3. status = "running"
  BY <1>1, <1>2, ReceivesIs
<1>4. /\ m.type = "SMODE" /\ UNCHANGED <<status, history>>
      /\ MembersStay /\ usr' = usr /\ chan_of' = chan_of /\ Transfer(x, y, TRUE, S, m)
  BY <1>1, ReceiveServerModeKeeps
<1>5. m.type \notin Loud /\ apart' = apart
  BY <1>4 DEF Loud, history
<1> QED BY <1>1, <1>3, <1>4, <1>5, CalmTells

-----------------------------------------------------------------------------
(* What tells of a user: his server sends it to all links, the others pass *)
(* it on to all but the one it came by.                                    *)

\* a does it for u0 and tells the servers that are further from his home.
Spreads(a, b, take, S, m, u0) ==
    /\ Transfer(a, b, take, S, m)
    /\ b = Route[a][Home[u0]] /\ (take <=> b # a) /\ S = peers[a] \ {b}
    /\ take => m = Head(queue[b][a])
    /\ m.who = u0 /\ m.type \in {"NICK", "QUIT", "JOIN", "PART"}

\* For one link and user the messages have it, if a changes it as m says.
LEMMA SpreadTold ==
    ASSUME IInv, NEW u0 \in Users, NEW a, NEW b, NEW take, NEW S, NEW m, Spreads(a, b, take, S, m, u0),
           NEW x \in Servers, NEW y \in peers[x], NEW u \in Users, Route[x][Home[u]] = y,
           NEW t, NEW A, NEW B, NEW C, NEW D, Telltale(x, y, t, u, A, B, C, D),
           x # a => (u \in C <=> u \in A),
           y # a => (u \in D <=> u \in B),
           u # u0 => /\ m \notin t.yes /\ m \notin t.no /\ m \notin t.needs /\ m \notin t.bars
                     /\ (u \in C <=> u \in A) /\ (u \in D <=> u \in B),
           x = a /\ u = u0 => (u \in C <=> m \in t.yes \/ (m \notin t.no /\ u \in A)),
           y = a /\ u = u0 =>
              /\ u \in D <=> m \in t.yes \/ (m \notin t.no /\ u \in B)
              /\ m \in t.needs => u \in B
              /\ m \in t.bars => u \notin B
    PROVE  Told(queue'[y][x], t, u, C, D)
<1>1. /\ Transfer(a, b, take, S, m) /\ b = Route[a][Home[u0]] /\ (take <=> b # a) /\ S = peers[a] \ {b}
      /\ take => m = Head(queue[b][a])
      /\ a \in Servers
  BY DEF Spreads, Transfer
<1>2. y \in Servers /\ y # x /\ Route[x][y] = y /\ x \in peers[y] /\ Home[u] \in Servers
  BY ServerOf DEF IInv, TypeInv, Peered
<1>3. Route[x][Home[u]] = y <=> Route[y][Home[u]] # x
  BY <1>2, OneSide
<1>4. x = a /\ y = b /\ take =>
         (u \in C <=> Head(queue[y][x]) \in t.yes \/ (Head(queue[y][x]) \notin t.no /\ u \in A))
  BY <1>1
<1>5. ~(x = a /\ y = b /\ take) => (u \in C <=> u \in A)
  BY <1>1, <1>2
<1>6. y = a /\ x \in S =>
         /\ u \in D <=> m \in t.yes \/ (m \notin t.no /\ u \in B)
         /\ m \in t.needs => u \in B
         /\ m \in t.bars => u \notin B
  OBVIOUS
<1>7. ~(y = a /\ x \in S) => (u \in D <=> u \in B)
  BY <1>1, <1>2, <1>3
<1> QED BY <1>1, <1>4, <1>5, <1>6, <1>7, ToldStep

LEMMA SpreadTells ==
    ASSUME IInv, TellInv, NEW u0 \in Users, NEW a, NEW b, NEW take, NEW S, NEW m,
           Spreads(a, b, take, S, m, u0),
           status = "running", apart' = apart,
           \A z \in Servers, v \in Users : z # a \/ v # u0 => usr'[z][v] = usr[z][v],
           usr'[a][u0] # None <=> m.type = "NICK" \/ (m.type # "QUIT" /\ usr[a][u0] # None),
           m.type = "NICK" <=> usr[a][u0] = None,
           \A z \in Servers, v \in Users, c \in Chans :
              z # a \/ v # u0 => (Member(z, v, c)' <=> Member(z, v, c)),
           \A c \in Chans :
              Member(a, u0, c)' <=>
                 \/ m.type = "JOIN" /\ m.chan = c
                 \/ m.type \notin {"NICK", "QUIT"} /\ ~(m.type = "PART" /\ m.chan = c) /\ Member(a, u0, c),
           m.type = "PART" /\ <<u0, m.chan>> \notin apart => Member(a, u0, m.chan)
    PROVE  Knowledge' /\ Telling'
<1>1. peers' = peers /\ m \in Msg /\ m.who = u0 /\ m.type \in {"NICK", "QUIT", "JOIN", "PART"}
      /\ a \in Servers
  BY DEF Spreads, Transfer
<1>2. ASSUME NEW x \in Servers, NEW y \in peers[x], NEW u \in Users, Route[x][Home[u]] = y
      PROVE  Told(queue'[y][x], Life(u), u, Known(x)', Known(y)')
  <2>1. PICK A, B, C, D, t : /\ A = Known(x) /\ B = Known(y) /\ t = Life(u)
                             /\ C = Known(x)' /\ D = Known(y)'
    OBVIOUS
  <2>2. Told(queue[y][x], t, u, A, B)
    BY <1>2, <2>1 DEF TellInv, Knowledge
  <2>3. y \in Servers
    BY DEF IInv, TypeInv
  <2>4. /\ x # a \/ u # u0 => (u \in C <=> u \in A)
        /\ y # a \/ u # u0 => (u \in D <=> u \in B)
    BY <2>1, <2>3 DEF Known
  <2>5. u # u0 => m \notin t.yes /\ m \notin t.no /\ m \notin t.needs /\ m \notin t.bars
    BY <1>1, <2>1, LifeOf
  <2>6. u = u0 => /\ m \in t.yes <=> m.type = "NICK"
                  /\ m \in t.no <=> m.type = "QUIT"
                  /\ m \in t.bars <=> m.type = "NICK"
                  /\ m \in t.needs <=> m.type # "NICK"
    BY <1>1, <2>1, LifeOf DEF Unsigned
  <2>7. x = a /\ u = u0 => (u \in C <=> m \in t.yes \/ (m \notin t.no /\ u \in A))
    BY <2>1, <2>6 DEF Known
  <2>8. y = a /\ u = u0 =>
              /\ u \in D <=> m \in t.yes \/ (m \notin t.no /\ u \in B)
              /\ m \in t.needs => u \in B
              /\ m \in t.bars => u \notin B
    BY <2>1, <2>6 DEF Known
  <2>9. Telltale(x, y, t, u, A, B, C, D)
    BY <2>2, <2>3, <2>4, <1>2 DEF Telltale, IInv, Peered
  <2>10. Told(queue'[y][x], t, u, C, D)
    BY <1>2, <2>4, <2>5, <2>7, <2>8, <2>9, SpreadTold
  <2> QED BY <2>1, <2>10
<1>3. ASSUME NEW x \in Servers, NEW y \in peers[x], NEW u \in Users, NEW c \in Chans,
             Route[x][Home[u]] = y, <<u, c>> \notin apart
      PROVE  Told(queue'[y][x], Stay(u, c), u, Members(x, c)', Members(y, c)')
  <2>1. PICK A, B, C, D, t : /\ A = Members(x, c) /\ B = Members(y, c) /\ t = Stay(u, c)
                             /\ C = Members(x, c)' /\ D = Members(y, c)'
    OBVIOUS
  <2>2. Told(queue[y][x], t, u, A, B)
    BY <1>3, <2>1 DEF TellInv, Telling
  <2>3. y \in Servers
    BY DEF IInv, TypeInv
  <2>4. /\ x # a \/ u # u0 => (u \in C <=> u \in A)
        /\ y # a \/ u # u0 => (u \in D <=> u \in B)
    BY <2>1, <2>3 DEF Members
  <2>5. u # u0 => m \notin t.yes /\ m \notin t.no /\ m \notin t.needs /\ m \notin t.bars
    BY <1>1, <2>1, StayOf
  <2>6. u = u0 => /\ m \in t.yes <=> m.type = "JOIN" /\ m.chan = c
                  /\ m \in t.no <=> m.type \in {"NICK", "QUIT"} \/ (m.type = "PART" /\ m.chan = c)
                  /\ m \notin t.bars
                  /\ m \in t.needs <=> m.type = "PART" /\ m.chan = c
    BY <1>1, <2>1, StayOf
  <2>7. x = a /\ u = u0 => (u \in C <=> m \in t.yes \/ (m \notin t.no /\ u \in A))
    BY <2>1, <2>6 DEF Members
  <2>8. y = a /\ u = u0 =>
              /\ u \in D <=> m \in t.yes \/ (m \notin t.no /\ u \in B)
              /\ m \in t.needs => u \in B
              /\ m \in t.bars => u \notin B
    BY <1>3, <2>1, <2>6 DEF Members
  <2>9. Telltale(x, y, t, u, A, B, C, D)
    BY <2>2, <2>3, <2>4, <1>3 DEF Telltale, IInv, Peered
  <2>10. Told(queue'[y][x], t, u, C, D)
    BY <1>3, <2>4, <2>5, <2>7, <2>8, <2>9, SpreadTold
  <2> QED BY <2>1, <2>10
<1> QED BY <1>1, <1>2, <1>3 DEF Knowledge, Telling

\* What a client's command spreads, and what a handler spreads on.
LEMMA CommandSpreads ==
    ASSUME IInv, NEW u \in Users, NEW m, Transfer(Home[u], Home[u], FALSE, peers[Home[u]], m),
           m.who = u, m.type \in {"NICK", "QUIT", "JOIN", "PART"}
    PROVE  Spreads(Home[u], Home[u], FALSE, peers[Home[u]], m, u)
<1>1. Home[u] \in Servers /\ Route[Home[u]][Home[u]] = Home[u]
  BY ServerOf
<1>2. Home[u] \notin peers[Home[u]]
  BY <1>1 DEF IInv, Peered
<1> QED BY <1>1, <1>2 DEF Spreads

LEMMA HandlerSpreads ==
    ASSUME IInv, NEW x \in Servers, NEW y \in Servers, NEW m, m = Head(queue[y][x]), queue[y][x] # <<>>,
           Transfer(x, y, TRUE, Others(x, y), m), m.type \in {"NICK", "QUIT", "JOIN", "PART"}
    PROVE  Spreads(x, y, TRUE, Others(x, y), m, m.who)
<1>1. Fits(m, y, x) /\ y # x
  BY FirstMessage
<1>2. Route[x][Home[m.who]] = y
  BY <1>1 DEF Fits, Outward
<1> QED BY <1>1, <1>2 DEF Spreads, Others

LEMMA NoMember ==
    ASSUME TellInv, NEW x \in Servers, NEW u \in Users, usr[x][u] = None
    PROVE  \A c \in Chans : ~Member(x, u, c) /\ c \notin chan_of[x][u]
BY DEF TellInv, Recorded

\* What is known of others, and elsewhere, stays.
ElseKept(a, u0) == \A z \in Servers, v \in Users : z # a \/ v # u0 => usr'[z][v] = usr[z][v]

\* u0 becomes known at a.
LEMMA NickSpreads ==
    ASSUME IInv, TellInv, NEW u0 \in Users, NEW a, NEW b, NEW take, NEW S, NEW m,
           Spreads(a, b, take, S, m, u0), m.type = "NICK", usr[a][u0] = None,
           status = "running", channels' = channels, chan_of' = chan_of, status' = status, apart' = apart,
           usr'[a][u0] # None, ElseKept(a, u0)
    PROVE  TellInv'
<1>1. a \in Servers
  BY DEF Spreads, Transfer
<1>2. \A z \in Servers, v \in Users, c \in Chans : Member(z, v, c)' <=> Member(z, v, c)
  BY DEF Member, Exists
<1>3. \A c \in Chans : ~Member(a, u0, c) /\ c \notin chan_of[a][u0]
  BY <1>1, NoMember
<1>4. Knowledge' /\ Telling'
  <2>1. /\ \A z \in Servers, v \in Users : z # a \/ v # u0 => usr'[z][v] = usr[z][v]
        /\ usr'[a][u0] # None <=> m.type = "NICK" \/ (m.type # "QUIT" /\ usr[a][u0] # None)
        /\ m.type = "NICK" <=> usr[a][u0] = None
    BY <1>1 DEF ElseKept
  <2>2. \A z \in Servers, v \in Users, d \in Chans :
           z # a \/ v # u0 => (Member(z, v, d)' <=> Member(z, v, d))
    BY <1>2
  <2>3. \A d \in Chans :
           Member(a, u0, d)' <=>
              \/ m.type = "JOIN" /\ m.chan = d
              \/ m.type \notin {"NICK", "QUIT"} /\ ~(m.type = "PART" /\ m.chan = d) /\ Member(a, u0, d)
    BY <1>1, <1>2, <1>3
  <2>4. apart' = apart /\ m.type # "PART"
    OBVIOUS
  <2> QED BY <2>1, <2>2, <2>3, <2>4, SpreadTells
<1>5. Recorded'
  <2>1. \A z \in Servers, v \in Users : usr[z][v] # None => usr'[z][v] # None
    BY DEF ElseKept
  <2>2. chan_of' = chan_of /\ status' = status /\ apart' = apart
    OBVIOUS
  <2> QED BY <1>2, <2>1, <2>2 DEF TellInv, Recorded
<1>6. ChannelsAreFound'
  BY DEF ChannelsAreFound
<1> QED BY <1>4, <1>5, <1>6 DEF TellInv

LEMMA JoinSpreads ==
    ASSUME IInv, TellInv, NEW u0 \in Users, NEW c \in Chans, NEW a, NEW b, NEW take, NEW S, NEW m,
           Spreads(a, b, take, S, m, u0), m.type = "JOIN", m.chan = c, usr[a][u0] # None,
           status = "running", UNCHANGED <<usr, status, apart>>, Enter(a, u0, c)
    PROVE  TellInv'
<1>1. a \in Servers
  BY DEF Spreads, Transfer
<1>2. /\ \A z \in Servers, v \in Users, d \in Chans :
             Member(z, v, d)' <=> Member(z, v, d) \/ (z = a /\ v \in {u0} /\ d = c)
      /\ \A z \in Servers, v \in Users :
             chan_of'[z][v] = IF z = a /\ v = u0 THEN chan_of[z][v] \cup {c} ELSE chan_of[z][v]
  BY <1>1, EnterEffect DEF IInv, TypeInv, Joins
<1>3. Knowledge' /\ Telling'
  <2>1. \A z \in Servers, v \in Users, d \in Chans :
           z # a \/ v # u0 => (Member(z, v, d)' <=> Member(z, v, d))
    BY <1>2
  <2>2. \A d \in Chans :
           Member(a, u0, d)' <=>
              \/ m.type = "JOIN" /\ m.chan = d
              \/ m.type \notin {"NICK", "QUIT"} /\ ~(m.type = "PART" /\ m.chan = d) /\ Member(a, u0, d)
    BY <1>1, <1>2
  <2>3. /\ \A z \in Servers, v \in Users : z # a \/ v # u0 => usr'[z][v] = usr[z][v]
        /\ usr'[a][u0] # None <=> m.type = "NICK" \/ (m.type # "QUIT" /\ usr[a][u0] # None)
        /\ m.type = "NICK" <=> usr[a][u0] = None
    OBVIOUS
  <2>4. apart' = apart /\ (m.type = "PART" /\ <<u0, m.chan>> \notin apart => Member(a, u0, m.chan))
    OBVIOUS
  <2> QED BY <2>1, <2>2, <2>3, <2>4, SpreadTells
<1>4. Recorded'
  <2> SUFFICES ASSUME NEW z \in Servers, NEW v \in Users, NEW d \in Chans
               PROVE  /\ Member(z, v, d)' => d \in chan_of'[z][v]
                      /\ d \in chan_of'[z][v] => usr[z][v] # None
                      /\ status = "running" /\ <<v, d>> \notin apart /\ d \in chan_of'[z][v] => Member(z, v, d)'
    BY DEF Recorded
  <2>1. /\ Member(z, v, d) => d \in chan_of[z][v]
        /\ d \in chan_of[z][v] => usr[z][v] # None
        /\ status = "running" /\ <<v, d>> \notin apart /\ d \in chan_of[z][v] => Member(z, v, d)
    BY DEF TellInv, Recorded
  <2>2. d \in chan_of'[z][v] <=> d \in chan_of[z][v] \/ (z = a /\ v = u0 /\ d = c)
    <3>1. chan_of'[z][v] = IF z = a /\ v = u0
                           THEN chan_of[z][v] \cup {c} ELSE chan_of[z][v]
      BY <1>2
    <3> QED BY <3>1
  <2>3. Member(z, v, d)' <=> Member(z, v, d) \/ (z = a /\ v = u0 /\ d = c)
    BY <1>2
  <2> QED BY <2>1, <2>2, <2>3
<1>5. ChannelsAreFound'
  BY DEF ChannelsAreFound
<1> QED BY <1>3, <1>4, <1>5 DEF TellInv

LEMMA PartSpreads ==
    ASSUME IInv, TellInv, NEW u0 \in Users, NEW c \in Chans, NEW a, NEW b, NEW take, NEW S, NEW m,
           Spreads(a, b, take, S, m, u0), m.type = "PART", m.chan = c, usr[a][u0] # None,
           <<u0, c>> \notin apart => Member(a, u0, c),
           status = "running", UNCHANGED <<usr, status, apart>>, Leave(a, u0, {c})
    PROVE  TellInv'
<1>1. a \in Servers
  BY DEF Spreads, Transfer
<1>2. /\ \A z \in Servers, v \in Users, d \in Chans :
             Member(z, v, d)' <=> Member(z, v, d) /\ ~(z = a /\ v = u0 /\ d \in {c})
      /\ \A z \in Servers, v \in Users :
             chan_of'[z][v] = IF z = a /\ v = u0 THEN chan_of[z][v] \ {c} ELSE chan_of[z][v]
  <2>1. PICK R : R = {c}
    OBVIOUS
  <2>2. R \subseteq Chans /\ Leave(a, u0, R) /\ usr' \in [Servers -> [Users -> Servers \cup {None}]]
    BY <2>1 DEF IInv, TypeInv, ViewsTyped
  <2>3. /\ Leaves(a, u0, R)
        /\ \A z \in Servers, v \in Users :
             chan_of'[z][v] = IF z = a /\ v = u0 THEN chan_of[z][v] \ R ELSE chan_of[z][v]
    <3>1. ViewsTyped
      BY DEF IInv, TypeInv
    <3>2. usr' \in [Servers -> [Users -> Servers \cup {None}]]
      BY <2>2
    <3>3. R \subseteq Chans /\ Leave(a, u0, R)
      BY <2>2
    <3>4. Leaves(a, u0, R)
      BY <1>1, <3>1, <3>2, <3>3, LeaveEffect
    <3>5. \A z \in Servers, v \in Users :
             chan_of'[z][v] = IF z = a /\ v = u0 THEN chan_of[z][v] \ R ELSE chan_of[z][v]
      <4>1. chan_of' = [chan_of EXCEPT ![a][u0] = @ \ R]
        BY <3>3 DEF Leave
      <4> QED BY <1>1, <3>1, <4>1 DEF ViewsTyped
    <3> QED BY <3>4, <3>5
  <2> QED BY <2>1, <2>3 DEF Leaves
<1>3. Knowledge' /\ Telling'
  <2>1. \A z \in Servers, v \in Users, d \in Chans :
           z # a \/ v # u0 => (Member(z, v, d)' <=> Member(z, v, d))
    BY <1>2
  <2>2. \A d \in Chans :
           Member(a, u0, d)' <=>
              \/ m.type = "JOIN" /\ m.chan = d
              \/ m.type \notin {"NICK", "QUIT"} /\ ~(m.type = "PART" /\ m.chan = d) /\ Member(a, u0, d)
    BY <1>1, <1>2
  <2>3. /\ \A z \in Servers, v \in Users : z # a \/ v # u0 => usr'[z][v] = usr[z][v]
        /\ usr'[a][u0] # None <=> m.type = "NICK" \/ (m.type # "QUIT" /\ usr[a][u0] # None)
        /\ m.type = "NICK" <=> usr[a][u0] = None
    OBVIOUS
  <2>4. apart' = apart /\ (m.type = "PART" /\ <<u0, m.chan>> \notin apart => Member(a, u0, m.chan))
    OBVIOUS
  <2> QED BY <2>1, <2>2, <2>3, <2>4, SpreadTells
<1>4. Recorded'
  <2> SUFFICES ASSUME NEW z \in Servers, NEW v \in Users, NEW d \in Chans
               PROVE  /\ Member(z, v, d)' => d \in chan_of'[z][v]
                      /\ d \in chan_of'[z][v] => usr[z][v] # None
                      /\ status = "running" /\ <<v, d>> \notin apart /\ d \in chan_of'[z][v] => Member(z, v, d)'
    BY DEF Recorded
  <2>1. /\ Member(z, v, d) => d \in chan_of[z][v]
        /\ d \in chan_of[z][v] => usr[z][v] # None
        /\ status = "running" /\ <<v, d>> \notin apart /\ d \in chan_of[z][v] => Member(z, v, d)
    BY DEF TellInv, Recorded
  <2>2. d \in chan_of'[z][v] <=> d \in chan_of[z][v] /\ ~(z = a /\ v = u0 /\ d = c)
    <3>1. chan_of'[z][v] = IF z = a /\ v = u0
                           THEN chan_of[z][v] \ {c} ELSE chan_of[z][v]
      BY <1>2
    <3> QED BY <3>1
  <2>3. Member(z, v, d)' <=> Member(z, v, d) /\ ~(z = a /\ v = u0 /\ d = c)
    BY <1>2
  <2> QED BY <2>1, <2>2, <2>3
<1>5. ChannelsAreFound'
  BY DEF ChannelsAreFound
<1> QED BY <1>3, <1>4, <1>5 DEF TellInv

LEMMA QuitSpreads ==
    ASSUME IInv, TellInv, NEW u0 \in Users, NEW a, NEW b, NEW take, NEW S, NEW m,
           Spreads(a, b, take, S, m, u0), m.type = "QUIT", usr[a][u0] # None,
           status = "running", apart' = apart, Removed(a, u0)
    PROVE  TellInv'
<1>1. a \in Servers /\ peers' = peers
  BY DEF Spreads, Transfer
<1>2. CASE status' = "running"
  <2>1. PICK R : R = chan_of[a][u0]
    OBVIOUS
  <2>2. /\ chan_of[a][u0] \in SUBSET Chans /\ Leaves(a, u0, chan_of[a][u0])
        /\ \A z \in Servers, v \in Users :
              /\ usr'[z][v] = IF z = a /\ v = u0 THEN None ELSE usr[z][v]
              /\ chan_of'[z][v] = IF z = a /\ v = u0 THEN {} ELSE chan_of[z][v]
    BY <1>1, <1>2, RemovedEffect
  <2>3. \A c \in Chans : Member(a, u0, c) => c \in R
    BY <1>1, <2>1 DEF TellInv, Recorded
  <2>4. \A z \in Servers, v \in Users, c \in Chans :
           Member(z, v, c)' <=> Member(z, v, c) /\ ~(z = a /\ v = u0)
    BY <2>1, <2>2, <2>3 DEF Leaves
  <2>5. Knowledge' /\ Telling'
    <3>1. /\ \A z \in Servers, v \in Users : z # a \/ v # u0 => usr'[z][v] = usr[z][v]
          /\ usr'[a][u0] # None <=> m.type = "NICK" \/ (m.type # "QUIT" /\ usr[a][u0] # None)
          /\ m.type = "NICK" <=> usr[a][u0] = None
      BY <1>1, <2>2
    <3>2. \A z \in Servers, v \in Users, d \in Chans :
             z # a \/ v # u0 => (Member(z, v, d)' <=> Member(z, v, d))
      BY <2>4
    <3>3. \A d \in Chans :
             Member(a, u0, d)' <=>
                \/ m.type = "JOIN" /\ m.chan = d
                \/ m.type \notin {"NICK", "QUIT"} /\ ~(m.type = "PART" /\ m.chan = d) /\ Member(a, u0, d)
      BY <1>1, <2>4
    <3>4. apart' = apart /\ m.type # "PART"
      OBVIOUS
    <3> QED BY <3>1, <3>2, <3>3, <3>4, SpreadTells
  <2>6. Recorded'
    <3> SUFFICES ASSUME NEW z \in Servers, NEW v \in Users, NEW d \in Chans
                 PROVE  /\ Member(z, v, d)' => d \in chan_of'[z][v]
                        /\ d \in chan_of'[z][v] => usr'[z][v] # None
                        /\ <<v, d>> \notin apart /\ d \in chan_of'[z][v] => Member(z, v, d)'
      BY DEF Recorded
    <3>1. /\ Member(z, v, d) => d \in chan_of[z][v]
          /\ d \in chan_of[z][v] => usr[z][v] # None
          /\ status = "running" /\ <<v, d>> \notin apart /\ d \in chan_of[z][v] => Member(z, v, d)
      BY DEF TellInv, Recorded
    <3>2. /\ usr'[z][v] = IF z = a /\ v = u0 THEN None ELSE usr[z][v]
          /\ chan_of'[z][v] = IF z = a /\ v = u0 THEN {} ELSE chan_of[z][v]
      BY <2>2
    <3>3. Member(z, v, d)' <=> Member(z, v, d) /\ ~(z = a /\ v = u0)
      BY <2>4
    <3> QED BY <3>1, <3>2, <3>3
  <2>7. ChannelsAreFound'
    BY <1>2 DEF ChannelsAreFound
  <2> QED BY <2>5, <2>6, <2>7 DEF TellInv
<1>3. CASE status' # "running"
  <2>1. ~(chan_of[a][u0] \subseteq DOMAIN channels[a])
    BY <1>1, <1>3, RemovedEffect
  <2>2. UNCHANGED views
    BY <2>1 DEF Removed
  <2>3. PICK c \in chan_of[a][u0] : ~Exists(a, c)
    BY <2>1 DEF Exists
  <2>4. c \in Chans
    BY <1>1 DEF IInv, TypeInv, ViewsTyped
  <2>5. <<u0, c>> \in apart
    BY <1>1, <2>3, <2>4 DEF TellInv, Recorded, Member
  <2>6. ChannelsAreFound'
    BY <2>5 DEF ChannelsAreFound
  <2> QED BY <1>3, <2>2, <2>6, EndedTells
<1> QED BY <1>2, <1>3

\* The commands and the handlers.
LEMMA NickTells ==
    ASSUME IInv, TellInv, NEW u \in Users, NICK(u)
    PROVE  TellInv'
<1>1. PICK a, S, m : a = Home[u] /\ S = peers[a] /\ m = NICKof(u)
  OBVIOUS
<1>2. m.type = "NICK" /\ m.who = u
  BY <1>1, UserMessages
<1>3. Spreads(a, a, FALSE, S, m, u)
  BY <1>1, <1>2, NickKeeps, CommandSpreads
<1>4. /\ usr[a][u] = None /\ status = "running"
      /\ channels' = channels /\ chan_of' = chan_of /\ status' = status /\ apart' = apart
  BY <1>1 DEF NICK, history
<1>5. usr' = [usr EXCEPT ![a][u] = a]
  BY <1>1 DEF NICK
<1>6. usr'[a][u] # None /\ ElseKept(a, u)
  BY <1>1, <1>5, ServerOf DEF IInv, TypeInv, ViewsTyped, ElseKept
<1> QED BY <1>2, <1>3, <1>4, <1>6, NickSpreads

LEMMA JoinTells ==
    ASSUME IInv, TellInv, NEW u \in Users, NEW c \in Chans, JOIN(u, c)
    PROVE  TellInv'
<1>1. PICK a, S, m : a = Home[u] /\ S = peers[a] /\ m = JOINof(u, c)
  OBVIOUS
<1>2. m.type = "JOIN" /\ m.who = u /\ m.chan = c
  BY <1>1, MemberMessages
<1>3. Spreads(a, a, FALSE, S, m, u)
  BY <1>1, <1>2, JoinKeeps, CommandSpreads
<1>4. usr[a][u] # None /\ status = "running"
  BY <1>1, GivesIs, ServerOf DEF JOIN
<1>5. UNCHANGED <<usr, status, apart>> /\ Enter(a, u, c)
  BY <1>1 DEF JOIN, history
<1> QED BY <1>2, <1>3, <1>4, <1>5, JoinSpreads

LEMMA PartTells ==
    ASSUME IInv, TellInv, NEW u \in Users, NEW c \in Chans, PART(u, c)
    PROVE  TellInv'
<1>1. PICK a, S, m : a = Home[u] /\ S = peers[a] /\ m = PARTof(u, c)
  OBVIOUS
<1>2. m.type = "PART" /\ m.who = u /\ m.chan = c
  BY <1>1, MemberMessages
<1>3. Spreads(a, a, FALSE, S, m, u)
  BY <1>1, <1>2, PartKeeps, CommandSpreads
<1>4. usr[a][u] # None /\ status = "running"
  BY <1>1, GivesIs, ServerOf DEF PART
<1>5. UNCHANGED <<usr, status, apart>> /\ Leave(a, u, {c}) /\ Member(a, u, c)
  BY <1>1 DEF PART
<1> QED BY <1>2, <1>3, <1>4, <1>5, PartSpreads

LEMMA QuitTells ==
    ASSUME IInv, TellInv, NEW u \in Users, QUIT(u)
    PROVE  TellInv'
<1>1. PICK a, S, m : a = Home[u] /\ S = peers[a] /\ m = QUITof(u)
  OBVIOUS
<1>2. m.type = "QUIT" /\ m.who = u
  BY <1>1, UserMessages
<1>3. Spreads(a, a, FALSE, S, m, u)
  BY <1>1, <1>2, QuitKeeps, CommandSpreads
<1>4. usr[a][u] # None /\ status = "running"
  BY <1>1, GivesIs, ServerOf DEF QUIT
<1>5. apart' = apart /\ Removed(a, u)
  BY <1>1 DEF QUIT
<1> QED BY <1>2, <1>3, <1>4, <1>5, QuitSpreads

LEMMA ReceiveNickTells ==
    ASSUME IInv, TellInv, NEW x \in Servers, NEW y \in Servers, ReceiveNick(x, y)
    PROVE  TellInv'
<1>1. PICK m, S : m = Head(queue[y][x]) /\ S = Others(x, y)
  OBVIOUS
<1>2. Receives(x, y, "NICK")
  BY DEF ReceiveNick
<1>3. /\ queue[y][x] # <<>> /\ m \in Msg /\ m.type = "NICK" /\ status = "running"
      /\ y \in peers[x] /\ Route[x][Home[m.who]] = y
  BY <1>1, <1>2, ReceivesIs DEF Fits, Outward
<1>4. /\ Transfer(x, y, TRUE, Others(x, y), m) /\ m.who \in Users
      /\ \A a \in Servers, v \in Users :
            usr'[a][v] = IF a = x /\ v = m.who /\ usr[a][v] = None THEN y ELSE usr[a][v]
  <2>1. /\ Transfer(x, y, TRUE, Others(x, y), m) /\ m.who \in Users
    BY <1>1, ReceiveNickKeeps
  <2>2. usr' = IF usr[x][m.who] = None THEN [usr EXCEPT ![x][m.who] = y] ELSE usr
    BY <1>1 DEF ReceiveNick
  <2>3. usr \in [Servers -> [Users -> Servers \cup {None}]]
    BY DEF IInv, TypeInv, ViewsTyped
  <2> QED BY <2>1, <2>2, <2>3
<1>5. Spreads(x, y, TRUE, S, m, m.who)
  BY <1>1, <1>3, <1>4, HandlerSpreads
<1>6. usr[x][m.who] = None
  <2>1. PICK u \in Users : u = m.who
    BY <1>4
  <2>2. Told(queue[y][x], Life(u), u, Known(x), Known(y))
    BY <1>3, <2>1 DEF TellInv, Knowledge
  <2>3. m \in Life(u).bars
    BY <1>3, <2>1, LifeOf
  <2>4. queue[y][x] \in Seq(Msg)
    BY DEF IInv, TypeInv, Queues
  <2>5. u \notin Known(x)
    BY <1>1, <1>3, <2>2, <2>3, <2>4, ToldHead
  <2> QED BY <2>1, <2>5 DEF Known
<1>7. channels' = channels /\ chan_of' = chan_of /\ status' = status /\ apart' = apart
  BY DEF ReceiveNick, history
<1>8. PICK u \in Users : u = m.who
  BY <1>4
<1>9. usr'[x][u] # None /\ ElseKept(x, u)
  BY <1>4, <1>6, <1>8, NoneAssumption DEF ElseKept
<1>10. Spreads(x, y, TRUE, S, m, u) /\ usr[x][u] = None /\ m.type = "NICK" /\ status = "running"
  BY <1>3, <1>5, <1>6, <1>8
<1> QED BY <1>7, <1>9, <1>10, NickSpreads

LEMMA ReceiveQuitTells ==
    ASSUME IInv, TellInv, NEW x \in Servers, NEW y \in Servers, ReceiveQuit(x, y)
    PROVE  TellInv'
<1>1. PICK m, S : m = Head(queue[y][x]) /\ S = Others(x, y)
  OBVIOUS
<1>2. Receives(x, y, "QUIT")
  BY DEF ReceiveQuit
<1>3. queue[y][x] # <<>> /\ m.type = "QUIT" /\ status = "running"
  BY <1>1, <1>2, ReceivesIs
<1>4. /\ Transfer(x, y, TRUE, S, m) /\ m.who \in Users /\ Removed(x, m.who) /\ usr[x][m.who] # None
      /\ apart' = apart
  BY <1>1, ReceiveQuitKeeps DEF history
<1>5. Spreads(x, y, TRUE, S, m, m.who)
  BY <1>1, <1>3, <1>4, HandlerSpreads
<1>6. PICK u \in Users : u = m.who
  BY <1>4
<1> QED BY <1>3, <1>4, <1>5, <1>6, QuitSpreads

\* x takes m from y and passes nothing on.
Keeps(x, y, take, S, m) == take /\ S = {} /\ m = Head(queue[y][x])

\* A JOIN that is refused, or an NJOIN of a channel that is known: those it
\* names are apart from now on.
LEMMA RefusedTells ==
    ASSUME IInv, TellInv, NEW x, NEW y, NEW take, NEW S, NEW m, Transfer(x, y, take, S, m),
           Keeps(x, y, take, S, m), m.type \in {"JOIN", "NJOIN"},
           status = "running", UNCHANGED <<views, status>>, apart \subseteq apart',
           m.type = "JOIN" => <<m.who, m.chan>> \in apart',
           m.type = "NJOIN" => \A u \in m.users : <<u, m.chan>> \in apart'
    PROVE  TellInv'
<1>1. /\ x \in Servers /\ y \in Servers /\ queue[y][x] # <<>> /\ peers' = peers /\ m \in Msg
      /\ queue[y][x] \in Seq(Msg)
  BY DEF Transfer, Keeps, IInv, TypeInv, Queues
<1>2. /\ \A z, v, c : Member(z, v, c)' <=> Member(z, v, c)
      /\ \A z, c : Members(z, c)' = Members(z, c)
      /\ \A z : Known(z)' = Known(z)
      /\ usr' = usr /\ chan_of' = chan_of
  BY DEF Member, Exists, views, Known, Members
<1>3. ASSUME NEW w \in Servers, NEW z \in peers[w], NEW u \in Users, Route[w][Home[u]] = z
      PROVE  Told(queue'[z][w], Life(u), u, Known(w), Known(z))
  <2>1. PICK A, B, t : A = Known(w) /\ B = Known(z) /\ t = Life(u)
    OBVIOUS
  <2>2. Told(queue[z][w], t, u, A, B)
    BY <1>3, <2>1 DEF TellInv, Knowledge
  <2>3. Telltale(w, z, t, u, A, B, A, B)
    BY <2>2 DEF Telltale
  <2>4. m \notin t.yes /\ m \notin t.no
    BY <1>1, <2>1, LifeOf
  <2>5. w = x /\ z = y /\ take =>
           (u \in A <=> Head(queue[z][w]) \in t.yes \/ (Head(queue[z][w]) \notin t.no /\ u \in A))
    BY <2>4 DEF Keeps
  <2>6. z = x /\ w \in S =>
           /\ u \in B <=> m \in t.yes \/ (m \notin t.no /\ u \in B)
           /\ m \in t.needs => u \in B
           /\ m \in t.bars => u \notin B
    BY DEF Keeps
  <2>7. Told(queue'[z][w], t, u, A, B)
    BY <2>3, <2>5, <2>6, ToldStep
  <2> QED BY <2>1, <2>7
<1>4. ASSUME NEW w \in Servers, NEW z \in peers[w], NEW u \in Users, NEW c \in Chans,
             Route[w][Home[u]] = z, <<u, c>> \notin apart'
      PROVE  Told(queue'[z][w], Stay(u, c), u, Members(w, c), Members(z, c))
  <2>1. PICK A, B, t : A = Members(w, c) /\ B = Members(z, c) /\ t = Stay(u, c)
    OBVIOUS
  <2>2. Told(queue[z][w], t, u, A, B)
    BY <1>4, <2>1 DEF TellInv, Telling
  <2>3. Telltale(w, z, t, u, A, B, A, B)
    BY <2>2 DEF Telltale
  <2>4. m \notin t.yes
    BY <1>1, <1>4, <2>1, StayOf
  <2>5. w = x /\ z = y => m \notin t.no \/ u \notin A
    <3> HAVE w = x /\ z = y
    <3>1. m \in t.bars => u \notin A
      BY <1>1, <2>2, ToldHead DEF Keeps
    <3>2. m \in t.no => m \in t.bars
      BY <1>1, <2>1, StayOf
    <3> QED BY <3>1, <3>2
  <2>6. Told(queue'[z][w], t, u, A, B)
    <3>1. w = x /\ z = y /\ take =>
             (u \in A <=> Head(queue[z][w]) \in t.yes \/ (Head(queue[z][w]) \notin t.no /\ u \in A))
      BY <2>4, <2>5 DEF Keeps
    <3>2. z = x /\ w \in S =>
             /\ u \in B <=> m \in t.yes \/ (m \notin t.no /\ u \in B)
             /\ m \in t.needs => u \in B
             /\ m \in t.bars => u \notin B
      BY DEF Keeps
    <3> QED BY <2>3, <3>1, <3>2, ToldStep
  <2> QED BY <2>1, <2>6
<1>5. Knowledge' /\ Telling'
  BY <1>1, <1>2, <1>3, <1>4 DEF Knowledge, Telling
<1>6. Recorded'
  BY <1>2 DEF TellInv, Recorded
<1>7. ChannelsAreFound'
  BY DEF ChannelsAreFound
<1> QED BY <1>5, <1>6, <1>7 DEF TellInv

LEMMA ReceiveJoinTells ==
    ASSUME IInv, TellInv, NEW x \in Servers, NEW y \in Servers, ReceiveJoin(x, y)
    PROVE  TellInv'
<1>1. PICK m, S : m = Head(queue[y][x]) /\ S = Others(x, y)
  OBVIOUS
<1>2. Receives(x, y, "JOIN") /\ status' = status
  BY DEF ReceiveJoin
<1>3. queue[y][x] # <<>> /\ m.type = "JOIN" /\ status = "running"
  BY <1>1, <1>2, ReceivesIs
<1>4. /\ m.who \in Users /\ m.chan \in Chans /\ usr[x][m.who] # None /\ usr' = usr
      /\ \/ /\ Enter(x, m.who, m.chan) /\ Transfer(x, y, TRUE, Others(x, y), m)
            /\ apart' = apart
         \/ /\ UNCHANGED views /\ Transfer(x, y, TRUE, {}, m)
            /\ apart' = apart \cup {<<m.who, m.chan>>}
  BY <1>1, ReceiveJoinKeeps
<1>5. CASE Enter(x, m.who, m.chan) /\ Transfer(x, y, TRUE, Others(x, y), m) /\ apart' = apart
  <2>1. PICK u \in Users, c \in Chans : u = m.who /\ c = m.chan
    BY <1>4
  <2>2. Spreads(x, y, TRUE, S, m, u)
    BY <1>1, <1>3, <1>5, <2>1, HandlerSpreads
  <2>3. usr[x][u] # None /\ Enter(x, u, c) /\ m.chan = c /\ UNCHANGED <<usr, status, apart>>
    BY <1>2, <1>4, <1>5, <2>1
  <2> QED BY <1>3, <2>2, <2>3, JoinSpreads
<1>6. CASE UNCHANGED views /\ Transfer(x, y, TRUE, {}, m) /\ apart' = apart \cup {<<m.who, m.chan>>}
  <2>1. PICK R, take : R = {} /\ take = TRUE
    OBVIOUS
  <2>2. Transfer(x, y, take, R, m) /\ UNCHANGED <<views, status>> /\ apart \subseteq apart'
    BY <1>2, <1>6, <2>1
  <2>5. Keeps(x, y, take, R, m)
    BY <1>1, <2>1 DEF Keeps
  <2>3. /\ m.type = "JOIN" => <<m.who, m.chan>> \in apart'
        /\ m.type = "NJOIN" => \A u \in m.users : <<u, m.chan>> \in apart'
    BY <1>3, <1>6
  <2>4. m.type \in {"JOIN", "NJOIN"}
    BY <1>3
  <2> QED BY <1>3, <2>2, <2>3, <2>4, <2>5, RefusedTells
<1> QED BY <1>4, <1>5, <1>6

LEMMA ReceivePartTells ==
    ASSUME IInv, TellInv, NEW x \in Servers, NEW y \in Servers, ReceivePart(x, y)
    PROVE  TellInv'
<1>1. PICK m, S : m = Head(queue[y][x]) /\ S = Others(x, y)
  OBVIOUS
<1>2. Receives(x, y, "PART")
  BY DEF ReceivePart
<1>3. /\ queue[y][x] # <<>> /\ m \in Msg /\ m.type = "PART" /\ status = "running"
      /\ y \in peers[x] /\ Route[x][Home[m.who]] = y /\ usr[x][m.who] # None
  BY <1>1, <1>2, ReceivesIs DEF Fits, Outward, Unsigned
<1>4. m.who \in Users /\ m.chan \in Chans
  BY <1>1, ReceivePartKeeps
<1>5. PICK u \in Users, c \in Chans : u = m.who /\ c = m.chan
  BY <1>4
<1>6. <<u, c>> \notin apart => Member(x, u, c)
  <2> HAVE <<u, c>> \notin apart
  <2>1. Told(queue[y][x], Stay(u, c), u, Members(x, c), Members(y, c))
    BY <1>3, <1>5 DEF TellInv, Telling
  <2>2. m \in Stay(u, c).needs
    BY <1>3, <1>5, StayOf
  <2>3. queue[y][x] \in Seq(Msg)
    BY DEF IInv, TypeInv, Queues
  <2>4. u \in Members(x, c)
    BY <1>1, <1>3, <2>1, <2>2, <2>3, ToldHead
  <2> QED BY <2>4 DEF Members
<1>7. CASE Exists(x, c)
  <2>1. Leave(x, u, {c}) /\ UNCHANGED <<usr, status, history>>
    BY <1>1, <1>5, <1>7 DEF ReceivePart
  <2>2. Transfer(x, y, TRUE, S, m)
    <3>1. m.chan = c
      BY <1>5
    <3> QED BY <1>1, <1>7, <3>1, ReceivePartKeeps
  <2>3. Spreads(x, y, TRUE, S, m, u)
    BY <1>1, <1>3, <1>5, <2>2, HandlerSpreads
  <2>4. UNCHANGED <<usr, status, apart>> /\ m.chan = c /\ usr[x][u] # None
    BY <1>3, <1>5, <2>1 DEF history
  <2> QED BY <1>3, <1>6, <2>1, <2>3, <2>4, PartSpreads
<1>8. CASE ~Exists(x, c)
  <2>1. status' = "undefined" /\ UNCHANGED views /\ apart' = apart
    BY <1>1, <1>5, <1>8 DEF ReceivePart, Undefined, history
  <2>2. <<u, c>> \in apart
    BY <1>6, <1>8 DEF Member
  <2>3. ChannelsAreFound'
    BY <2>1, <2>2 DEF ChannelsAreFound
  <2> QED BY <2>1, <2>3, EndedTells
<1> QED BY <1>7, <1>8

\* An NJOIN creates a channel, at a server that is reached by one link alone.
LEMMA CreatedTells ==
    ASSUME IInv, TellInv, NEW x, NEW y, NEW take, NEW S, NEW m, Transfer(x, y, take, S, m),
           Keeps(x, y, take, S, m), m.type = "NJOIN", status = "running", status' = status, usr' = usr,
           apart' = apart, ~Exists(x, m.chan), m.users \subseteq Known(x), Joins(x, m.users, m.chan),
           Records(x, m)
    PROVE  TellInv'
<1>1. /\ x \in Servers /\ y \in Servers /\ queue[y][x] # <<>> /\ peers' = peers /\ m \in Msg
      /\ Fits(m, y, x) /\ x \in peers[y] /\ y # x /\ Route[x][y] = y
  BY FirstMessage DEF Transfer, Keeps
<1>2. peers[x] = {y} /\ \A u \in m.users : Route[x][Home[u]] = y
  BY <1>1 DEF Fits
<1>3. m.chan \in Chans /\ m.users \subseteq Users
  BY <1>1, Fields
<1>4. \A z : Known(z)' = Known(z)
  BY DEF Known
<1>5. ASSUME NEW w \in Servers, NEW z \in peers[w], NEW u \in Users, Route[w][Home[u]] = z
      PROVE  Told(queue'[z][w], Life(u), u, Known(w), Known(z))
  <2>1. PICK A, B, t : A = Known(w) /\ B = Known(z) /\ t = Life(u)
    OBVIOUS
  <2>2. Told(queue[z][w], t, u, A, B)
    BY <1>5, <2>1 DEF TellInv, Knowledge
  <2>3. Telltale(w, z, t, u, A, B, A, B)
    BY <2>2 DEF Telltale
  <2>4. m \notin t.yes /\ m \notin t.no
    BY <1>1, <2>1, LifeOf
  <2>5. w = x /\ z = y /\ take =>
           (u \in A <=> Head(queue[z][w]) \in t.yes \/ (Head(queue[z][w]) \notin t.no /\ u \in A))
    BY <2>4 DEF Keeps
  <2>6. z = x /\ w \in S =>
           /\ u \in B <=> m \in t.yes \/ (m \notin t.no /\ u \in B)
           /\ m \in t.needs => u \in B
           /\ m \in t.bars => u \notin B
    BY DEF Keeps
  <2>7. Told(queue'[z][w], t, u, A, B)
    BY <2>3, <2>5, <2>6, ToldStep
  <2> QED BY <2>1, <2>7
<1>6. ASSUME NEW w \in Servers, NEW z \in peers[w], NEW u \in Users, NEW c \in Chans,
             Route[w][Home[u]] = z, <<u, c>> \notin apart
      PROVE  Told(queue'[z][w], Stay(u, c), u, Members(w, c)', Members(z, c)')
  <2>1. PICK A, B, C, D, t : /\ A = Members(w, c) /\ B = Members(z, c) /\ t = Stay(u, c)
                             /\ C = Members(w, c)' /\ D = Members(z, c)'
    OBVIOUS
  <2>2. Told(queue[z][w], t, u, A, B)
    BY <1>6, <2>1 DEF TellInv, Telling
  <2>3. z \in Servers /\ z # w /\ Route[w][z] = z /\ w \in peers[z]
    BY DEF IInv, TypeInv, Peered
  <2>4. /\ u \in C <=> u \in A \/ (w = x /\ u \in m.users /\ c = m.chan)
        /\ u \in D <=> u \in B \/ (z = x /\ u \in m.users /\ c = m.chan)
    BY <2>1, <2>3 DEF Members, Joins
  <2>5. u \in D <=> u \in B
    <3>1. ASSUME z = x, u \in m.users PROVE FALSE
      <4>1. w = y /\ Route[x][Home[u]] = y
        BY <1>2, <2>3, <3>1
      <4>2. Route[w][Home[u]] = x
        BY <1>6, <3>1
      <4> QED BY <1>1, <4>1, <4>2, OneSide, ServerOf
    <3> QED BY <2>4, <3>1
  <2>6. Telltale(w, z, t, u, A, B, C, D)
    BY <2>2, <2>5 DEF Telltale
  <2>7. w = x => (u \in A => c # m.chan)
    BY <2>1 DEF Members, Member
  <2>8. /\ m \in t.yes <=> m.chan = c /\ u \in m.users
        /\ m \in t.no <=> m.chan = c /\ u \notin m.users
    BY <1>1, <2>1, StayOf
  <2>9. w = x /\ z = y /\ take =>
           (u \in C <=> Head(queue[z][w]) \in t.yes \/ (Head(queue[z][w]) \notin t.no /\ u \in A))
    BY <2>4, <2>7, <2>8 DEF Keeps
  <2>10. ~(w = x /\ z = y /\ take) => (u \in C <=> u \in A)
    <3>1. w = x => z = y /\ take
      BY <1>2 DEF Keeps
    <3> QED BY <2>4, <3>1
  <2>11. z = x /\ w \in S =>
           /\ u \in D <=> m \in t.yes \/ (m \notin t.no /\ u \in B)
           /\ m \in t.needs => u \in B
           /\ m \in t.bars => u \notin B
    BY DEF Keeps
  <2>12. Told(queue'[z][w], t, u, C, D)
    BY <2>5, <2>6, <2>9, <2>10, <2>11, ToldStep
  <2> QED BY <2>1, <2>12
<1>7. Knowledge' /\ Telling'
  BY <1>1, <1>4, <1>5, <1>6 DEF Knowledge, Telling
<1>8. Recorded'
  <2> SUFFICES ASSUME NEW z \in Servers, NEW v \in Users, NEW d \in Chans
               PROVE  /\ Member(z, v, d)' => d \in chan_of'[z][v]
                      /\ d \in chan_of'[z][v] => usr[z][v] # None
                      /\ status = "running" /\ <<v, d>> \notin apart /\ d \in chan_of'[z][v] => Member(z, v, d)'
    BY DEF Recorded
  <2>1. /\ Member(z, v, d) => d \in chan_of[z][v]
        /\ d \in chan_of[z][v] => usr[z][v] # None
        /\ status = "running" /\ <<v, d>> \notin apart /\ d \in chan_of[z][v] => Member(z, v, d)
    BY DEF TellInv, Recorded
  <2>2. d \in chan_of'[z][v] <=> d \in chan_of[z][v] \/ (z = x /\ v \in m.users /\ d = m.chan)
    <3>1. chan_of'[z][v] = IF z = x /\ v \in m.users
                           THEN chan_of[z][v] \cup {m.chan} ELSE chan_of[z][v]
      BY DEF Records
    <3> QED BY <3>1
  <2>3. Member(z, v, d)' <=> Member(z, v, d) \/ (z = x /\ v \in m.users /\ d = m.chan)
    BY DEF Joins
  <2>4. z = x /\ v \in m.users => usr[z][v] # None
    BY DEF Known
  <2> QED BY <2>1, <2>2, <2>3, <2>4
<1>9. ChannelsAreFound'
  BY DEF ChannelsAreFound
<1> QED BY <1>7, <1>8, <1>9 DEF TellInv

LEMMA ReceiveNjoinTells ==
    ASSUME IInv, TellInv, NEW x \in Servers, NEW y \in Servers, ReceiveNjoin(x, y)
    PROVE  TellInv'
<1>1. PICK m : m = Head(queue[y][x])
  OBVIOUS
<1>10. PICK S, take : S = {} /\ take = TRUE
  OBVIOUS
<1>2. Receives(x, y, "NJOIN")
  BY DEF ReceiveNjoin
<1>3. /\ queue[y][x] # <<>> /\ m \in Msg /\ status = "running" /\ Fits(m, y, x)
      /\ y \in peers[x]
  BY <1>1, <1>2, ReceivesIs
<1>4. Keeps(x, y, take, S, m)
  BY <1>1, <1>10 DEF Keeps
<1>5. /\ m.type = "NJOIN" /\ m.chan \in Chans /\ m.users \subseteq Users
      /\ Ignored(x, y, m) \/ Unmade(x, m) \/ Created(x, y, m)
  BY <1>1, ReceiveNjoinKeeps
<1>6. status' = status \/ status' = "undefined"
  BY DEF ReceiveNjoin, Undefined
<1>7. CASE status' # "undefined" /\ Ignored(x, y, m)
  <2>1. Transfer(x, y, take, S, m) /\ UNCHANGED views /\ apart' = apart \cup {<<u, m.chan>> : u \in m.users}
    BY <1>7, <1>10 DEF Ignored
  <2>2. m.type = "NJOIN" => \A u \in m.users : <<u, m.chan>> \in apart'
    BY <2>1
  <2>3. m.type \in {"JOIN", "NJOIN"} /\ (m.type = "JOIN" => <<m.who, m.chan>> \in apart')
    BY <1>5
  <2>4. UNCHANGED <<views, status>> /\ apart \subseteq apart'
    BY <1>6, <1>7, <2>1
  <2> QED BY <1>3, <1>4, <2>1, <2>2, <2>3, <2>4, RefusedTells
<1>8. CASE status' # "undefined" /\ Created(x, y, m)
  <2>1. /\ m.users \subseteq Known(x) /\ Transfer(x, y, take, S, m)
        /\ Joins(x, m.users, m.chan) /\ usr' = usr /\ apart' = apart
    BY <1>8, <1>10 DEF Created
  <2>2. Records(x, m) /\ ~Exists(x, m.chan)
    BY <1>8 DEF Created
  <2>3. status' = status
    BY <1>6, <1>8
  <2> QED BY <1>3, <1>4, <1>5, <2>1, <2>2, <2>3, CreatedTells
<1>9. CASE status' = "undefined"
  <2>1. UNCHANGED views /\ apart' = apart /\ (m.glued \/ ~(m.users \subseteq Known(x)))
    BY <1>1, <1>3, <1>9 DEF ReceiveNjoin, Undefined, history
  <2>2. m.users \subseteq Known(x)
    <3> SUFFICES ASSUME NEW u \in m.users PROVE u \in Known(x)
      OBVIOUS
    <3>1. u \in Users /\ Route[x][Home[u]] = y
      BY <1>3, <1>5 DEF Fits
    <3>2. Told(queue[y][x], Life(u), u, Known(x), Known(y))
      BY <1>3, <3>1 DEF TellInv, Knowledge
    <3>3. m \in Life(u).needs
      BY <1>3, <1>5, <3>1, LifeOf
    <3>4. queue[y][x] \in Seq(Msg)
      BY DEF IInv, TypeInv, Queues
    <3> QED BY <1>1, <1>3, <3>2, <3>3, <3>4, ToldHead
  <2>3. \E c, d \in Chans : c # d
    BY <1>3, <1>5, <2>1, <2>2 DEF Fits
  <2>4. Len(SetToSeq(Chans)) > 1
    <3>1. PICK q : q = SetToSeq(Chans)
      OBVIOUS
    <3>2. ToSet(q) = Chans /\ Len(q) \in Nat /\ DOMAIN q = 1..Len(q)
      BY <3>1, SetToSeqIs, FiniteAssumption
    <3>3. PICK i, j \in 1..Len(q) : q[i] # q[j]
      BY <2>3, <3>2 DEF ToSet
    <3>4. Len(q) > 1
      BY <3>2, <3>3
    <3> QED BY <3>1, <3>4
  <2>5. ChannelsAreFound'
    BY <2>4 DEF ChannelsAreFound
  <2> QED BY <1>9, <2>1, <2>5, EndedTells
<1> QED BY <1>5, <1>7, <1>8, <1>9 DEF Unmade

-----------------------------------------------------------------------------
(* The introduction tells a server that knows nobody. *)

\* r has l NICKs, one for each user of K, and then one NJOIN for each channel of
\* D; L has those it names.
Introduces(r, l, K, D, L) ==
    /\ l \in Nat /\ DOMAIN r = 1..Len(r) /\ Len(r) \in Nat /\ l <= Len(r)
    /\ \A i \in 1..Len(r) : r[i] \in Msg
    /\ \A i \in 1..l : r[i].type = "NICK" /\ r[i].who \in K
    /\ \A i, j \in 1..l : r[i].who = r[j].who => i = j
    /\ \A u \in K : \E i \in 1..l : r[i].who = u
    /\ \A i \in 1..Len(r) : l < i =>
          /\ r[i].type \in {"NJOIN", "STOPIC", "SMODE"}
          /\ r[i].type = "NJOIN" => r[i].chan \in D /\ r[i].users = L[r[i].chan]
    /\ \A i, j \in 1..Len(r) :
          r[i].type = "NJOIN" /\ r[j].type = "NJOIN" /\ r[i].chan = r[j].chan => i = j
    /\ \A c \in D : \E i \in 1..Len(r) : l < i /\ r[i].type = "NJOIN" /\ r[i].chan = c

LEMMA IntroductionIntroduces ==
    ASSUME IInv, NEW p \in Servers
    PROVE  \E l : Introduces(Introduction(p), l, Known(p), DOMAIN channels[p],
                             [c \in DOMAIN channels[p] |-> Listed(channels[p][c])])
<1>1. PICK us, l, b, r : Parts(p, us, l, b, r)
  BY DEF Parts
<1>2. PICK cs : cs = SetToSeq(DOMAIN channels[p])
  OBVIOUS
<1>3. ViewsTyped
  BY DEF IInv, TypeInv
<1>4. /\ r \in Seq(Msg) /\ l \in Nat /\ Len(b) \in Nat /\ Len(r) = l + Len(b)
      /\ DOMAIN r = 1..(l + Len(b))
      /\ \A i \in 1..l : r[i] = NICKof(us[i]) /\ us[i] \in Known(p)
      /\ \A i \in 1..Len(b) : r[l + i] = b[i]
      /\ \A i, j \in 1..l : us[i] = us[j] => i = j
      /\ ToSet(us) = Known(p) /\ DOMAIN us = 1..l
  BY <1>1, <1>3, IntroductionIs
<1>5. PICK k \in Nat : k = Len(cs)
  BY <1>2, <1>3, BurstIs
<1>6. /\ Len(b) = 3 * k
      /\ \A i, j \in 1..k : cs[i] = cs[j] => i = j
      /\ \A i \in 1..k : cs[i] \in DOMAIN channels[p]
      /\ ToSet(cs) = DOMAIN channels[p] /\ DOMAIN cs = 1..k
  BY <1>1, <1>2, <1>3, <1>5, BurstIs DEF Parts
<1>7. /\ \A n \in 1..(3 * k) :
            /\ b[n].type \in {"NJOIN", "STOPIC", "SMODE"}
            /\ b[n].type = "NJOIN" => \E j \in 1..k : n = 3 * j - 2 /\ b[n] = NJOINof(p, cs[j], j)
      /\ \A j \in 1..k : b[3 * j - 2] = NJOINof(p, cs[j], j)
  <2>1. b = Burst(p)
    BY <1>1 DEF Parts
  <2>2. \A n \in 1..(3 * Len(cs)) :
           /\ Burst(p)[n].type \in {"NJOIN", "STOPIC", "SMODE"}
           /\ Burst(p)[n].type = "NJOIN" =>
                 \E j \in 1..Len(cs) : n = 3 * j - 2 /\ Burst(p)[n] = NJOINof(p, cs[j], j)
    <3> TAKE n \in 1..(3 * Len(cs))
    <3>1. Burst(p)[n].type \in {"NJOIN", "STOPIC", "SMODE"}
      BY <1>2, <1>3, BurstIs
    <3>2. Burst(p)[n].type = "NJOIN" =>
             \E j \in 1..Len(cs) : n = 3 * j - 2 /\ Burst(p)[n] = NJOINof(p, cs[j], j)
      BY <1>2, <1>3, BurstIs
    <3> QED BY <3>1, <3>2
  <2>3. \A j \in 1..Len(cs) : Burst(p)[3 * j - 2] = NJOINof(p, cs[j], j)
    BY <1>2, <1>3, BurstIs
  <2> QED BY <1>5, <2>1, <2>2, <2>3
<1>8. \A j \in 1..k : /\ NJOINof(p, cs[j], j).type = "NJOIN" /\ NJOINof(p, cs[j], j).chan = cs[j]
                      /\ NJOINof(p, cs[j], j).users = Listed(channels[p][cs[j]])
  BY <1>3, <1>6, BurstMessages
<1>9. \A i \in 1..l : r[i].type = "NICK" /\ r[i].who = us[i]
  <2>1. \A i \in 1..l : us[i] \in Users
    BY <1>4 DEF Known
  <2> QED BY <1>4, <2>1, UserMessages
<1>10. ASSUME NEW i \in 1..Len(r), l < i
       PROVE  /\ i - l \in 1..(3 * k) /\ r[i] = b[i - l]
  <2>1. i - l \in 1..Len(b) /\ l + (i - l) = i
    BY <1>4, <1>10
  <2> QED BY <1>4, <1>6, <2>1
<1>11. PICK L : L = [c \in DOMAIN channels[p] |-> Listed(channels[p][c])]
  OBVIOUS
<1>12. ASSUME NEW i \in 1..Len(r), r[i].type = "NJOIN"
       PROVE  l < i /\ \E j \in 1..k : i = l + (3 * j - 2) /\ r[i].chan = cs[j] /\ r[i].users = L[cs[j]]
  <2>1. l < i
    BY <1>4, <1>9, <1>12
  <2>2. i - l \in 1..(3 * k) /\ r[i] = b[i - l]
    BY <1>10, <2>1
  <2>3. PICK j \in 1..k : i - l = 3 * j - 2 /\ b[i - l] = NJOINof(p, cs[j], j)
    BY <1>7, <1>12, <2>2
  <2>4. i = l + (3 * j - 2)
    BY <1>4, <2>3
  <2> QED BY <1>6, <1>8, <1>11, <2>1, <2>2, <2>3, <2>4
<1>13. \A i \in 1..Len(r) : r[i] \in Msg
  <2>1. DOMAIN r = 1..Len(r)
    BY <1>4
  <2> QED BY <1>4, <2>1, ElementOfSeq
<1>14. \A u \in Known(p) : \E i \in 1..l : r[i].who = u
  BY <1>4, <1>9 DEF ToSet
<1>15. \A i \in 1..Len(r) : l < i =>
          /\ r[i].type \in {"NJOIN", "STOPIC", "SMODE"}
          /\ r[i].type = "NJOIN" => r[i].chan \in DOMAIN channels[p] /\ r[i].users = L[r[i].chan]
  BY <1>6, <1>7, <1>10, <1>12
<1>16. ASSUME NEW i \in 1..Len(r), NEW j \in 1..Len(r),
              r[i].type = "NJOIN", r[j].type = "NJOIN", r[i].chan = r[j].chan
       PROVE  i = j
  <2>1. PICK g \in 1..k : i = l + (3 * g - 2) /\ r[i].chan = cs[g]
    BY <1>12, <1>16
  <2>2. PICK h \in 1..k : j = l + (3 * h - 2) /\ r[j].chan = cs[h]
    BY <1>12, <1>16
  <2>3. g = h
    BY <1>6, <1>16, <2>1, <2>2
  <2> QED BY <2>1, <2>2, <2>3
<1>17. ASSUME NEW c \in DOMAIN channels[p]
       PROVE  \E i \in 1..Len(r) : l < i /\ r[i].type = "NJOIN" /\ r[i].chan = c
  <2>1. PICK j \in 1..k : cs[j] = c
    BY <1>6 DEF ToSet
  <2>2. 3 * j - 2 \in 1..(3 * k) /\ l + (3 * j - 2) \in 1..Len(r) /\ l < l + (3 * j - 2)
    BY <1>4, <1>6
  <2>3. r[l + (3 * j - 2)] = NJOINof(p, cs[j], j)
    BY <1>4, <1>6, <1>7, <2>2
  <2> QED BY <1>8, <2>1, <2>2, <2>3
<1>18. Introduces(r, l, Known(p), DOMAIN channels[p], L)
  <2>1. l \in Nat /\ DOMAIN r = 1..Len(r) /\ Len(r) \in Nat /\ l <= Len(r)
    BY <1>4
  <2>2. \A i \in 1..l : r[i].type = "NICK" /\ r[i].who \in Known(p)
    BY <1>4, <1>9
  <2>3. \A i, j \in 1..l : r[i].who = r[j].who => i = j
    BY <1>4, <1>9
  <2> QED BY <1>13, <1>14, <1>15, <1>16, <1>17, <2>1, <2>2, <2>3 DEF Introduces
<1> QED BY <1>1, <1>11, <1>18 DEF Parts

LEMMA LifeIntroduced ==
    ASSUME NEW r, NEW l, NEW K, NEW D, NEW L, Introduces(r, l, K, D, L),
           NEW u \in Users, NEW A, u \notin A, \A c \in D : L[c] \subseteq K
    PROVE  Told(r, Life(u), u, A, K)
<1>1. PICK t : t = Life(u)
  OBVIOUS
<1>2. /\ l \in Nat /\ DOMAIN r = 1..Len(r) /\ Len(r) \in Nat /\ l <= Len(r)
      /\ \A i \in 1..l : i \in 1..Len(r) /\ i < Len(r) + 1
  BY DEF Introduces
<1>3. \A i \in 1..Len(r) : i \in 1..l \/ l < i
  BY <1>2
<1>4. \A i \in 1..Len(r) :
         /\ r[i] \in t.yes <=> i \in 1..l /\ r[i].who = u
         /\ r[i] \in t.bars <=> i \in 1..l /\ r[i].who = u
         /\ r[i] \notin t.no
         /\ r[i] \in t.needs => l < i /\ u \in K
  <2> SUFFICES ASSUME NEW i \in 1..Len(r)
               PROVE  /\ r[i] \in t.yes <=> i \in 1..l /\ r[i].who = u
                      /\ r[i] \in t.bars <=> i \in 1..l /\ r[i].who = u
                      /\ r[i] \notin t.no
                      /\ r[i] \in t.needs => l < i /\ u \in K
    OBVIOUS
  <2>1. r[i] \in Msg
    BY DEF Introduces
  <2>2. CASE i \in 1..l
    <3>1. r[i].type = "NICK" /\ ~(l < i)
      BY <1>2, <2>2 DEF Introduces
    <3> QED BY <1>1, <2>1, <2>2, <3>1, LifeOf DEF Unsigned
  <2>3. CASE l < i
    <3>1. /\ r[i].type \in {"NJOIN", "STOPIC", "SMODE"} /\ i \notin 1..l
          /\ r[i].type = "NJOIN" => r[i].users \subseteq K
      BY <1>2, <2>3 DEF Introduces
    <3> QED BY <1>1, <2>1, <2>3, <3>1, LifeOf DEF Unsigned
  <2> QED BY <1>3, <2>2, <2>3
<1>5. \A n : Holds(r, t, u, A, n) <=> \E i \in 1..l : i < n /\ r[i].who = u
  <2> SUFFICES ASSUME NEW n PROVE Holds(r, t, u, A, n) <=> \E i \in 1..l : i < n /\ r[i].who = u
    OBVIOUS
  <2>1. Holds(r, t, u, A, n) <=> \E i \in 1..Len(r) : i < n /\ r[i] \in t.yes
    BY <1>2, <1>4 DEF Holds
  <2> QED BY <1>2, <1>4, <2>1
<1>6. Holds(r, t, u, A, Len(r) + 1) <=> u \in K
  BY <1>2, <1>5 DEF Introduces
<1>7. ASSUME NEW i \in 1..Len(r)
      PROVE  /\ r[i] \in t.needs => Holds(r, t, u, A, i)
             /\ r[i] \in t.bars => ~Holds(r, t, u, A, i)
  <2>1. ASSUME r[i] \in t.needs PROVE Holds(r, t, u, A, i)
    <3>1. l < i /\ u \in K
      BY <1>4, <2>1
    <3>2. PICK j \in 1..l : r[j].who = u
      BY <3>1 DEF Introduces
    <3>3. j < i
      BY <1>2, <3>1
    <3> QED BY <1>5, <3>2, <3>3
  <2>2. ASSUME r[i] \in t.bars, Holds(r, t, u, A, i) PROVE FALSE
    <3>1. i \in 1..l /\ r[i].who = u
      BY <1>4, <2>2
    <3>2. PICK j \in 1..l : j < i /\ r[j].who = u
      BY <1>5, <2>2
    <3>3. i = j
      BY <3>1, <3>2 DEF Introduces
    <3> QED BY <1>2, <3>2, <3>3
  <2> QED BY <2>1, <2>2
<1> QED BY <1>1, <1>2, <1>6, <1>7 DEF Told

LEMMA StayIntroduced ==
    ASSUME NEW r, NEW l, NEW K, NEW D, NEW L, Introduces(r, l, K, D, L),
           NEW u \in Users, NEW c \in Chans, NEW A, u \notin A, NEW B, u \in B <=> c \in D /\ u \in L[c]
    PROVE  Told(r, Stay(u, c), u, A, B)
<1>1. PICK t : t = Stay(u, c)
  OBVIOUS
<1>2. /\ l \in Nat /\ DOMAIN r = 1..Len(r) /\ Len(r) \in Nat /\ l <= Len(r)
      /\ \A i \in 1..Len(r) : i \in 1..l \/ l < i
  BY DEF Introduces
<1>3. \A i \in 1..Len(r) :
         /\ r[i] \in t.yes <=> r[i].type = "NJOIN" /\ r[i].chan = c /\ u \in B
         /\ r[i] \in t.no /\ l < i => r[i].type = "NJOIN" /\ r[i].chan = c
         /\ r[i] \notin t.needs
         /\ r[i] \in t.bars <=> r[i].type = "NJOIN" /\ r[i].chan = c
  <2> SUFFICES ASSUME NEW i \in 1..Len(r)
               PROVE  /\ r[i] \in t.yes <=> r[i].type = "NJOIN" /\ r[i].chan = c /\ u \in B
                      /\ r[i] \in t.no /\ l < i => r[i].type = "NJOIN" /\ r[i].chan = c
                      /\ r[i] \notin t.needs
                      /\ r[i] \in t.bars <=> r[i].type = "NJOIN" /\ r[i].chan = c
    OBVIOUS
  <2>1. r[i] \in Msg
    BY DEF Introduces
  <2>2. CASE i \in 1..l
    <3>1. r[i].type = "NICK" /\ ~(l < i)
      BY <1>2, <2>2 DEF Introduces
    <3> QED BY <1>1, <2>1, <2>2, <3>1, StayOf
  <2>3. CASE l < i
    <3>1. /\ r[i].type \in {"NJOIN", "STOPIC", "SMODE"}
          /\ r[i].type = "NJOIN" => r[i].chan \in D /\ r[i].users = L[r[i].chan]
      BY <2>3 DEF Introduces
    <3> QED BY <1>1, <2>1, <2>3, <3>1, StayOf
  <2> QED BY <1>2, <2>2, <2>3
<1>4. \A i, j \in 1..Len(r) :
         r[i].type = "NJOIN" /\ r[j].type = "NJOIN" /\ r[i].chan = r[j].chan => i = j
  BY DEF Introduces
<1>5. Holds(r, t, u, A, Len(r) + 1) <=> u \in B
  <2>1. ASSUME u \in B PROVE Holds(r, t, u, A, Len(r) + 1)
    <3>1. PICK i \in 1..Len(r) : l < i /\ r[i].type = "NJOIN" /\ r[i].chan = c
      BY <2>1 DEF Introduces
    <3>2. r[i] \in t.yes /\ i < Len(r) + 1
      BY <1>2, <1>3, <2>1, <3>1
    <3>3. ASSUME NEW j \in 1..Len(r), i < j PROVE r[j] \notin t.no
      <4>1. l < j /\ i # j
        BY <1>2, <3>1, <3>3
      <4> QED BY <1>3, <1>4, <3>1, <4>1
    <3> QED BY <1>2, <3>2, <3>3 DEF Holds
  <2>2. ASSUME Holds(r, t, u, A, Len(r) + 1) PROVE u \in B
    BY <1>2, <1>3, <2>2 DEF Holds
  <2> QED BY <2>1, <2>2
<1>6. ASSUME NEW i \in 1..Len(r), r[i] \in t.bars, Holds(r, t, u, A, i)
      PROVE  FALSE
  <2>1. PICK j \in 1..Len(r) : j < i /\ r[j] \in t.yes
    BY <1>2, <1>6 DEF Holds
  <2>2. i = j
    BY <1>3, <1>4, <1>6, <2>1
  <2> QED BY <1>2, <2>1, <2>2
<1> QED BY <1>1, <1>2, <1>3, <1>5, <1>6 DEF Told

LEMMA LinkUpTells ==
    ASSUME IInv, TellInv, NEW y \in Servers, NEW p \in Servers, LinkUp(y, p)
    PROVE  TellInv'
<1>1. /\ status = "running" /\ y \in Late /\ peers[y] = {} /\ p # y /\ Route[y][p] = p /\ p \notin Late
      /\ peers' = [peers EXCEPT ![y] = {p}, ![p] = @ \cup {y}]
      /\ UNCHANGED <<views, given, said, heard>>
      /\ apart' = apart \cup UNION {(Listed(channels[p][c]) \ channels[p][c].users) \X {c} :
                                       c \in DOMAIN channels[p]}
  BY DEF LinkUp
<1>2. /\ Route[p][y] = y /\ ~Up(y) /\ \A z \in Servers : y \notin peers[z]
  BY <1>1, NewcomerReaches
<1>3. \A a \in Servers : peers'[a] = IF a = y THEN {p} ELSE IF a = p THEN peers[p] \cup {y} ELSE peers[a]
  BY <1>1 DEF IInv, TypeInv
<1>4. /\ \A z, c : Members(z, c)' = Members(z, c)
      /\ \A z, v, c : Member(z, v, c)' <=> Member(z, v, c)
      /\ \A z : Known(z)' = Known(z)
      /\ usr' = usr /\ chan_of' = chan_of
  BY <1>1 DEF Member, Exists, views, Known, Members
<1>5. /\ \A u \in Users : usr[y][u] = None
      /\ \A u \in Users, c \in Chans : u \notin Members(y, c)
      /\ Known(y) = {}
  <2>1. \A u \in Users : usr[y][u] = None
    BY <1>2 DEF IInv, UsersFit
  <2> QED BY <2>1, NoMember DEF Known, Members
<1>6. apart \subseteq apart'
  BY <1>1
<1>7. \A c \in DOMAIN channels[p] :
         /\ c \in Chans /\ Listed(channels[p][c]) \subseteq Users
         /\ channels[p][c].users \subseteq Listed(channels[p][c])
         /\ \A u \in Listed(channels[p][c]) : <<u, c>> \notin apart' => Member(p, u, c)
  <2> SUFFICES ASSUME NEW c \in DOMAIN channels[p]
               PROVE  /\ c \in Chans /\ Listed(channels[p][c]) \subseteq Users
                      /\ channels[p][c].users \subseteq Listed(channels[p][c])
                      /\ \A u \in Listed(channels[p][c]) : <<u, c>> \notin apart' => Member(p, u, c)
    OBVIOUS
  <2>1. channels[p][c] \in Channel /\ c \in Chans
    BY ChannelAt DEF IInv, TypeInv
  <2>2. Listed(channels[p][c]) \subseteq Users /\ channels[p][c].users \subseteq Listed(channels[p][c])
    BY <2>1, ListedTyped
  <2>3. \A u \in Listed(channels[p][c]) \ channels[p][c].users : <<u, c>> \in apart'
    <3> TAKE u \in Listed(channels[p][c]) \ channels[p][c].users
    <3>1. <<u, c>> \in (Listed(channels[p][c]) \ channels[p][c].users) \X {c}
      OBVIOUS
    <3> QED BY <1>1, <3>1
  <2> QED BY <2>1, <2>2, <2>3 DEF Member, Exists
<1>8. Recorded'
  BY <1>4, <1>6, <1>1 DEF TellInv, Recorded
<1>9. CASE status' # "running"
  <2>1. status' = "undefined" /\ ~(\A c \in DOMAIN channels[p] : Listed(channels[p][c]) \subseteq Known(p))
    BY <1>1, <1>9 DEF LinkUp
  <2>2. PICK c \in DOMAIN channels[p] : \E u \in Listed(channels[p][c]) : u \notin Known(p)
    BY <2>1
  <2>6. PICK u \in Listed(channels[p][c]) : u \notin Known(p)
    BY <2>2
  <2>3. ~Member(p, u, c)
    BY <1>7, <2>6 DEF TellInv, Recorded, Known
  <2>4. <<u, c>> \in apart'
    BY <1>7, <2>3
  <2>5. ChannelsAreFound'
    BY <2>4 DEF ChannelsAreFound
  <2> QED BY <1>1, <1>9, <2>5, EndedTells
<1>10. CASE status' = "running"
  <2>1. /\ \A c \in DOMAIN channels[p] : Listed(channels[p][c]) \subseteq Known(p)
        /\ queue' = [queue EXCEPT ![p][y] = Introduction(p)]
    BY <1>10 DEF LinkUp
  <2>2. PICK r, K, D, L : /\ r = Introduction(p) /\ K = Known(p) /\ D = DOMAIN channels[p]
                          /\ L = [c \in DOMAIN channels[p] |-> Listed(channels[p][c])]
    OBVIOUS
  <2>3. PICK l : Introduces(r, l, K, D, L)
    BY <2>2, IntroductionIntroduces
  <2>4. \A a, b \in Servers : queue'[a][b] = IF a = p /\ b = y THEN r ELSE queue[a][b]
    BY <2>1, <2>2 DEF IInv, TypeInv, Queues
  <2>5. queue[y][p] = <<>>
    BY <1>1 DEF IInv, Peered
  <2>6. \A u \in Users : Route[p][Home[u]] = y => u \notin Known(p)
    <3> TAKE u \in Users
    <3> HAVE Route[p][Home[u]] = y
    <3>1. ASSUME u \in Known(p) PROVE FALSE
      <4>1. usr[p][u] = y /\ Up(p) /\ Up(Home[u]) /\ Home[u] \in Servers
        BY <3>1, ServerOf DEF IInv, UsersFit, Known
      <4>2. CASE Home[u] = p
        BY <1>1, <4>1, <4>2, NextHop
      <4>3. CASE Home[u] # p
        BY <1>2, <4>1, <4>3 DEF IInv, Connected
      <4> QED BY <4>2, <4>3
    <3> QED BY <3>1
  <2>7. ASSUME NEW x \in Servers, NEW z \in peers'[x]
        PROVE  \/ x = y /\ z = p
               \/ x = p /\ z = y
               \/ z \in peers[x] /\ z \in Servers /\ queue'[z][x] = queue[z][x]
    <3>1. z \in peers[x] => z \in Servers /\ x # y /\ z # y
      BY <1>1, <1>2 DEF IInv, TypeInv
    <3> QED BY <1>3, <2>4, <3>1
  <2>8. ASSUME NEW x \in Servers, NEW z \in peers'[x], NEW u \in Users, Route[x][Home[u]] = z
        PROVE  Told(queue'[z][x], Life(u), u, Known(x), Known(z))
    <3>1. CASE x = y /\ z = p
      <4>1. \A c \in D : L[c] \subseteq K
        BY <2>1, <2>2
      <4>2. u \notin Known(y)
        BY <1>5
      <4>3. Told(r, Life(u), u, Known(y), K)
        BY <2>3, <4>1, <4>2, LifeIntroduced
      <4> QED BY <2>2, <2>4, <3>1, <4>3
    <3>2. CASE x = p /\ z = y
      <4>1. u \notin Known(p) /\ u \notin Known(y)
        BY <1>5, <2>6, <2>8, <3>2
      <4>2. queue'[z][x] = <<>>
        BY <1>1, <2>4, <2>5, <3>2
      <4> QED BY <3>2, <4>1, <4>2 DEF Told, Holds
    <3>3. CASE z \in peers[x] /\ queue'[z][x] = queue[z][x]
      BY <1>1, <2>8, <3>3 DEF TellInv, Knowledge
    <3> QED BY <2>7, <3>1, <3>2, <3>3
  <2>9. ASSUME NEW x \in Servers, NEW z \in peers'[x], NEW u \in Users, NEW c \in Chans,
               Route[x][Home[u]] = z, <<u, c>> \notin apart'
        PROVE  Told(queue'[z][x], Stay(u, c), u, Members(x, c), Members(z, c))
    <3>1. CASE x = y /\ z = p
      <4>1. u \in Members(p, c) <=> c \in D /\ u \in L[c]
        BY <1>7, <2>2, <2>9 DEF Members, Member, Exists
      <4>2. u \notin Members(y, c)
        BY <1>5
      <4>3. Told(r, Stay(u, c), u, Members(y, c), Members(p, c))
        BY <2>3, <4>1, <4>2, StayIntroduced
      <4> QED BY <2>4, <3>1, <4>3
    <3>2. CASE x = p /\ z = y
      <4>1. usr[p][u] = None
        BY <2>6, <2>9, <3>2 DEF Known
      <4>2. u \notin Members(p, c) /\ u \notin Members(y, c)
        BY <1>5, <4>1, NoMember DEF Members
      <4>3. queue'[z][x] = <<>>
        BY <1>1, <2>4, <2>5, <3>2
      <4> QED BY <3>2, <4>2, <4>3 DEF Told, Holds
    <3>3. CASE z \in peers[x] /\ queue'[z][x] = queue[z][x]
      BY <1>1, <1>6, <2>9, <3>3 DEF TellInv, Telling
    <3> QED BY <2>7, <3>1, <3>2, <3>3
  <2>10. Knowledge' /\ Telling'
    BY <1>4, <2>8, <2>9 DEF Knowledge, Telling
  <2>11. ChannelsAreFound'
    BY <1>10 DEF ChannelsAreFound
  <2> QED BY <1>8, <2>10, <2>11 DEF TellInv
<1> QED BY <1>9, <1>10

-----------------------------------------------------------------------------
LEMMA InitTells ==
    ASSUME Init
    PROVE  TellInv
<1>1. /\ \A x \in Servers : peers[x] = {y \in Servers \ (Late \cup {x}) : x \notin Late /\ Route[x][y] = y}
      /\ \A x \in Servers, u \in Users :
            usr[x][u] = IF x \in Late \/ Home[u] \in Late THEN None ELSE Route[x][Home[u]]
      /\ \A x \in Servers : channels[x] = [c \in IF x \in Late THEN {} ELSE Chans |->
                                              NewChannel(Founders, {Creator}, {})]
      /\ \A x \in Servers, u \in Users : chan_of[x][u] = IF u \in Founders /\ x \notin Late THEN Chans ELSE {}
      /\ \A x, y \in Servers : queue[x][y] = <<>>
      /\ status = "running"
  BY DEF Init
<1>2. \A x \in Servers, u \in Users : usr[x][u] # None <=> x \notin Late /\ Home[u] \notin Late
  BY <1>1, NextHop, ServerOf, NoneAssumption
<1>3. \A x \in Servers, u \in Users, c \in Chans : Member(x, u, c) <=> x \notin Late /\ u \in Founders
  <2>1. NewChannel(Founders, {Creator}, {}).users = Founders
    BY DEF NewChannel
  <2> SUFFICES ASSUME NEW x \in Servers, NEW u \in Users, NEW c \in Chans
               PROVE  Member(x, u, c) <=> x \notin Late /\ u \in Founders
    OBVIOUS
  <2>2. CASE x \in Late
    <3>1. DOMAIN channels[x] = {}
      BY <1>1, <2>2
    <3> QED BY <2>2, <3>1 DEF Member, Exists
  <2>3. CASE x \notin Late
    <3>1. channels[x] = [d \in Chans |-> NewChannel(Founders, {Creator}, {})]
      BY <1>1, <2>3
    <3>2. channels[x][c].users = Founders
      BY <2>1, <3>1
    <3> QED BY <2>3, <3>1, <3>2 DEF Member, Exists
  <2> QED BY <2>2, <2>3
<1>4. ASSUME NEW x \in Servers, NEW y \in peers[x], NEW t, NEW u, NEW A, NEW B, u \in A <=> u \in B
      PROVE  Told(queue[y][x], t, u, A, B)
  <2>1. queue[y][x] = <<>>
    BY <1>1
  <2> QED BY <1>4, <2>1 DEF Told, Holds
<1>5. ASSUME NEW x \in Servers, NEW y \in peers[x] PROVE y \in Servers /\ x \notin Late /\ y \notin Late
  BY <1>1
<1>6. Knowledge
  BY <1>2, <1>4, <1>5 DEF Knowledge, Known
<1>7. Telling
  BY <1>3, <1>4, <1>5 DEF Telling, Members
<1>8. Recorded
  BY <1>1, <1>2, <1>3, FoundersAssumption DEF Recorded
<1>9. ChannelsAreFound
  BY <1>1 DEF ChannelsAreFound
<1> QED BY <1>6, <1>7, <1>8, <1>9 DEF TellInv

LEMMA CommandsTell ==
    ASSUME IInv, TellInv, Command
    PROVE  TellInv'
<1>1. PICK u \in Users :
         \/ NICK(u) \/ QUIT(u)
         \/ \E v \in Users : PrivmsgUser(u, v)
         \/ \E z \in Asked : VERSION(u, z)
         \/ \E c \in Chans :
               \/ JOIN(u, c) \/ PART(u, c) \/ PRIVMSG(u, c)
               \/ \E v \in Users : KICK(u, v, c)
               \/ \E m \in Modes, on \in BOOLEAN : MODE(u, c, m, on)
               \/ \E r \in Rights, on \in BOOLEAN, v \in Users : ModeRight(u, c, r, on, v)
               \/ \E t \in Topics \cup {None} : TOPIC(u, c, t)
  BY DEF Command
<1>2. CASE NICK(u) \/ QUIT(u)
  BY <1>2, NickTells, QuitTells
<1>3. CASE \E v \in Users : PrivmsgUser(u, v)
  BY <1>3, PrivmsgUserTells
<1>4. CASE \E z \in Asked : VERSION(u, z)
  BY <1>4, VersionTells, LateAssumption
<1>5. ASSUME NEW c \in Chans,
             \/ JOIN(u, c) \/ PART(u, c) \/ PRIVMSG(u, c)
             \/ \E v \in Users : KICK(u, v, c)
             \/ \E m \in Modes, on \in BOOLEAN : MODE(u, c, m, on)
             \/ \E r \in Rights, on \in BOOLEAN, v \in Users : ModeRight(u, c, r, on, v)
             \/ \E t \in Topics \cup {None} : TOPIC(u, c, t)
      PROVE  TellInv'
  <2>1. CASE JOIN(u, c) \/ PART(u, c) \/ PRIVMSG(u, c)
    BY <2>1, JoinTells, PartTells, PrivmsgTells
  <2>2. CASE \E v \in Users : KICK(u, v, c)
    BY <2>2, KickTells
  <2>3. CASE \E m \in Modes, on \in BOOLEAN : MODE(u, c, m, on)
    BY <2>3, ModeTells
  <2>4. CASE \E r \in Rights, on \in BOOLEAN, v \in Users : ModeRight(u, c, r, on, v)
    BY <2>4, ModeRightTells
  <2>5. CASE \E t \in Topics \cup {None} : TOPIC(u, c, t)
    BY <2>5, TopicTells
  <2> QED BY <1>5, <2>1, <2>2, <2>3, <2>4, <2>5
<1> QED BY <1>1, <1>2, <1>3, <1>4, <1>5

LEMMA HandlersTell ==
    ASSUME IInv, TellInv, NEW x \in Servers, NEW y \in Servers, Handle(x, y)
    PROVE  TellInv'
<1>1. CASE ReceiveQuery(x, y)
  BY <1>1, DiesTells DEF ReceiveQuery
<1>2. CASE ReceiveNick(x, y) \/ ReceiveQuit(x, y) \/ ReceiveJoin(x, y) \/ ReceivePart(x, y)
  BY <1>2, ReceiveNickTells, ReceiveQuitTells, ReceiveJoinTells, ReceivePartTells
<1>3. CASE ReceiveKick(x, y) \/ ReceiveMode(x, y) \/ ReceiveRight(x, y) \/ ReceiveTopic(x, y)
  BY <1>3, ReceiveKickTells, ReceiveModeTells, ReceiveRightTells, ReceiveTopicTells
<1>4. CASE ReceivePrivmsg(x, y) \/ ReceivePrivmsgUser(x, y) \/ ReceiveVersion(x, y) \/ ReceiveAnswer(x, y)
  BY <1>4, ReceivePrivmsgTells, ReceivePrivmsgUserTells, ReceiveVersionTells, ReceiveAnswerTells
<1>5. CASE ReceiveNjoin(x, y) \/ ReceiveServerTopic(x, y) \/ ReceiveServerMode(x, y)
  BY <1>5, ReceiveNjoinTells, ReceiveServerTopicTells, ReceiveServerModeTells
<1> QED BY <1>1, <1>2, <1>3, <1>4, <1>5 DEF Handle

LEMMA UnchangedTells ==
    ASSUME TellInv, UNCHANGED vars
    PROVE  TellInv'
<1>1. UNCHANGED views /\ peers' = peers /\ queue' = queue /\ status' = status /\ apart' = apart
  BY DEF vars, history
<1>2. usr' = usr /\ chan_of' = chan_of /\ channels' = channels
  BY <1>1 DEF views
<1>3. /\ \A z, c : Members(z, c)' = Members(z, c)
      /\ \A z, v, c : Member(z, v, c)' <=> Member(z, v, c)
      /\ \A z : Known(z)' = Known(z)
  BY <1>2 DEF Member, Exists, Known, Members
<1>4. Knowledge' /\ Telling'
  BY <1>1, <1>3 DEF TellInv, Knowledge, Telling
<1>5. Recorded'
  BY <1>1, <1>2, <1>3 DEF TellInv, Recorded
<1>6. ChannelsAreFound'
  BY <1>1 DEF TellInv, ChannelsAreFound
<1> QED BY <1>4, <1>5, <1>6 DEF TellInv

\* On every link of a running process the messages under way make of what the
\* far end knows of users and members what the near end knows of them.
THEOREM Truth == Spec => []TellInv
<1>1. Init => TellInv
  BY InitTells
<1>2. IInv /\ TellInv /\ [Next]_vars => TellInv'
  <2> SUFFICES ASSUME IInv, TellInv, [Next]_vars PROVE TellInv'
    OBVIOUS
  <2>1. CASE Command
    BY <2>1, CommandsTell
  <2>2. CASE \E x, y \in Servers : Handle(x, y) \/ LinkUp(x, y)
    BY <2>2, HandlersTell, LinkUpTells
  <2>3. CASE UNCHANGED vars
    BY <2>3, UnchangedTells
  <2> QED BY <2>1, <2>2, <2>3 DEF Next
<1> QED BY <1>1, <1>2, Invariance, PTL DEF Spec

LEMMA WillBeMemberIs ==
    ASSUME IInv, NEW x \in Servers, NEW y \in Servers, NEW u \in Users, NEW c \in Chans
    PROVE  WillBeMember(x, y, u, c) <=>
              Holds(queue[y][x], Stay(u, c), u, Members(x, c), Len(queue[y][x]) + 1)
<1>1. PICK q : q = queue[y][x]
  OBVIOUS
<1>2. q \in Seq(Msg) /\ Len(q) \in Nat /\ DOMAIN q = 1..Len(q) /\ \A i \in DOMAIN q : q[i] \in Msg
  BY <1>1, ElementOfSeq DEF IInv, TypeInv, Queues
<1>3. PICK t : t = Stay(u, c)
  OBVIOUS
<1>4. \A i \in DOMAIN q :
         /\ q[i] \in t.yes <=> q[i] = JOINof(u, c) \/ (q[i].type = "NJOIN" /\ q[i].chan = c /\ u \in q[i].users)
         /\ q[i] \in t.no <=> \/ q[i] \in {NICKof(u), QUITof(u), PARTof(u, c)}
                              \/ q[i].type = "NJOIN" /\ q[i].chan = c /\ u \notin q[i].users
  BY <1>2, <1>3 DEF Stay
<1>5. \A i \in DOMAIN q : i < Len(q) + 1 /\ i > 0
  BY <1>2
<1>6. \A i, j \in DOMAIN q : j > i <=> i < j
  BY <1>2
<1>7. Holds(q, t, u, Members(x, c), Len(q) + 1) <=>
         \/ \E i \in DOMAIN q : q[i] \in t.yes /\ \A j \in DOMAIN q : i < j => q[j] \notin t.no
         \/ u \in Members(x, c) /\ \A j \in DOMAIN q : q[j] \notin t.no
  BY <1>5 DEF Holds
<1>8. WillBeMember(x, y, u, c) <=>
         \/ \E i \in DOMAIN q : q[i] \in t.yes /\ \A j \in DOMAIN q : i < j => q[j] \notin t.no
         \/ Member(x, u, c) /\ \A j \in DOMAIN q : q[j] \notin t.no
  BY <1>1, <1>4, <1>5, <1>6 DEF WillBeMember
<1> QED BY <1>1, <1>3, <1>7, <1>8 DEF Members

\* What a server has been told of a channel is true, or is being put right, but
\* for those who were kicked, refused by another server or introduced too late.
THEOREM LinksTellTruth == Spec => []LinkTellsTruth
<1>1. IInv /\ TellInv => LinkTellsTruth
  <2> SUFFICES ASSUME IInv, TellInv, NEW x \in Servers, NEW y \in peers[x], NEW u \in Users, NEW c \in Chans,
                      status = "running", <<u, c>> \notin apart
               PROVE  /\ usr[y][u] \notin {None, x} => (WillBeMember(x, y, u, c) <=> Member(y, u, c))
                      /\ usr[y][u] = None /\ usr[x][u] = y => ~WillBeMember(x, y, u, c)
    BY DEF LinkTellsTruth
  <2>1. y \in Servers /\ y # x /\ Route[x][y] = y /\ Home[u] \in Servers
    BY ServerOf DEF IInv, TypeInv, Peered
  <2>2. Route[x][Home[u]] = y => (WillBeMember(x, y, u, c) <=> Member(y, u, c))
    <3> HAVE Route[x][Home[u]] = y
    <3>1. Told(queue[y][x], Stay(u, c), u, Members(x, c), Members(y, c))
      BY DEF TellInv, Telling
    <3>2. WillBeMember(x, y, u, c) <=>
             Holds(queue[y][x], Stay(u, c), u, Members(x, c), Len(queue[y][x]) + 1)
      BY <2>1, WillBeMemberIs
    <3> QED BY <3>1, <3>2 DEF Told, Members
  <2>3. ASSUME usr[y][u] \notin {None, x} PROVE WillBeMember(x, y, u, c) <=> Member(y, u, c)
    <3>1. Route[y][Home[u]] # x
      BY <2>1, <2>3 DEF IInv, UsersFit
    <3>2. Route[x][Home[u]] = y
      BY <2>1, <3>1, OneSide
    <3> QED BY <2>2, <3>2
  <2>4. ASSUME usr[y][u] = None, usr[x][u] = y PROVE ~WillBeMember(x, y, u, c)
    <3>1. Route[x][Home[u]] = y
      BY <2>1, <2>4, NoneAssumption DEF IInv, UsersFit
    <3>2. ~Member(y, u, c)
      BY <2>1, <2>4, NoMember
    <3> QED BY <2>2, <3>1, <3>2
  <2> QED BY <2>3, <2>4
<1> QED BY <1>1, Invariance, Truth, PTL

\* No PART, QUIT or NJOIN that is handled uses a channel or a user that is not
\* there, unless somebody was kicked, refused or introduced too late, or one
\* introduction had two channels.
THEOREM ChannelsAreThere == Spec => []ChannelsAreFound
<1>1. TellInv => ChannelsAreFound
  BY DEF TellInv
<1> QED BY <1>1, Truth, PTL

\* The user a message speaks for is known where it is handled, so that no prefix
\* is refused.
THEOREM SendersKnown == Spec => []SendersAreKnown
<1>1. IInv /\ TellInv => SendersAreKnown
  <2> SUFFICES ASSUME IInv, TellInv, NEW x \in Servers, NEW y \in peers[x],
                      status = "running", queue[y][x] # <<>>, Head(queue[y][x]).type \notin Unsigned
               PROVE  usr[x][Head(queue[y][x]).who] # None
    BY DEF SendersAreKnown
  <2>1. PICK m : m = Head(queue[y][x])
    OBVIOUS
  <2>2. y \in Servers /\ m \in Msg /\ Fits(m, y, x) /\ queue[y][x] \in Seq(Msg)
    BY <2>1, FirstMessage DEF IInv, TypeInv
  <2>3. m.type \in Outward /\ m.who \in Users
    BY <2>1, <2>2, Fields DEF Unsigned
  <2>4. PICK u \in Users : u = m.who
    BY <2>3
  <2>5. Route[x][Home[u]] = y
    BY <2>2, <2>3, <2>4 DEF Fits
  <2>6. Told(queue[y][x], Life(u), u, Known(x), Known(y))
    BY <2>5 DEF TellInv, Knowledge
  <2>7. m \in Life(u).needs
    BY <2>1, <2>2, <2>4, LifeOf
  <2>8. u \in Known(x)
    BY <2>1, <2>2, <2>6, <2>7, ToldHead
  <2> QED BY <2>1, <2>4, <2>8 DEF Known
<1> QED BY <1>1, Invariance, Truth, PTL

-----------------------------------------------------------------------------
(* The order of what is said. *)

\* The messages of M come in the order of their numbers: in a queue, on the way,
\* and after what the users of V were sent with a number of N.
Rising(q, M) ==
    \A i, j \in DOMAIN q : i < j /\ q[i] \in M /\ q[j] \in M => q[i].number < q[j].number

Ahead(Q, M) ==
    \A y, x, b, a \in Servers : Route[x][b] # y =>
        \A m \in ToSet(Q[y][x]), o \in ToSet(Q[b][a]) : m \in M /\ o \in M => o.number < m.number

Later(Q, L, M, N, V) ==
    \A y, x \in Servers, v \in V : Route[x][Home[v]] # y =>
        \A m \in ToSet(Q[y][x]), n \in ToSet(L[v]) : m \in M /\ n \in N => n < m.number

Grown(l, N) ==
    \A i, j \in DOMAIN l : i < j /\ l[i] \in N /\ l[j] \in N => l[i] < l[j]

InOrder(Q, L, M, N, V) ==
    /\ \A y, x \in Servers : Rising(Q[y][x], M)
    /\ Ahead(Q, M)
    /\ Later(Q, L, M, N, V)
    /\ \A v \in V : Grown(L[v], N)

LEMMA RisingAppend ==
    ASSUME NEW q \in Seq(Msg), NEW m \in Msg, NEW M, Rising(q, M),
           m \in M => \A o \in ToSet(q) : o \in M => o.number < m.number
    PROVE  Rising(Append(q, m), M)
<1>1. PICK p : p = Append(q, m)
  OBVIOUS
<1>2. /\ Len(q) \in Nat /\ DOMAIN q = 1..Len(q) /\ DOMAIN p = 1..(Len(q) + 1)
      /\ p[Len(q) + 1] = m /\ \A i \in DOMAIN q : p[i] = q[i]
  BY <1>1, AppendIs
<1>3. \A i \in DOMAIN p : i \in DOMAIN q \/ i = Len(q) + 1
  BY <1>2
<1>4. ASSUME NEW i \in DOMAIN p, NEW j \in DOMAIN p, i < j, p[i] \in M, p[j] \in M
      PROVE  p[i].number < p[j].number
  <2>1. i \in DOMAIN q
    BY <1>2, <1>4
  <2>2. CASE j \in DOMAIN q
    BY <1>2, <1>4, <2>1, <2>2 DEF Rising
  <2>3. CASE j = Len(q) + 1
    <3>1. q[i] \in ToSet(q)
      BY <2>1 DEF ToSet
    <3> QED BY <1>2, <1>4, <2>1, <2>3, <3>1
  <2> QED BY <1>3, <1>4, <2>2, <2>3
<1> QED BY <1>1, <1>4 DEF Rising

LEMMA RisingTail ==
    ASSUME NEW q \in Seq(Msg), q # <<>>, NEW M, Rising(q, M)
    PROVE  /\ Rising(Tail(q), M)
           /\ Head(q) \in M => \A o \in ToSet(Tail(q)) : o \in M => Head(q).number < o.number
<1>1. PICK p : p = Tail(q)
  OBVIOUS
<1>2. /\ Head(q) = q[1] /\ 1 \in DOMAIN q /\ Len(q) \in Nat \ {0}
      /\ DOMAIN q = 1..Len(q) /\ DOMAIN p = 1..(Len(q) - 1)
      /\ \A i \in DOMAIN p : i + 1 \in DOMAIN q /\ p[i] = q[i + 1]
  BY <1>1, TailIs
<1>3. \A i, j \in DOMAIN p : i < j => i + 1 < j + 1
  BY <1>2
<1>4. Rising(p, M)
  BY <1>2, <1>3 DEF Rising
<1>5. ASSUME Head(q) \in M, NEW o \in ToSet(p), o \in M
      PROVE  Head(q).number < o.number
  <2>1. PICK i \in DOMAIN p : o = p[i]
    BY DEF ToSet
  <2>2. i + 1 \in DOMAIN q /\ o = q[i + 1] /\ 1 < i + 1
    BY <1>2, <2>1
  <2> QED BY <1>2, <1>5, <2>2 DEF Rising
<1> QED BY <1>1, <1>4, <1>5

\* What l is after n was appended.
LEMMA GrownAppend ==
    ASSUME NEW D, NEW l \in Seq(D), NEW n \in D, NEW N, Grown(l, N),
           n \in N => \A k \in ToSet(l) : k \in N => k < n
    PROVE  Grown(Append(l, n), N) /\ ToSet(Append(l, n)) = ToSet(l) \cup {n}
<1>1. PICK p : p = Append(l, n)
  OBVIOUS
<1>2. /\ Len(l) \in Nat /\ DOMAIN l = 1..Len(l) /\ DOMAIN p = 1..(Len(l) + 1)
      /\ p[Len(l) + 1] = n /\ \A i \in DOMAIN l : p[i] = l[i]
  BY <1>1, AppendProperties, LenProperties
<1>3. \A i \in DOMAIN p : i \in DOMAIN l \/ i = Len(l) + 1
  BY <1>2
<1>4. ASSUME NEW i \in DOMAIN p, NEW j \in DOMAIN p, i < j, p[i] \in N, p[j] \in N
      PROVE  p[i] < p[j]
  <2>1. i \in DOMAIN l
    BY <1>2, <1>4
  <2>2. CASE j \in DOMAIN l
    BY <1>2, <1>4, <2>1, <2>2 DEF Grown
  <2>3. CASE j = Len(l) + 1
    <3>1. l[i] \in ToSet(l)
      BY <2>1 DEF ToSet
    <3> QED BY <1>2, <1>4, <2>1, <2>3, <3>1
  <2> QED BY <1>3, <1>4, <2>2, <2>3
<1>5. ToSet(p) = ToSet(l) \cup {n}
  BY <1>2, <1>3 DEF ToSet
<1> QED BY <1>1, <1>4, <1>5 DEF Grown

\* Fewer messages and numbers are in order as well.
LEMMA FewerInOrder ==
    ASSUME NEW Q, NEW L, NEW M, NEW N, NEW V, InOrder(Q, L, M, N, V), NEW M2, NEW N2,
           \A y, x \in Servers : \A m \in ToSet(Q[y][x]) : m \in M2 => m \in M,
           \A v \in V : \A n \in ToSet(L[v]) : n \in N2 => n \in N
    PROVE  InOrder(Q, L, M2, N2, V)
<1>1. \A y, x \in Servers : Rising(Q[y][x], M2)
  <2> SUFFICES ASSUME NEW y \in Servers, NEW x \in Servers PROVE Rising(Q[y][x], M2)
    OBVIOUS
  <2>1. \A i \in DOMAIN Q[y][x] : Q[y][x][i] \in ToSet(Q[y][x])
    BY DEF ToSet
  <2>2. Rising(Q[y][x], M)
    BY DEF InOrder
  <2> QED BY <2>1, <2>2 DEF Rising
<1>2. Ahead(Q, M2)
  BY DEF InOrder, Ahead
<1>3. Later(Q, L, M2, N2, V)
  BY DEF InOrder, Later
<1>4. \A v \in V : Grown(L[v], N2)
  <2> SUFFICES ASSUME NEW v \in V PROVE Grown(L[v], N2)
    OBVIOUS
  <2>1. \A i \in DOMAIN L[v] : L[v][i] \in ToSet(L[v])
    BY DEF ToSet
  <2>2. Grown(L[v], N)
    BY DEF InOrder
  <2> QED BY <2>1, <2>2 DEF Grown
<1> QED BY <1>1, <1>2, <1>3, <1>4 DEF InOrder

\* Who goes to x from b by a comes to y, the other end of the link, the same way.
LEMMA SameApproach ==
    ASSUME NEW x \in Servers, NEW y \in Servers, y # x, Route[x][y] = y,
           NEW b \in Servers, NEW a \in Servers, a # b, ~(b = y /\ a = x), Route[a][x] # b
    PROVE  Route[a][y] # b
<1>1. CASE a = x
  BY <1>1
<1>2. CASE a = y
  BY <1>2, NextHop
<1>3. CASE a # x /\ a # y
  BY <1>3, SameWay
<1> QED BY <1>1, <1>2, <1>3

\* The queue from b to a when x has taken its message.
Rest(x, y, take, b, a) == IF take /\ b = y /\ a = x THEN Tail(queue[b][a]) ELSE queue[b][a]

LEMMA RestIs ==
    ASSUME IInv, NEW x, NEW y, NEW take, NEW S, NEW m, Transfer(x, y, take, S, m),
           NEW b \in Servers, NEW a \in Servers, NEW r, r = Rest(x, y, take, b, a)
    PROVE  /\ r \in Seq(Msg) /\ ToSet(r) \subseteq ToSet(queue[b][a])
           /\ queue'[b][a] = IF b = x /\ a \in S THEN Append(r, m) ELSE r
           /\ \A o \in ToSet(r) : o \in Msg /\ Fits(o, b, a) /\ Refers(o)
           /\ r # <<>> => a # b
           /\ \A M : Rising(queue[b][a], M) => Rising(r, M)
<1>1. /\ queue \in Queues /\ TypeInv /\ Peered
      /\ queue'[b][a] = IF b = x /\ a \in S THEN Append(queue[b][a], m)
                        ELSE IF take /\ b = y /\ a = x THEN Tail(queue[b][a])
                        ELSE queue[b][a]
  BY TransferEffect DEF IInv, TypeInv
<1>2. queue[b][a] \in Seq(Msg) /\ m \in Msg
  BY <1>1 DEF Queues, Transfer
<1>3. b = x /\ a \in S => a # x
  BY <1>1 DEF Transfer, Peered
<1>4. take /\ b = y /\ a = x => queue[b][a] # <<>>
  BY DEF Transfer
<1>5. r \in Seq(Msg) /\ ToSet(r) \subseteq ToSet(queue[b][a])
  BY <1>2, <1>4, TailIs DEF Rest
<1>6. queue'[b][a] = IF b = x /\ a \in S THEN Append(r, m) ELSE r
  BY <1>1, <1>3 DEF Rest
<1>8. \A o \in ToSet(r) : o \in Msg /\ Fits(o, b, a) /\ Refers(o)
  <2>1. \A o \in ToSet(queue[b][a]) : o \in Msg
    BY <1>2, ElementOfSeq, LenProperties DEF ToSet
  <2> QED BY <1>5, <2>1 DEF IInv, Traffic
<1>9. r # <<>> => a # b
  <2>1. r # <<>> => queue[b][a] # <<>>
    BY <1>4 DEF Rest
  <2> QED BY <1>1, <2>1 DEF Peered
<1>10. ASSUME NEW M, Rising(queue[b][a], M) PROVE Rising(r, M)
  BY <1>2, <1>4, <1>10, RisingTail DEF Rest
<1> QED BY <1>5, <1>6, <1>8, <1>9, <1>10

LEMMA RestWas ==
    ASSUME IInv, NEW x, NEW y, NEW take, NEW S, NEW m, Transfer(x, y, take, S, m),
           NEW b \in Servers, NEW a \in Servers, NEW r, r = Rest(x, y, take, b, a)
    PROVE  /\ ToSet(r) \subseteq ToSet(queue[b][a])
           /\ \A o \in ToSet(r) : Fits(o, b, a) /\ Refers(o)
BY RestIs

\* A message with number n may be sent by x to the servers of S, and to its users:
\* what comes after it has greater numbers, what is ahead of it smaller ones.
Placed(M, N, V, x, y, take, S, n) ==
    /\ \A b, a \in Servers : \A o \in ToSet(Rest(x, y, take, b, a)) : o \in M =>
          /\ Route[a][x] # b => n < o.number
          /\ \A w \in S : Route[w][b] # x \/ (b = x /\ a = w) => o.number < n
    /\ \A v \in V : \A k \in ToSet(heard[v]) :
          k \in N /\ (Home[v] = x \/ (\E w \in S : Route[w][Home[v]] # x)) => k < n

LEMMA NewOnes ==
    ASSUME IInv, NEW x, NEW y, NEW take, NEW S, NEW m, Transfer(x, y, take, S, m),
           NEW b \in Servers, NEW a \in Servers, NEW o \in ToSet(queue'[b][a])
    PROVE  \/ o \in ToSet(Rest(x, y, take, b, a)) /\ o \in ToSet(queue[b][a])
           \/ o = m /\ b = x /\ a \in S /\ Route[a][x] = x
<1>1. PICK r : r = Rest(x, y, take, b, a)
  OBVIOUS
<1>5. m \in Msg
  BY DEF Transfer
<1>2. /\ ToSet(r) \subseteq ToSet(queue[b][a]) /\ r \in Seq(Msg)
      /\ queue'[b][a] = IF b = x /\ a \in S THEN Append(r, m) ELSE r
  BY <1>1, RestIs
<1>4. o \in ToSet(r) \/ (o = m /\ b = x /\ a \in S)
  <2>1. ToSet(Append(r, m)) = ToSet(r) \cup {m}
    BY <1>2, <1>5, AppendIs
  <2> QED BY <1>2, <2>1
<1>3. b = x /\ a \in S => Route[a][x] = x
  BY Neighbours DEF Transfer, IInv, Peered
<1> QED BY <1>1, <1>2, <1>3, <1>4

LEMMA AheadStep ==
    ASSUME IInv, NEW x, NEW y, NEW take, NEW S, NEW m, Transfer(x, y, take, S, m),
           NEW M, NEW N, NEW V, Ahead(queue, M),
           m \in M /\ S # {} => Placed(M, N, V, x, y, take, S, m.number)
    PROVE  Ahead(queue', M)
<1> SUFFICES ASSUME NEW d \in Servers, NEW c \in Servers, NEW b \in Servers, NEW a \in Servers,
                    Route[c][b] # d,
                    NEW p \in ToSet(queue'[d][c]), NEW o \in ToSet(queue'[b][a]), p \in M, o \in M
             PROVE  o.number < p.number
  BY DEF Ahead
<1>1. \/ p \in ToSet(Rest(x, y, take, d, c)) /\ p \in ToSet(queue[d][c])
      \/ p = m /\ d = x /\ c \in S /\ Route[c][x] = x
  BY NewOnes
<1>2. \/ o \in ToSet(Rest(x, y, take, b, a)) /\ o \in ToSet(queue[b][a])
      \/ o = m /\ b = x /\ a \in S /\ Route[a][x] = x
  BY NewOnes
<1>3. CASE p \in ToSet(queue[d][c]) /\ o \in ToSet(queue[b][a])
  BY <1>3 DEF Ahead
<1>4. CASE p = m /\ d = x /\ c \in S /\ o \in ToSet(Rest(x, y, take, b, a))
  BY <1>4 DEF Placed
<1>5. CASE p \in ToSet(Rest(x, y, take, d, c)) /\ o = m /\ b = x /\ a \in S
  BY <1>5 DEF Placed
<1>6. CASE p = m /\ d = x /\ c \in S /\ Route[c][x] = x /\ o = m /\ b = x
  BY <1>6
<1> QED BY <1>1, <1>2, <1>3, <1>4, <1>5, <1>6

\* What the users of H are sent, all of them users of x.
LEMMA HearIs ==
    ASSUME IInv, NEW H, NEW n, Hear(H, n), n \in Nat, NEW v \in Users
    PROVE  /\ heard[v] \in Seq(Nat)
           /\ heard'[v] = IF v \in H THEN Append(heard[v], n) ELSE heard[v]
           /\ \A k \in ToSet(heard'[v]) : k \in ToSet(heard[v]) \/ (k = n /\ v \in H)
<1>1. heard[v] \in Seq(DOMAIN said) /\ DOMAIN said \subseteq Nat
  BY LenProperties DEF IInv, TypeInv, HistoryTyped, Sayings
<1>2. heard[v] \in Seq(Nat)
  BY <1>1, SeqMonotonic
<1>3. heard'[v] = IF v \in H THEN Append(heard[v], n) ELSE heard[v]
  BY DEF Hear
<1>4. PICK D, N : D = Nat /\ N = {}
  OBVIOUS
<1>5. Grown(heard[v], N)
  BY <1>4 DEF Grown
<1>6. ToSet(Append(heard[v], n)) = ToSet(heard[v]) \cup {n}
  BY <1>2, <1>4, <1>5, GrownAppend
<1>7. \A k \in ToSet(heard'[v]) : k \in ToSet(heard[v]) \/ (k = n /\ v \in H)
  BY <1>3, <1>6
<1> QED BY <1>2, <1>3, <1>7

LEMMA LaterStep ==
    ASSUME IInv, NEW x, NEW y, NEW take, NEW S, NEW m, Transfer(x, y, take, S, m),
           NEW n \in Nat, NEW H, Hear(H, n), \A v \in H : v \in Users /\ Home[v] = x,
           NEW M, NEW N, NEW V \in SUBSET Users, Later(queue, heard, M, N, V),
           m \in M /\ S # {} => m.number = n,
           (m \in M /\ S # {}) \/ (n \in N /\ H \cap V # {}) => Placed(M, N, V, x, y, take, S, n)
    PROVE  Later(queue', heard', M, N, V)
<1>7. ASSUME NEW v \in Users
      PROVE  \A k \in ToSet(heard'[v]) : k \in ToSet(heard[v]) \/ (k = n /\ v \in H)
  BY HearIs
<1> SUFFICES ASSUME NEW d \in Servers, NEW c \in Servers, NEW v \in V, Route[c][Home[v]] # d,
                    NEW p \in ToSet(queue'[d][c]), NEW k \in ToSet(heard'[v]), p \in M, k \in N
             PROVE  k < p.number
  BY DEF Later
<1>1. \/ p \in ToSet(Rest(x, y, take, d, c)) /\ p \in ToSet(queue[d][c])
      \/ p = m /\ d = x /\ c \in S /\ Route[c][x] = x
  BY NewOnes
<1>2. k \in ToSet(heard[v]) \/ (k = n /\ v \in H /\ Home[v] = x)
  BY <1>7
<1>3. CASE p \in ToSet(queue[d][c]) /\ k \in ToSet(heard[v])
  BY <1>3 DEF Later
<1>4. CASE p = m /\ d = x /\ c \in S /\ k \in ToSet(heard[v])
  BY <1>4 DEF Placed
<1>5. CASE p \in ToSet(Rest(x, y, take, d, c)) /\ k = n /\ v \in H /\ Home[v] = x
  BY <1>5 DEF Placed
<1>6. CASE p = m /\ d = x /\ c \in S /\ Route[c][x] = x /\ Home[v] = x
  BY <1>6
<1> QED BY <1>1, <1>2, <1>3, <1>4, <1>5, <1>6

LEMMA OrderStep ==
    ASSUME IInv, NEW x, NEW y, NEW take, NEW S, NEW m, Transfer(x, y, take, S, m),
           NEW n \in Nat, NEW H, Hear(H, n), \A v \in H : v \in Users /\ Home[v] = x,
           NEW M, NEW N, NEW V \in SUBSET Users, InOrder(queue, heard, M, N, V),
           m \in M /\ S # {} => m.number = n,
           (m \in M /\ S # {}) \/ (n \in N /\ H \cap V # {}) => Placed(M, N, V, x, y, take, S, n)
    PROVE  InOrder(queue', heard', M, N, V)
<1>1. ASSUME NEW b \in Servers, NEW a \in Servers PROVE Rising(queue'[b][a], M)
  <2>1. PICK r : r = Rest(x, y, take, b, a)
    OBVIOUS
  <2>4. Rising(queue[b][a], M) /\ m \in Msg
    BY DEF InOrder, Transfer
  <2>2. /\ r \in Seq(Msg) /\ Rising(r, M) /\ m \in Msg
        /\ queue'[b][a] = IF b = x /\ a \in S THEN Append(r, m) ELSE r
    BY <2>1, <2>4, RestIs
  <2>3. CASE b = x /\ a \in S
    <3>1. m \in M => \A o \in ToSet(r) : o \in M => o.number < m.number
      BY <2>1, <2>3 DEF Placed
    <3> QED BY <2>2, <2>3, <3>1, RisingAppend
  <2> QED BY <2>2, <2>3
<1>2. Ahead(queue', M)
  BY AheadStep DEF InOrder
<1>3. Later(queue', heard', M, N, V)
  BY LaterStep DEF InOrder
<1>4. ASSUME NEW v \in V PROVE Grown(heard'[v], N)
  <2>1. /\ heard[v] \in Seq(Nat) /\ Grown(heard[v], N)
        /\ heard'[v] = IF v \in H THEN Append(heard[v], n) ELSE heard[v]
    BY HearIs DEF InOrder
  <2>2. CASE v \in H
    <3>1. n \in N => \A k \in ToSet(heard[v]) : k \in N => k < n
      BY <2>2 DEF Placed
    <3> QED BY <2>1, <2>2, <3>1, GrownAppend
  <2> QED BY <2>1, <2>2
<1> QED BY <1>1, <1>2, <1>3, <1>4 DEF InOrder

\* x takes h from y.
Takes(x, y, take, h) == take /\ h = Head(queue[y][x])

\* The message that x has taken from y is ahead of those that x is beyond of.
LEMMA HeadIsAhead ==
    ASSUME IInv, NEW x, NEW y, NEW take, NEW S, NEW m, Transfer(x, y, take, S, m),
           NEW h, Takes(x, y, take, h), NEW M, h \in M, Rising(queue[y][x], M), Ahead(queue, M),
           NEW b \in Servers, NEW a \in Servers, NEW r, r = Rest(x, y, take, b, a),
           NEW o, o \in ToSet(r), o \in M, Route[a][x] # b
    PROVE  h.number < o.number
<1>1. /\ x \in Servers /\ y \in Servers /\ queue[y][x] # <<>> /\ h = Head(queue[y][x])
  BY DEF Transfer, Takes
<1>2. queue[y][x] \in Seq(Msg) /\ y # x /\ Route[x][y] = y /\ h \in ToSet(queue[y][x])
  BY <1>1, FirstMessage, TailIs
<1>3. /\ r \in Seq(Msg) /\ ToSet(r) \subseteq ToSet(queue[b][a]) /\ (r # <<>> => a # b)
  BY RestIs
<1>4. CASE b = y /\ a = x
  <2>1. r = Tail(queue[y][x])
    BY <1>4 DEF Rest, Takes
  <2> QED BY <1>1, <1>2, <2>1, RisingTail
<1>5. CASE ~(b = y /\ a = x)
  <2>1. r # <<>>
    BY <1>3, EmptySeq, LenProperties DEF ToSet
  <2>2. Route[a][y] # b
    BY <1>1, <1>2, <1>3, <1>5, <2>1, SameApproach
  <2> QED BY <1>1, <1>2, <1>3, <2>2 DEF Ahead
<1> QED BY <1>4, <1>5

\* A message that is passed on comes where it has to.
LEMMA RelayPlaced ==
    ASSUME IInv, NEW x, NEW y, NEW take, NEW S, NEW m, Transfer(x, y, take, S, m), y \notin S,
           Takes(x, y, take, m), NEW M, NEW N, NEW V \in SUBSET Users, m \in M,
           InOrder(queue, heard, M, N, V)
    PROVE  Placed(M, N, V, x, y, take, S, m.number)
<1>1. /\ x \in Servers /\ y \in Servers /\ queue[y][x] # <<>> /\ S \subseteq peers[x]
      /\ m = Head(queue[y][x])
  BY DEF Transfer, Takes
<1>2. queue[y][x] \in Seq(Msg) /\ y # x /\ Route[x][y] = y /\ m \in ToSet(queue[y][x])
  BY <1>1, FirstMessage, TailIs
<1>3. Rising(queue[y][x], M) /\ Ahead(queue, M) /\ Later(queue, heard, M, N, V)
  BY <1>1 DEF InOrder
<1>4. \A w \in S : w \in Servers /\ w # x /\ w # y /\ Route[x][w] = w
  BY <1>1 DEF IInv, TypeInv, Peered
<1>5. Route[x][x] = x
  BY <1>1, NextHop
<1>6. ASSUME NEW z \in Servers, NEW w \in S, Route[w][z] # x PROVE Route[x][z] # y
  BY <1>1, <1>4, <1>6, OneSide
<1>7. ASSUME NEW b \in Servers, NEW a \in Servers, NEW r, r = Rest(x, y, take, b, a),
             NEW o, o \in ToSet(r), o \in M
      PROVE  /\ Route[a][x] # b => m.number < o.number
             /\ \A w \in S : Route[w][b] # x \/ (b = x /\ a = w) => o.number < m.number
  <2>1. Route[a][x] # b => m.number < o.number
    BY <1>3, <1>7, HeadIsAhead
  <2>2. o \in ToSet(queue[b][a])
    BY <1>7, RestIs
  <2>3. ASSUME NEW w \in S, Route[w][b] # x \/ (b = x /\ a = w) PROVE o.number < m.number
    <3>1. Route[x][b] # y
      BY <1>2, <1>5, <1>6, <2>3
    <3> QED BY <1>1, <1>2, <1>3, <1>7, <2>2, <3>1 DEF Ahead
  <2> QED BY <2>1, <2>3
<1>8. ASSUME NEW v \in V, NEW k, k \in ToSet(heard[v]), k \in N,
             Home[v] = x \/ (\E w \in S : Route[w][Home[v]] # x)
      PROVE  k < m.number
  <2>1. Home[v] \in Servers
    BY ServerOf
  <2>2. Route[x][Home[v]] # y
    BY <1>2, <1>5, <1>6, <1>8, <2>1
  <2> QED BY <1>1, <1>2, <1>3, <1>8, <2>2 DEF Later
<1> QED BY <1>7, <1>8 DEF Placed

\* So does one with a new number that is sent by the server it comes from.
LEMMA NewPlaced ==
    ASSUME NEW x, NEW y, NEW take, NEW S, NEW n, NEW M, NEW N, NEW V,
           \A b, a \in Servers : \A o \in ToSet(Rest(x, y, take, b, a)) : o \in M =>
               Route[a][x] = b /\ o.number < n,
           \A v \in V : \A k \in ToSet(heard[v]) : k \in N => k < n
    PROVE  Placed(M, N, V, x, y, take, S, n)
BY DEF Placed

\* The question M is asked after all the answers O.
AsksLast(Q, l, M, O, N) ==
    \A d, c \in Servers : \A p \in ToSet(Q[d][c]) : p \in M =>
        /\ \A b, a \in Servers : \A o \in ToSet(Q[b][a]) : o \in O => o.number < p.number
        /\ \A k \in ToSet(l) : k \in N => k < p.number

LEMMA AsksLastStep ==
    ASSUME IInv, NEW x, NEW y, NEW take, NEW S, NEW m, Transfer(x, y, take, S, m),
           NEW n \in Nat, NEW H, Hear(H, n), NEW v \in Users,
           NEW M, NEW O, NEW N, AsksLast(queue, heard[v], M, O, N),
           m \in M => m \notin O /\ ~(n \in N /\ v \in H),
           m \in O /\ S # {} => m.number = n,
           m \in M /\ S # {} =>
              /\ \A b, a \in Servers : \A o \in ToSet(queue[b][a]) : o \in O => o.number < m.number
              /\ \A k \in ToSet(heard[v]) : k \in N => k < m.number,
           (m \in O /\ S # {}) \/ (n \in N /\ v \in H) =>
              \A d, c \in Servers : \A p \in ToSet(Rest(x, y, take, d, c)) : p \in M => n < p.number
    PROVE  AsksLast(queue', heard'[v], M, O, N)
<1>1. \A k \in ToSet(heard'[v]) : k \in ToSet(heard[v]) \/ (k = n /\ v \in H)
  BY HearIs
<1> SUFFICES ASSUME NEW d \in Servers, NEW c \in Servers, NEW p \in ToSet(queue'[d][c]), p \in M
             PROVE  /\ \A b, a \in Servers : \A o \in ToSet(queue'[b][a]) : o \in O => o.number < p.number
                    /\ \A k \in ToSet(heard'[v]) : k \in N => k < p.number
  BY DEF AsksLast
<1>2. \/ p \in ToSet(Rest(x, y, take, d, c)) /\ p \in ToSet(queue[d][c])
      \/ p = m /\ d = x /\ c \in S
  BY NewOnes
<1>3. ASSUME NEW b \in Servers, NEW a \in Servers, NEW o \in ToSet(queue'[b][a]), o \in O
      PROVE  o.number < p.number
  <2>1. \/ o \in ToSet(queue[b][a])
        \/ o = m /\ b = x /\ a \in S
    BY NewOnes
  <2> QED BY <1>2, <1>3, <2>1 DEF AsksLast
<1>4. ASSUME NEW k \in ToSet(heard'[v]), k \in N PROVE k < p.number
  BY <1>1, <1>2, <1>4 DEF AsksLast
<1> QED BY <1>3, <1>4

-----------------------------------------------------------------------------
(* What each user and each server says, and what it is asked. *)

SaidBy(s) == {m \in Msg : m.type \in {"SAY", "TELL"} /\ m.who = s}
Asks(s, v) == {m \in Msg : m.type = "ASK" /\ m.who = v /\ m.server = s}
Answers(s, v, N) == {m \in Msg : m.type = "ANSWER" /\ m.whom = v /\ m.number \in N}

\* F[s] are the numbers of what s said.
OrderIn(Q, L, F) ==
    /\ \A s \in Users : InOrder(Q, L, SaidBy(s), F[s], Users)
    /\ \A s \in Servers, v \in Users :
          /\ InOrder(Q, L, Answers(s, v, F[s]), F[s], {v})
          /\ InOrder(Q, L, Asks(s, v), {}, {})
          /\ AsksLast(Q, L[v], Asks(s, v), Answers(s, v, F[s]), F[s])

Sources == [s \in Users \cup Servers |-> {n \in DOMAIN said : said[n].from = s}]

\* Number n was not said by v, unless it was to himself.
OthersSay(v, n) == said[n].from = v => said[n].to = v

NotOwn == \A v \in Users : \A n \in ToSet(heard[v]) : OthersSay(v, n)

OrderInv == OrderIn(queue, heard, Sources) /\ NotOwn

\* The number n is one of f.
Author(F, n, f) == \A s \in Users \cup Servers : n \in F[s] <=> s = f

\* x sends m to S and number n to H.
Step(x, y, take, S, m, n, H) ==
    /\ Transfer(x, y, take, S, m) /\ n \in Nat /\ Hear(H, n)
    /\ \A v \in H : v \in Users /\ Home[v] = x

LEMMA SaysStep ==
    ASSUME IInv, NEW F, OrderIn(queue, heard, F),
           NEW x, NEW y, NEW take, NEW S, NEW m, NEW n, NEW H, Step(x, y, take, S, m, n, H),
           NEW s \in Users, m \in SaidBy(s) /\ S # {} => m.number = n,
           (m \in SaidBy(s) /\ S # {}) \/ (n \in F[s] /\ H # {}) =>
               Placed(SaidBy(s), F[s], Users, x, y, take, S, n)
    PROVE  InOrder(queue', heard', SaidBy(s), F[s], Users)
<1>1. PICK M, N, V : M = SaidBy(s) /\ N = F[s] /\ V = Users
  OBVIOUS
<1>2. InOrder(queue, heard, M, N, V)
  BY <1>1 DEF OrderIn
<1>3. H \cap V # {} => H # {}
  OBVIOUS
<1>4. /\ m \in M /\ S # {} => m.number = n
      /\ (m \in M /\ S # {}) \/ (n \in N /\ H \cap V # {}) => Placed(M, N, V, x, y, take, S, n)
  BY <1>1, <1>3
<1>5. InOrder(queue', heard', M, N, V)
  <2>1. V \in SUBSET Users /\ n \in Nat
    BY <1>1 DEF Step
  <2> QED BY <1>2, <1>4, <2>1, OrderStep DEF Step
<1> QED BY <1>1, <1>5

LEMMA AnswersStep ==
    ASSUME IInv, NEW F, OrderIn(queue, heard, F),
           NEW x, NEW y, NEW take, NEW S, NEW m, NEW n, NEW H, Step(x, y, take, S, m, n, H),
           NEW s \in Servers, NEW v \in Users, NEW M, M = Answers(s, v, F[s]), NEW V, V = {v},
           m \in M /\ S # {} => m.number = n,
           (m \in M /\ S # {}) \/ (n \in F[s] /\ v \in H) => Placed(M, F[s], V, x, y, take, S, n)
    PROVE  InOrder(queue', heard', Answers(s, v, F[s]), F[s], {v})
<1>1. PICK N : N = F[s]
  OBVIOUS
<1>2. InOrder(queue, heard, M, N, V)
  BY <1>1 DEF OrderIn
<1>3. H \cap V # {} => v \in H
  OBVIOUS
<1>4. /\ m \in M /\ S # {} => m.number = n
      /\ (m \in M /\ S # {}) \/ (n \in N /\ H \cap V # {}) => Placed(M, N, V, x, y, take, S, n)
  BY <1>1, <1>3
<1>5. InOrder(queue', heard', M, N, V)
  <2>1. V \in SUBSET Users /\ n \in Nat
    BY DEF Step
  <2> QED BY <1>2, <1>4, <2>1, OrderStep DEF Step
<1> QED BY <1>1, <1>5

LEMMA AsksStep ==
    ASSUME IInv, NEW F, OrderIn(queue, heard, F),
           NEW x, NEW y, NEW take, NEW S, NEW m, NEW n, NEW H, Step(x, y, take, S, m, n, H),
           NEW s \in Servers, NEW v \in Users, NEW M, M = Asks(s, v), NEW V, V = {},
           m \in M /\ S # {} => m.number = n /\ Placed(M, V, V, x, y, take, S, n)
    PROVE  InOrder(queue', heard', Asks(s, v), {}, {})
<1>2. InOrder(queue, heard, M, V, V)
  BY DEF OrderIn
<1>4. /\ m \in M /\ S # {} => m.number = n
      /\ (m \in M /\ S # {}) \/ (n \in V /\ H \cap V # {}) => Placed(M, V, V, x, y, take, S, n)
  OBVIOUS
<1>5. InOrder(queue', heard', M, V, V)
  <2>1. V \in SUBSET Users /\ n \in Nat
    BY DEF Step
  <2> QED BY <1>2, <1>4, <2>1, OrderStep DEF Step
<1> QED BY <1>5

LEMMA LastStep ==
    ASSUME IInv, NEW F, OrderIn(queue, heard, F),
           NEW x, NEW y, NEW take, NEW S, NEW m, NEW n, NEW H, Step(x, y, take, S, m, n, H),
           NEW s \in Servers, NEW v \in Users, NEW M, M = Asks(s, v), NEW O, O = Answers(s, v, F[s]),
           m \in M => ~(n \in F[s] /\ v \in H),
           m \in O /\ S # {} => m.number = n,
           m \in M /\ S # {} =>
              /\ \A b, a \in Servers : \A o \in ToSet(queue[b][a]) : o \in O => o.number < m.number
              /\ \A k \in ToSet(heard[v]) : k \in F[s] => k < m.number,
           (m \in O /\ S # {}) \/ (n \in F[s] /\ v \in H) =>
              \A d, c \in Servers : \A p \in ToSet(Rest(x, y, take, d, c)) : p \in M => n < p.number
    PROVE  AsksLast(queue', heard'[v], Asks(s, v), Answers(s, v, F[s]), F[s])
<1>1. PICK N : N = F[s]
  OBVIOUS
<1>2. AsksLast(queue, heard[v], M, O, N)
  BY <1>1 DEF OrderIn
<1>3. m \in M => m \notin O
  BY DEF Asks, Answers
<1>5. AsksLast(queue', heard'[v], M, O, N)
  <2>1. n \in Nat /\ Hear(H, n) /\ Transfer(x, y, take, S, m)
    BY DEF Step
  <2>2. /\ m \in M => m \notin O /\ ~(n \in N /\ v \in H)
        /\ m \in O /\ S # {} => m.number = n
        /\ m \in M /\ S # {} =>
              /\ \A b, a \in Servers : \A o \in ToSet(queue[b][a]) : o \in O => o.number < m.number
              /\ \A k \in ToSet(heard[v]) : k \in N => k < m.number
        /\ (m \in O /\ S # {}) \/ (n \in N /\ v \in H) =>
              \A d, c \in Servers : \A p \in ToSet(Rest(x, y, take, d, c)) : p \in M => n < p.number
    BY <1>1, <1>3
  <2> QED BY <1>2, <2>1, <2>2, AsksLastStep
<1> QED BY <1>1, <1>5

\* A step that has nothing to do with numbers.
LEMMA QuietOrder ==
    ASSUME IInv, NEW F, OrderIn(queue, heard, F),
           NEW x, NEW y, NEW take, NEW S, NEW m, Transfer(x, y, take, S, m), heard' = heard,
           S = {} \/ m.type \notin Numbered
    PROVE  OrderIn(queue', heard', F)
<1>1. PICK H, n : H = {} /\ n = 0
  OBVIOUS
<1>2. Step(x, y, take, S, m, n, H)
  BY <1>1 DEF Step, Hear, IInv, TypeInv, HistoryTyped
<1>3. ASSUME NEW s \in Users PROVE InOrder(queue', heard', SaidBy(s), F[s], Users)
  <2>1. ~(m \in SaidBy(s) /\ S # {}) /\ ~(n \in F[s] /\ H # {})
    BY <1>1 DEF SaidBy, Numbered
  <2> QED BY <1>2, <2>1, SaysStep
<1>4. ASSUME NEW s \in Servers, NEW v \in Users
      PROVE  /\ InOrder(queue', heard', Answers(s, v, F[s]), F[s], {v})
             /\ InOrder(queue', heard', Asks(s, v), {}, {})
             /\ AsksLast(queue', heard'[v], Asks(s, v), Answers(s, v, F[s]), F[s])
  <2>1. PICK M, O, V, E : M = Asks(s, v) /\ O = Answers(s, v, F[s]) /\ V = {v} /\ E = {}
    OBVIOUS
  <2>2. ~(m \in M /\ S # {}) /\ ~(m \in O /\ S # {}) /\ v \notin H
    BY <1>1, <2>1 DEF Asks, Answers, Numbered
  <2>3. InOrder(queue', heard', Answers(s, v, F[s]), F[s], {v})
    BY <1>2, <2>1, <2>2, AnswersStep
  <2>4. InOrder(queue', heard', Asks(s, v), {}, {})
    BY <1>2, <2>1, <2>2, AsksStep
  <2>5. AsksLast(queue', heard'[v], Asks(s, v), Answers(s, v, F[s]), F[s])
    BY <1>2, <2>1, <2>2, LastStep
  <2> QED BY <2>3, <2>4, <2>5
<1> QED BY <1>3, <1>4 DEF OrderIn

\* A message that is passed on, or given to those it is for.
LEMMA RelayOrder ==
    ASSUME IInv, NEW F, OrderIn(queue, heard, F),
           NEW x, NEW y, NEW take, NEW S, NEW m, NEW n, NEW H, Step(x, y, take, S, m, n, H),
           Takes(x, y, take, m), y \notin S, n = m.number,
           NEW f \in Users \cup Servers, Author(F, n, f),
           m.type \in {"SAY", "TELL"} => f = m.who,
           m.type \in {"ASK", "ANSWER"} => f \in Servers,
           m.type = "ASK" => H = {}, m.type = "ANSWER" => H \subseteq {m.whom},
           m.type \in Numbered
    PROVE  OrderIn(queue', heard', F)
<1>1. /\ x \in Servers /\ y \in Servers /\ queue[y][x] # <<>> /\ m = Head(queue[y][x]) /\ m \in Msg
      /\ Transfer(x, y, take, S, m) /\ m.type \in {"SAY", "TELL", "ASK", "ANSWER"}
  BY DEF Step, Transfer, Takes, Numbered
<1>2. m \in ToSet(queue[y][x])
  BY <1>1, FirstMessage, TailIs
<1>3. Users \cap Servers = {}
  BY HomeAssumption
<1>4. ASSUME NEW s \in Users PROVE InOrder(queue', heard', SaidBy(s), F[s], Users)
  <2>1. PICK M, N, V : M = SaidBy(s) /\ N = F[s] /\ V = Users
    OBVIOUS
  <2>2. n \in N /\ H # {} => m \in M
    BY <1>1, <1>3, <2>1 DEF Author, SaidBy
  <2>3. m \in M => Placed(M, N, V, x, y, take, S, n)
    <3>1. InOrder(queue, heard, M, N, V) /\ V \in SUBSET Users
      BY <2>1 DEF OrderIn
    <3>2. ASSUME m \in M PROVE Placed(M, N, V, x, y, take, S, m.number)
      BY <1>1, <3>1, <3>2, RelayPlaced
    <3> QED BY <3>2
  <2>4. /\ m \in SaidBy(s) /\ S # {} => m.number = n
        /\ (m \in SaidBy(s) /\ S # {}) \/ (n \in F[s] /\ H # {}) =>
               Placed(SaidBy(s), F[s], Users, x, y, take, S, n)
    BY <2>1, <2>2, <2>3
  <2> QED BY <2>4, SaysStep
<1>5. ASSUME NEW s \in Servers, NEW v \in Users
      PROVE  /\ InOrder(queue', heard', Answers(s, v, F[s]), F[s], {v})
             /\ InOrder(queue', heard', Asks(s, v), {}, {})
             /\ AsksLast(queue', heard'[v], Asks(s, v), Answers(s, v, F[s]), F[s])
  <2>1. PICK M, O, V, E, N : /\ M = Asks(s, v) /\ O = Answers(s, v, F[s]) /\ V = {v} /\ E = {}
                             /\ N = F[s]
    OBVIOUS
  <2>2. n \in N /\ v \in H => m \in O
    <3> HAVE n \in N /\ v \in H
    <3>1. f = s
      BY <2>1 DEF Author
    <3>3. m.type \in {"SAY", "TELL"} => m.who \in Users
      BY <1>1, Fields DEF Outward
    <3>2. m.type = "ANSWER" /\ m.whom = v
      BY <1>1, <1>3, <3>1, <3>3
    <3> QED BY <1>1, <2>1, <3>2 DEF Answers
  <2>3. m \in O => Placed(O, N, V, x, y, take, S, n)
    <3>1. InOrder(queue, heard, O, N, V) /\ V \in SUBSET Users
      BY <2>1 DEF OrderIn
    <3>2. ASSUME m \in O PROVE Placed(O, N, V, x, y, take, S, m.number)
      BY <1>1, <3>1, <3>2, RelayPlaced
    <3> QED BY <3>2
  <2>4. m \in M => Placed(M, E, E, x, y, take, S, n)
    <3>1. InOrder(queue, heard, M, E, E) /\ E \in SUBSET Users
      BY <2>1 DEF OrderIn
    <3>2. ASSUME m \in M PROVE Placed(M, E, E, x, y, take, S, m.number)
      BY <1>1, <3>1, <3>2, RelayPlaced
    <3> QED BY <3>2
  <2>5. InOrder(queue', heard', Answers(s, v, F[s]), F[s], {v})
    <3>1. /\ m \in O /\ S # {} => m.number = n
          /\ (m \in O /\ S # {}) \/ (n \in F[s] /\ v \in H) => Placed(O, F[s], V, x, y, take, S, n)
      BY <2>1, <2>2, <2>3
    <3> QED BY <2>1, <3>1, AnswersStep
  <2>6. InOrder(queue', heard', Asks(s, v), {}, {})
    BY <2>1, <2>4, AsksStep
  <2>7. AsksLast(queue', heard'[v], Asks(s, v), Answers(s, v, F[s]), F[s])
    <3>1. AsksLast(queue, heard[v], M, O, N)
      BY <2>1 DEF OrderIn
    <3>2. m \in M => m \notin O
      BY <2>1 DEF Asks, Answers
    <3>3. m \in M => /\ \A b, a \in Servers : \A o \in ToSet(queue[b][a]) : o \in O => o.number < m.number
                     /\ \A k \in ToSet(heard[v]) : k \in N => k < m.number
      BY <1>1, <1>2, <3>1 DEF AsksLast
    <3>4. m \in O => \A d, c \in Servers : \A p \in ToSet(Rest(x, y, take, d, c)) : p \in M => n < p.number
      <4> SUFFICES ASSUME m \in O, NEW d \in Servers, NEW c \in Servers, NEW r, r = Rest(x, y, take, d, c),
                          NEW p, p \in ToSet(r), p \in M
                   PROVE  m.number < p.number
        OBVIOUS
      <4>1. ToSet(r) \subseteq ToSet(queue[d][c])
        BY <1>1, RestIs
      <4> QED BY <1>1, <1>2, <3>1, <4>1 DEF AsksLast
    <3> QED BY <2>1, <2>2, <3>2, <3>3, <3>4, LastStep
  <2> QED BY <2>5, <2>6, <2>7
<1> QED BY <1>4, <1>5 DEF OrderIn

\* A message with a new number.
LEMMA NewOrder ==
    ASSUME IInv, NEW F, OrderIn(queue, heard, F),
           NEW x, NEW y, NEW take, NEW S, NEW m, NEW n, NEW H, Step(x, y, take, S, m, n, H),
           n = m.number, NEW f \in Users \cup Servers, Author(F, n, f),
           m.type \in {"SAY", "TELL"} => f = m.who, m.type = "ASK" => f \in Servers /\ H = {},
           m.type \in {"SAY", "TELL", "ASK"}, Home[m.who] = x,
           \A k \in DOMAIN said : k < n
    PROVE  OrderIn(queue', heard', F)
<1>1. /\ x \in Servers /\ y \in Servers /\ m \in Msg /\ Transfer(x, y, take, S, m)
  BY DEF Step, Transfer
<1>2. ASSUME NEW b \in Servers, NEW a \in Servers, NEW r, r = Rest(x, y, take, b, a), NEW o, o \in ToSet(r),
             o.type \in Numbered
      PROVE  o.number < n /\ (o.type # "ANSWER" => Route[a][Home[o.who]] = b)
  <2>1. Fits(o, b, a) /\ Refers(o)
    BY <1>1, <1>2, RestIs
  <2> QED BY <1>2, <2>1 DEF Fits, Refers, Numbered, Outward
<1>3. ASSUME NEW v \in Users, NEW k, k \in ToSet(heard[v]) PROVE k < n
  <2>1. heard[v] \in Seq(DOMAIN said)
    BY DEF IInv, TypeInv, HistoryTyped
  <2>2. k \in DOMAIN said
    BY <1>3, <2>1, ElementOfSeq, LenProperties DEF ToSet
  <2> QED BY <2>2
<1>4. Users \cap Servers = {}
  BY HomeAssumption
<1>5. ASSUME NEW s \in Users PROVE InOrder(queue', heard', SaidBy(s), F[s], Users)
  <2>1. PICK M, N, V : M = SaidBy(s) /\ N = F[s] /\ V = Users
    OBVIOUS
  <2>2. n \in N /\ H # {} => m \in M
    BY <1>1, <1>4, <2>1 DEF Author, SaidBy
  <2>3. m \in M => Placed(M, N, V, x, y, take, S, n)
    <3> HAVE m \in M
    <3>1. \A b, a \in Servers : \A o \in ToSet(Rest(x, y, take, b, a)) : o \in M =>
              Route[a][x] = b /\ o.number < n
      <4> SUFFICES ASSUME NEW b \in Servers, NEW a \in Servers, NEW r, r = Rest(x, y, take, b, a),
                          NEW o, o \in ToSet(r), o \in M
                   PROVE  Route[a][x] = b /\ o.number < n
        OBVIOUS
      <4>1. o.who = m.who /\ o.type \in Numbered /\ o.type # "ANSWER"
        BY <2>1 DEF SaidBy, Numbered
      <4> QED BY <1>2, <4>1
    <3>2. \A v \in V : \A k \in ToSet(heard[v]) : k \in N => k < n
      BY <1>3, <2>1
    <3> QED BY <3>1, <3>2, NewPlaced
  <2>4. /\ m \in SaidBy(s) /\ S # {} => m.number = n
        /\ (m \in SaidBy(s) /\ S # {}) \/ (n \in F[s] /\ H # {}) =>
               Placed(SaidBy(s), F[s], Users, x, y, take, S, n)
    BY <2>1, <2>2, <2>3
  <2> QED BY <2>4, SaysStep
<1>6. ASSUME NEW s \in Servers, NEW v \in Users
      PROVE  /\ InOrder(queue', heard', Answers(s, v, F[s]), F[s], {v})
             /\ InOrder(queue', heard', Asks(s, v), {}, {})
             /\ AsksLast(queue', heard'[v], Asks(s, v), Answers(s, v, F[s]), F[s])
  <2>1. PICK M, O, V, E, N : /\ M = Asks(s, v) /\ O = Answers(s, v, F[s]) /\ V = {v} /\ E = {}
                             /\ N = F[s]
    OBVIOUS
  <2>2. ~(n \in N /\ v \in H) /\ m \notin O
    <3>1. m.who \in Users
      BY <1>1, Fields DEF Outward
    <3>2. n \in N => s = f
      BY <2>1 DEF Author
    <3> QED BY <1>4, <2>1, <3>1, <3>2 DEF Answers
  <2>4. m \in M => Placed(M, E, E, x, y, take, S, n)
    <3> HAVE m \in M
    <3>1. \A b, a \in Servers : \A o \in ToSet(Rest(x, y, take, b, a)) : o \in M =>
              Route[a][x] = b /\ o.number < n
      <4> SUFFICES ASSUME NEW b \in Servers, NEW a \in Servers, NEW r, r = Rest(x, y, take, b, a),
                          NEW o, o \in ToSet(r), o \in M
                   PROVE  Route[a][x] = b /\ o.number < n
        OBVIOUS
      <4>1. o.who = m.who /\ o.type \in Numbered /\ o.type # "ANSWER"
        BY <2>1 DEF Asks, Numbered
      <4> QED BY <1>2, <4>1
    <3>2. \A w \in E : \A k \in ToSet(heard[w]) : k \in E => k < n
      BY <2>1
    <3> QED BY <3>1, <3>2, NewPlaced
  <2>5. InOrder(queue', heard', Answers(s, v, F[s]), F[s], {v})
    BY <2>1, <2>2, AnswersStep
  <2>6. InOrder(queue', heard', Asks(s, v), {}, {})
    BY <2>1, <2>4, AsksStep
  <2>7. AsksLast(queue', heard'[v], Asks(s, v), Answers(s, v, F[s]), F[s])
    <3>1. \A b, a \in Servers : \A o \in ToSet(queue[b][a]) : o \in O => o.number < m.number
      <4> SUFFICES ASSUME NEW b \in Servers, NEW a \in Servers, NEW o, o \in ToSet(queue[b][a]), o \in O
                   PROVE  o.number < n
        OBVIOUS
      <4>1. Refers(o) /\ o.type = "ANSWER"
        BY <2>1 DEF IInv, Traffic, Answers
      <4> QED BY <4>1 DEF Refers, Numbered
    <3>2. \A k \in ToSet(heard[v]) : k \in F[s] => k < m.number
      BY <1>3
    <3> QED BY <2>1, <2>2, <3>1, <3>2, LastStep
  <2> QED BY <2>5, <2>6, <2>7
<1> QED BY <1>5, <1>6 DEF OrderIn

\* What was said so far.
Sourced(F) == \A s \in Users \cup Servers, k \in DOMAIN said : k \in F[s] <=> said[k].from = s

\* The answer of the server that is asked.
LEMMA AnsweredOrder ==
    ASSUME IInv, NEW F, OrderIn(queue, heard, F), Sourced(F),
           NEW x, NEW y, NEW take, NEW S, NEW m, NEW n, NEW H, Step(x, y, take, S, m, n, H),
           NEW h, Takes(x, y, take, h), h.type = "ASK", h.server = x,
           m.type = "ANSWER", m.whom = h.who, m.number = n, h.number = n, H = {}, Author(F, n, x)
    PROVE  OrderIn(queue', heard', F)
<1>1. /\ x \in Servers /\ y \in Servers /\ queue[y][x] # <<>> /\ h = Head(queue[y][x]) /\ m \in Msg
      /\ Transfer(x, y, take, S, m)
  BY DEF Step, Transfer, Takes
<1>2. h \in ToSet(queue[y][x]) /\ h \in Msg
  BY <1>1, FirstMessage, TailIs
<1>3. ASSUME NEW s \in Users PROVE InOrder(queue', heard', SaidBy(s), F[s], Users)
  <2>1. ~(m \in SaidBy(s) /\ S # {}) /\ ~(n \in F[s] /\ H # {})
    BY DEF SaidBy
  <2> QED BY <2>1, SaysStep
<1>4. ASSUME NEW s \in Servers, NEW v \in Users
      PROVE  /\ InOrder(queue', heard', Answers(s, v, F[s]), F[s], {v})
             /\ InOrder(queue', heard', Asks(s, v), {}, {})
             /\ AsksLast(queue', heard'[v], Asks(s, v), Answers(s, v, F[s]), F[s])
  <2>1. PICK M, O, V, E, N : /\ M = Asks(s, v) /\ O = Answers(s, v, F[s]) /\ V = {v} /\ E = {}
                             /\ N = F[s]
    OBVIOUS
  <2>2. v \notin H /\ m \notin M
    BY <2>1 DEF Asks
  <2>3. m \in O => h \in M /\ s = x
    <3> HAVE m \in O
    <3>1. m.whom = v /\ m.number \in F[s]
      BY <2>1 DEF Answers
    <3>2. s = x
      BY <3>1 DEF Author
    <3> QED BY <1>2, <2>1, <3>1, <3>2 DEF Asks
  <2>4. AsksLast(queue, heard[v], M, O, N)
    BY <2>1 DEF OrderIn
  <2>5. m \in O => Placed(O, N, V, x, y, take, S, n)
    <3> HAVE m \in O
    <3>1. \A b, a \in Servers : \A o \in ToSet(Rest(x, y, take, b, a)) : o \in O =>
              Route[a][x] = b /\ o.number < n
      <4> SUFFICES ASSUME NEW b \in Servers, NEW a \in Servers, NEW r, r = Rest(x, y, take, b, a),
                          NEW o, o \in ToSet(r), o \in O
                   PROVE  Route[a][x] = b /\ o.number < n
        OBVIOUS
      <4>1. Fits(o, b, a) /\ Refers(o) /\ ToSet(r) \subseteq ToSet(queue[b][a])
        BY <1>1, RestWas
      <4>2. o.type = "ANSWER" /\ o.number \in F[x]
        BY <2>1, <2>3 DEF Answers
      <4>3. o.number \in DOMAIN said
        BY <4>1, <4>2 DEF Refers, Numbered
      <4>4. said[o.number].from = x
        BY <1>1, <4>2, <4>3 DEF Sourced
      <4>5. Route[a][x] = b
        BY <4>1, <4>2, <4>4 DEF Fits
      <4>6. o.number < h.number
        BY <1>1, <1>2, <2>3, <2>4, <4>1 DEF AsksLast
      <4> QED BY <4>5, <4>6
    <3>2. \A w \in V : \A k \in ToSet(heard[w]) : k \in N => k < n
      BY <1>1, <1>2, <2>1, <2>3, <2>4 DEF AsksLast
    <3> QED BY <3>1, <3>2, NewPlaced
  <2>6. m \in O => \A d, c \in Servers : \A p \in ToSet(Rest(x, y, take, d, c)) : p \in M => n < p.number
    <3> SUFFICES ASSUME m \in O, NEW d \in Servers, NEW c \in Servers, NEW r, r = Rest(x, y, take, d, c),
                        NEW p, p \in ToSet(r), p \in M
                 PROVE  h.number < p.number
      OBVIOUS
    <3>1. Rising(queue[y][x], M) /\ Ahead(queue, M)
      BY <1>1, <2>1 DEF OrderIn, InOrder
    <3>2. Fits(p, d, c) /\ ToSet(r) \subseteq ToSet(queue[d][c])
      BY <1>1, RestWas
    <3>3. p.type = "ASK" /\ p.server = x
      BY <2>1, <2>3 DEF Asks
    <3>4. Route[d][x] = c
      BY <3>2, <3>3 DEF Fits
    <3>5. d # c /\ Route[d][c] = c
      BY <3>2 DEF IInv, Peered, ToSet
    <3>6. Route[c][x] # d
      BY <1>1, <3>4, <3>5, OneSide
    <3> QED BY <1>1, <2>3, <3>1, <3>6, HeadIsAhead
  <2>7. InOrder(queue', heard', Answers(s, v, F[s]), F[s], {v})
    <3>1. /\ m \in O /\ S # {} => m.number = n
          /\ (m \in O /\ S # {}) \/ (n \in F[s] /\ v \in H) => Placed(O, F[s], V, x, y, take, S, n)
      BY <2>1, <2>2, <2>5
    <3> QED BY <2>1, <3>1, AnswersStep
  <2>8. InOrder(queue', heard', Asks(s, v), {}, {})
    BY <2>1, <2>2, AsksStep
  <2>9. AsksLast(queue', heard'[v], Asks(s, v), Answers(s, v, F[s]), F[s])
    BY <2>1, <2>2, <2>6, LastStep
  <2> QED BY <2>7, <2>8, <2>9
<1> QED BY <1>3, <1>4 DEF OrderIn

-----------------------------------------------------------------------------
(* Commands and handlers keep the order. *)

\* What was said before the step is in order also by the sources after it.
LEMMA SourcesStay ==
    ASSUME IInv, OrderInv, SaidKept, NEW F, F = Sources'
    PROVE  OrderIn(queue, heard, F) /\ Sourced(F)
<1>1. PICK G : G = Sources
  OBVIOUS
<1>2. \A s \in Users \cup Servers : \A k \in DOMAIN said : k \in F[s] <=> k \in G[s]
  BY <1>1 DEF Sources, SaidKept
<1>3. OrderIn(queue, heard, G)
  BY <1>1 DEF OrderInv
<1>4. ASSUME NEW v \in Users, NEW k, k \in ToSet(heard[v]) PROVE k \in DOMAIN said
  <2>1. heard[v] \in Seq(DOMAIN said)
    BY DEF IInv, TypeInv, HistoryTyped
  <2> QED BY <1>4, <2>1, ElementOfSeq, LenProperties DEF ToSet
<1>5. ASSUME NEW b \in Servers, NEW a \in Servers, NEW o, o \in ToSet(queue[b][a]), o.type = "ANSWER"
      PROVE  o.number \in DOMAIN said
  BY <1>5 DEF IInv, Traffic, Refers, Numbered
<1>6. ASSUME NEW s \in Users PROVE InOrder(queue, heard, SaidBy(s), F[s], Users)
  <2>1. PICK M, N, N2, V : M = SaidBy(s) /\ N = G[s] /\ N2 = F[s] /\ V = Users
    OBVIOUS
  <2>2. InOrder(queue, heard, M, N, V)
    BY <1>3, <2>1 DEF OrderIn
  <2>3. \A v \in V : \A n \in ToSet(heard[v]) : n \in N2 => n \in N
    BY <1>2, <1>4, <2>1
  <2>4. InOrder(queue, heard, M, N2, V)
    BY <2>2, <2>3, FewerInOrder
  <2> QED BY <2>1, <2>4
<1>7. ASSUME NEW s \in Servers, NEW v \in Users
      PROVE  /\ InOrder(queue, heard, Answers(s, v, F[s]), F[s], {v})
             /\ InOrder(queue, heard, Asks(s, v), {}, {})
             /\ AsksLast(queue, heard[v], Asks(s, v), Answers(s, v, F[s]), F[s])
  <2>1. PICK M, M2, N, N2, V : /\ M = Answers(s, v, G[s]) /\ M2 = Answers(s, v, F[s])
                               /\ N = G[s] /\ N2 = F[s] /\ V = {v}
    OBVIOUS
  <2>2. InOrder(queue, heard, M, N, V)
    BY <1>3, <2>1 DEF OrderIn
  <2>3. \A w \in V : \A n \in ToSet(heard[w]) : n \in N2 => n \in N
    BY <1>2, <1>4, <2>1
  <2>4. \A y, x \in Servers : \A m \in ToSet(queue[y][x]) : m \in M2 => m \in M
    BY <1>2, <1>5, <2>1 DEF Answers
  <2>5. InOrder(queue, heard, M2, N2, V)
    BY <2>2, <2>3, <2>4, FewerInOrder
  <2>6. AsksLast(queue, heard[v], Asks(s, v), M, N)
    BY <1>3, <2>1 DEF OrderIn
  <2>7. \A n \in ToSet(heard[v]) : n \in N2 => n \in N
    BY <2>1, <2>3
  <2>8. AsksLast(queue, heard[v], Asks(s, v), M2, N2)
    BY <2>4, <2>6, <2>7 DEF AsksLast
  <2>9. InOrder(queue, heard, Asks(s, v), {}, {})
    BY <1>3 DEF OrderIn
  <2> QED BY <2>1, <2>5, <2>8, <2>9
<1>8. Sourced(F)
  BY DEF Sourced, Sources, SaidKept
<1> QED BY <1>6, <1>7, <1>8 DEF OrderIn

LEMMA AuthorIs ==
    ASSUME NEW F, F = Sources', NEW n \in DOMAIN said', NEW f, f = said'[n].from
    PROVE  Author(F, n, f)
BY DEF Author, Sources

\* Nobody is sent his own message, if the step sends none to its author, but for
\* the one it is to.
LEMMA NotOwnStep ==
    ASSUME IInv, NotOwn, SaidKept, NEW H, NEW n \in Nat, Hear(H, n),
           \A v \in H : OthersSay(v, n)'
    PROVE  NotOwn'
<1>1. ASSUME NEW v \in Users
      PROVE  \A k \in ToSet(heard'[v]) : k \in ToSet(heard[v]) \/ (k = n /\ v \in H)
  BY HearIs
<1>2. ASSUME NEW v \in Users, NEW k, k \in ToSet(heard[v]) PROVE OthersSay(v, k)'
  <2>1. heard[v] \in Seq(DOMAIN said)
    BY DEF IInv, TypeInv, HistoryTyped
  <2>2. k \in DOMAIN said
    BY <1>2, <2>1, ElementOfSeq, LenProperties DEF ToSet
  <2> QED BY <1>2, <2>2 DEF SaidKept, NotOwn, OthersSay
<1> QED BY <1>1, <1>2 DEF NotOwn

LEMMA SilentOrder ==
    ASSUME IInv, OrderInv, SaidKept, NEW x, NEW y, NEW take, NEW S, NEW m,
           Transfer(x, y, take, S, m), heard' = heard, S = {} \/ m.type \notin Numbered
    PROVE  OrderInv'
<1>1. PICK F : F = Sources'
  OBVIOUS
<1>2. OrderIn(queue, heard, F)
  BY <1>1, SourcesStay
<1>3. OrderIn(queue', heard', F)
  BY <1>2, QuietOrder
<1>4. NotOwn'
  <2>1. PICK H, n : H = {} /\ n = 0
    OBVIOUS
  <2>2. Hear(H, n) /\ n \in Nat /\ \A v \in H : OthersSay(v, n)'
    BY <2>1 DEF Hear, IInv, TypeInv, HistoryTyped
  <2> QED BY <2>2, NotOwnStep DEF OrderInv
<1> QED BY <1>1, <1>3, <1>4 DEF OrderInv

LEMMA HaltOrder ==
    ASSUME OrderInv, queue' = queue, said' = said, heard' = heard
    PROVE  OrderInv'
<1>1. Sources' = Sources /\ NotOwn'
  BY DEF Sources, OrderInv, NotOwn, OthersSay
<1> QED BY <1>1 DEF OrderInv

-----------------------------------------------------------------------------
(* Commands and handlers that are not about what is said. *)

\* What remains to be shown of such a command.
LEMMA SilentCommand ==
    ASSUME IInv, OrderInv, NEW x, NEW y, NEW S, NEW m, Transfer(x, y, FALSE, S, m),
           SaidKept, heard' = heard, m.type \notin Numbered
    PROVE  OrderInv'
<1>1. PICK take : take = FALSE
  OBVIOUS
<1>2. Transfer(x, y, take, S, m)
  BY <1>1
<1> QED BY <1>2, SilentOrder

LEMMA NickOrder ==
    ASSUME IInv, OrderInv, NEW u \in Users, NICK(u)
    PROVE  OrderInv'
<1>1. PICK a, S, m : a = Home[u] /\ S = peers[a] /\ m = NICKof(u)
  OBVIOUS
<1>2. Transfer(a, a, FALSE, S, m)
  BY <1>1, NickKeeps
<1>3. m.type \notin Numbered
  BY <1>1 DEF NICKof, Numbered
<1>4. SaidKept /\ heard' = heard
  BY SaidStays DEF NICK, history
<1> QED BY <1>2, <1>3, <1>4, SilentCommand

LEMMA JoinOrder ==
    ASSUME IInv, OrderInv, NEW u \in Users, NEW c \in Chans, JOIN(u, c)
    PROVE  OrderInv'
<1>1. PICK a, S, m : a = Home[u] /\ S = peers[a] /\ m = JOINof(u, c)
  OBVIOUS
<1>2. Transfer(a, a, FALSE, S, m)
  BY <1>1, JoinKeeps
<1>3. m.type \notin Numbered
  BY <1>1 DEF JOINof, Numbered
<1>4. SaidKept /\ heard' = heard
  BY SaidStays DEF JOIN, history
<1> QED BY <1>2, <1>3, <1>4, SilentCommand

LEMMA PartOrder ==
    ASSUME IInv, OrderInv, NEW u \in Users, NEW c \in Chans, PART(u, c)
    PROVE  OrderInv'
<1>1. PICK a, S, m : a = Home[u] /\ S = peers[a] /\ m = PARTof(u, c)
  OBVIOUS
<1>2. Transfer(a, a, FALSE, S, m) /\ SaidKept
  BY <1>1, PartKeeps
<1>3. m.type \notin Numbered
  BY <1>1 DEF PARTof, Numbered
<1>4. heard' = heard
  BY DEF PART
<1> QED BY <1>2, <1>3, <1>4, SilentCommand

LEMMA QuitOrder ==
    ASSUME IInv, OrderInv, NEW u \in Users, QUIT(u)
    PROVE  OrderInv'
<1>1. PICK a, S, m : a = Home[u] /\ S = peers[a] /\ m = QUITof(u)
  OBVIOUS
<1>2. Transfer(a, a, FALSE, S, m) /\ SaidKept
  BY <1>1, QuitKeeps
<1>3. m.type \notin Numbered
  BY <1>1 DEF QUITof, Numbered
<1>4. heard' = heard
  BY DEF QUIT
<1> QED BY <1>2, <1>3, <1>4, SilentCommand

LEMMA KickOrder ==
    ASSUME IInv, OrderInv, NEW u \in Users, NEW v \in Users, NEW c \in Chans, KICK(u, v, c)
    PROVE  OrderInv'
<1>1. PICK a, S, m : a = Home[u] /\ S = peers[a] /\ m = KICKof(u, v, c)
  OBVIOUS
<1>2. Transfer(a, a, FALSE, S, m) /\ SaidKept
  BY <1>1, KickKeeps
<1>3. m.type \notin Numbered
  BY <1>1 DEF KICKof, Numbered
<1>4. heard' = heard
  BY DEF KICK
<1> QED BY <1>2, <1>3, <1>4, SilentCommand

LEMMA ModeOrder ==
    ASSUME IInv, OrderInv, NEW u \in Users, NEW c \in Chans, NEW f \in Modes, NEW on \in BOOLEAN,
           MODE(u, c, f, on)
    PROVE  OrderInv'
<1>1. PICK a, S : a = Home[u] /\ S = peers[a]
  OBVIOUS
<1>2. PICK m : m.type \in {"FLAG", "QUERY"} /\ Transfer(a, a, FALSE, S, m) /\ m.who = u
  BY <1>1, ModeKeeps
<1>3. m.type \notin Numbered
  BY <1>2 DEF Numbered
<1>4. SaidKept /\ heard' = heard
  BY SaidStays DEF MODE, history
<1> QED BY <1>2, <1>3, <1>4, SilentCommand

LEMMA ModeRightOrder ==
    ASSUME IInv, OrderInv, NEW u \in Users, NEW c \in Chans, NEW r \in Rights, NEW on \in BOOLEAN,
           NEW v \in Users, ModeRight(u, c, r, on, v)
    PROVE  OrderInv'
<1>1. PICK a, S : a = Home[u] /\ S = peers[a]
  OBVIOUS
<1>2. PICK m : m.type = "RIGHT" /\ Transfer(a, a, FALSE, S, m) /\ m.who = u
  BY <1>1, ModeRightKeeps
<1>3. m.type \notin Numbered
  BY <1>2 DEF Numbered
<1>4. SaidKept /\ heard' = heard
  BY SaidStays DEF ModeRight, history
<1> QED BY <1>2, <1>3, <1>4, SilentCommand

LEMMA TopicOrder ==
    ASSUME IInv, OrderInv, NEW u \in Users, NEW c \in Chans, NEW t \in Topics \cup {None}, TOPIC(u, c, t)
    PROVE  OrderInv'
<1>1. PICK a, S : a = Home[u] /\ S = peers[a]
  OBVIOUS
<1>2. PICK m : m.type = "TOPIC" /\ Transfer(a, a, FALSE, S, m)
  BY <1>1, TopicKeeps
<1>3. m.type \notin Numbered
  BY <1>2 DEF Numbered
<1>4. SaidKept /\ heard' = heard
  BY SaidStays DEF TOPIC, history
<1> QED BY <1>2, <1>3, <1>4, SilentCommand

\* What remains to be shown of a handler that is not about it.
LEMMA SilentHandler ==
    ASSUME IInv, OrderInv, NEW x, NEW y, NEW S, NEW m, Transfer(x, y, TRUE, S, m),
           SaidKept, heard' = heard, m.type \notin Numbered
    PROVE  OrderInv'
<1>1. PICK take : take = TRUE
  OBVIOUS
<1>2. Transfer(x, y, take, S, m)
  BY <1>1
<1> QED BY <1>2, SilentOrder

LEMMA ReceiveNickOrder ==
    ASSUME IInv, OrderInv, NEW x \in Servers, NEW y \in Servers, ReceiveNick(x, y)
    PROVE  OrderInv'
<1>1. PICK m, S : m = Head(queue[y][x]) /\ S = Others(x, y)
  OBVIOUS
<1>2. Transfer(x, y, TRUE, S, m) /\ m.type = "NICK"
  BY <1>1, ReceiveNickKeeps
<1>3. SaidKept /\ heard' = heard /\ m.type \notin Numbered
  BY <1>2, SaidStays DEF ReceiveNick, history, Numbered
<1> QED BY <1>2, <1>3, SilentHandler

LEMMA ReceiveJoinOrder ==
    ASSUME IInv, OrderInv, NEW x \in Servers, NEW y \in Servers, ReceiveJoin(x, y)
    PROVE  OrderInv'
<1>1. PICK m : m = Head(queue[y][x])
  OBVIOUS
<1>2. /\ SaidKept /\ m = JOINof(m.who, m.chan)
      /\ Transfer(x, y, TRUE, Others(x, y), m) \/ Transfer(x, y, TRUE, {}, m)
  BY <1>1, ReceiveJoinKeeps
<1>3. PICK S : Transfer(x, y, TRUE, S, m)
  BY <1>2
<1>4. heard' = heard
  BY DEF ReceiveJoin, history
<1>5. m.type \notin Numbered
  BY <1>2 DEF JOINof, Numbered
<1> QED BY <1>2, <1>3, <1>4, <1>5, SilentHandler

LEMMA ReceivePartOrder ==
    ASSUME IInv, OrderInv, NEW x \in Servers, NEW y \in Servers, ReceivePart(x, y)
    PROVE  OrderInv'
<1>1. PICK m, S : m = Head(queue[y][x]) /\ S = Others(x, y)
  OBVIOUS
<1>2. /\ m = PARTof(m.who, m.chan) /\ UNCHANGED history
      /\ Transfer(x, y, TRUE, Others(x, y), m) \/ queue' = queue
  BY <1>1, ReceivePartKeeps
<1>3. CASE Transfer(x, y, TRUE, S, m)
  <2>1. m.type \notin Numbered
    BY <1>2 DEF PARTof, Numbered
  <2>2. SaidKept /\ heard' = heard
    BY <1>2, SaidStays DEF history
  <2> QED BY <1>3, <2>1, <2>2, SilentHandler
<1>4. CASE queue' = queue
  BY <1>2, <1>4, HaltOrder DEF history
<1> QED BY <1>1, <1>2, <1>3, <1>4

LEMMA ReceiveQuitOrder ==
    ASSUME IInv, OrderInv, NEW x \in Servers, NEW y \in Servers, ReceiveQuit(x, y)
    PROVE  OrderInv'
<1>1. PICK m, S : m = Head(queue[y][x]) /\ S = Others(x, y)
  OBVIOUS
<1>2. Transfer(x, y, TRUE, S, m) /\ m = QUITof(m.who) /\ UNCHANGED history
  BY <1>1, ReceiveQuitKeeps
<1>3. SaidKept /\ heard' = heard
  BY <1>2, SaidStays DEF history
<1>4. m.type \notin Numbered
  BY <1>2 DEF QUITof, Numbered
<1> QED BY <1>2, <1>3, <1>4, SilentHandler

LEMMA ReceiveKickOrder ==
    ASSUME IInv, OrderInv, NEW x \in Servers, NEW y \in Servers, ReceiveKick(x, y)
    PROVE  OrderInv'
<1>1. PICK m : m = Head(queue[y][x])
  OBVIOUS
<1>2. /\ m.type = "KICK" /\ UNCHANGED history
      /\ Transfer(x, y, TRUE, Others(x, y), m) \/ Transfer(x, y, TRUE, {}, m)
  BY <1>1, ReceiveKickKeeps
<1>3. PICK S : Transfer(x, y, TRUE, S, m)
  BY <1>2
<1>4. SaidKept /\ heard' = heard /\ m.type \notin Numbered
  BY <1>2, SaidStays DEF history, Numbered
<1> QED BY <1>3, <1>4, SilentHandler

LEMMA DiesOrder ==
    ASSUME OrderInv, Dies \/ Undefined
    PROVE  OrderInv'
BY HaltOrder DEF Dies, Undefined, history

LEMMA ReceiveModeOrder ==
    ASSUME IInv, OrderInv, NEW x \in Servers, NEW y \in Servers, ReceiveMode(x, y)
    PROVE  OrderInv'
<1>1. PICK m, S : m = Head(queue[y][x]) /\ S = Others(x, y)
  OBVIOUS
<1>2. status = "running"
  BY <1>1, ReceivesIs DEF ReceiveMode
<1>3. CASE Dies
  BY <1>3, DiesOrder
<1>4. CASE ~Dies
  <2>1. status' = "running"
    BY <1>2, <1>4 DEF ReceiveMode
  <2>2. /\ UNCHANGED history
        /\ \E o : o.type \in {"FLAG", "QUERY"} /\ o.who = m.who /\ Transfer(x, y, TRUE, Others(x, y), o)
    BY <1>1, <2>1, ReceiveModeKeeps
  <2>3. PICK o : /\ o.type \in {"FLAG", "QUERY"} /\ o.who = m.who
                 /\ Transfer(x, y, TRUE, Others(x, y), o)
    BY <2>2
  <2>5. Transfer(x, y, TRUE, S, o)
    BY <1>1, <2>3
  <2>4. SaidKept /\ heard' = heard /\ o.type \notin Numbered
    BY <2>2, <2>3, SaidStays DEF history, Numbered
  <2> QED BY <2>4, <2>5, SilentHandler
<1> QED BY <1>3, <1>4

LEMMA ReceiveRightOrder ==
    ASSUME IInv, OrderInv, NEW x \in Servers, NEW y \in Servers, ReceiveRight(x, y)
    PROVE  OrderInv'
<1>1. PICK m, S : m = Head(queue[y][x]) /\ S = Others(x, y)
  OBVIOUS
<1>2. status = "running"
  BY <1>1, ReceivesIs DEF ReceiveRight
<1>3. CASE Dies
  BY <1>3, DiesOrder
<1>4. CASE ~Dies
  <2>1. status' = "running"
    BY <1>2, <1>4 DEF ReceiveRight
  <2>2. UNCHANGED history /\ m.type = "RIGHT" /\ Transfer(x, y, TRUE, S, m)
    BY <1>1, <2>1, ReceiveRightKeeps
  <2>3. SaidKept /\ heard' = heard /\ m.type \notin Numbered
    BY <2>2, SaidStays DEF history, Numbered
  <2> QED BY <2>2, <2>3, SilentHandler
<1> QED BY <1>3, <1>4

LEMMA ReceiveTopicOrder ==
    ASSUME IInv, OrderInv, NEW x \in Servers, NEW y \in Servers, ReceiveTopic(x, y)
    PROVE  OrderInv'
<1>1. PICK m : m = Head(queue[y][x])
  OBVIOUS
<1>2. status = "running"
  BY <1>1, ReceivesIs DEF ReceiveTopic
<1>3. CASE Dies
  BY <1>3, DiesOrder
<1>4. CASE ~Dies
  <2>1. status' = "running"
    BY <1>2, <1>4 DEF ReceiveTopic, Dropped
  <2>2. /\ UNCHANGED history /\ m.type = "TOPIC"
        /\ Transfer(x, y, TRUE, {}, m) \/ Transfer(x, y, TRUE, peers[x], m)
    BY <1>1, <2>1, ReceiveTopicKeeps
  <2>3. PICK S : Transfer(x, y, TRUE, S, m)
    BY <2>2
  <2>4. SaidKept /\ heard' = heard /\ m.type \notin Numbered
    BY <2>2, SaidStays DEF history, Numbered
  <2> QED BY <2>3, <2>4, SilentHandler
<1> QED BY <1>3, <1>4

LEMMA ReceiveNjoinOrder ==
    ASSUME IInv, OrderInv, NEW x \in Servers, NEW y \in Servers, ReceiveNjoin(x, y)
    PROVE  OrderInv'
<1>1. PICK m : m = Head(queue[y][x])
  OBVIOUS
<1>2. /\ m.type = "NJOIN" /\ SaidKept /\ UNCHANGED <<said, heard>>
      /\ Ignored(x, y, m) \/ Unmade(x, m) \/ Created(x, y, m)
  BY <1>1, ReceiveNjoinKeeps
<1>3. CASE Unmade(x, m)
  BY <1>2, <1>3, HaltOrder DEF Unmade
<1>4. CASE Ignored(x, y, m) \/ Created(x, y, m)
  <2>1. PICK S : Transfer(x, y, TRUE, S, m)
    BY <1>4 DEF Ignored, Created
  <2>2. m.type \notin Numbered
    BY <1>2 DEF Numbered
  <2> QED BY <1>2, <2>1, <2>2, SilentHandler
<1> QED BY <1>2, <1>3, <1>4

LEMMA ReceiveServerTopicOrder ==
    ASSUME IInv, OrderInv, NEW x \in Servers, NEW y \in Servers, ReceiveServerTopic(x, y)
    PROVE  OrderInv'
<1>1. PICK m, S : m = Head(queue[y][x]) /\ S = {}
  OBVIOUS
<1>2. m.type = "STOPIC" /\ UNCHANGED history /\ SaidKept /\ Transfer(x, y, TRUE, S, m)
  BY <1>1, ReceiveServerTopicKeeps
<1>3. heard' = heard /\ m.type \notin Numbered
  BY <1>2 DEF history, Numbered
<1> QED BY <1>2, <1>3, SilentHandler

LEMMA ReceiveServerModeOrder ==
    ASSUME IInv, OrderInv, NEW x \in Servers, NEW y \in Servers, ReceiveServerMode(x, y)
    PROVE  OrderInv'
<1>1. PICK m, S : m = Head(queue[y][x]) /\ S = {}
  OBVIOUS
<1>2. m.type = "SMODE" /\ UNCHANGED history /\ SaidKept /\ Transfer(x, y, TRUE, S, m)
  BY <1>1, ReceiveServerModeKeeps
<1>3. heard' = heard /\ m.type \notin Numbered
  BY <1>2 DEF history, Numbered
<1> QED BY <1>2, <1>3, SilentHandler

-----------------------------------------------------------------------------
(* What is said, asked and answered. *)

\* Who is sent something by x itself is at home there.
LEMMA AtHome ==
    ASSUME IInv, NEW x \in Servers, NEW v \in Users, usr[x][v] = x
    PROVE  Home[v] = x
<1>1. usr[x][v] # None
  BY NoneAssumption
<1>2. Route[x][Home[v]] = x /\ Home[v] \in Servers
  BY <1>1, ServerOf DEF IInv, UsersFit
<1> QED BY <1>2, NextHop

LEMMA ReadersAtHome ==
    ASSUME IInv, NEW x \in Servers, NEW u, NEW c, NEW v, v \in LocalReaders(x, u, c)
    PROVE  v \in Users /\ v # u /\ Home[v] = x
BY AtHome DEF LocalReaders

\* What is said or asked anew, with the number n.
LEMMA SaidOrder ==
    ASSUME IInv, OrderInv, NEW f \in Users \cup Servers, NEW d \in Users \cup Chans,
           NEW R \in SUBSET Users, Says(f, d, R), apart' = apart, NEW x, NEW y, NEW take, NEW S, NEW m, NEW n, n = Len(said) + 1, NEW H,
           Step(x, y, take, S, m, n, H), n = m.number, f \in H => d = f,
           m.type \in {"SAY", "TELL"} => f = m.who, m.type = "ASK" => f \in Servers /\ H = {},
           m.type \in {"SAY", "TELL", "ASK"}, Home[m.who] = x
    PROVE  OrderInv'
<1>1. /\ SaidKept /\ n \in DOMAIN said' /\ said'[n].from = f /\ said'[n].to = d /\ n \in Nat
      /\ \A k \in DOMAIN said : k < n
  BY SaysEffect DEF IInv, TypeInv
<1>2. PICK F : F = Sources'
  OBVIOUS
<1>3. OrderIn(queue, heard, F) /\ Author(F, n, f)
  BY <1>1, <1>2, SourcesStay, AuthorIs
<1>4. OrderIn(queue', heard', F)
  BY <1>1, <1>3, NewOrder
<1>5. \A v \in H : OthersSay(v, n)'
  BY <1>1 DEF OthersSay
<1>6. NotOwn'
  BY <1>1, <1>5, NotOwnStep DEF Step, OrderInv
<1> QED BY <1>2, <1>4, <1>6 DEF OrderInv

LEMMA PrivmsgOrder ==
    ASSUME IInv, OrderInv, NEW u \in Users, NEW c \in Chans, PRIVMSG(u, c)
    PROVE  OrderInv'
<1> DEFINE Readers == {v \in channels[Home[u]][c].users \ {u} : Member(Home[v], v, c) /\ <<v, c>> \notin apart}
<1>1. PICK x, n, m, S, H, R, take :
          /\ x = Home[u] /\ n = Len(said) + 1 /\ m = SAYof(u, c, n) /\ S = peers[x] /\ R = Readers
          /\ H = LocalReaders(x, u, c) /\ take = FALSE
  OBVIOUS
<1>2. Transfer(x, x, take, S, m)
  BY <1>1, PrivmsgKeeps
<1>3. m.type = "SAY" /\ m.who = u /\ m.number = n /\ x \in Servers
  BY <1>1, ServerOf DEF SAYof
<1>4. Hears(x, u, c, n) /\ Says(u, c, R) /\ apart' = apart /\ Exists(x, c)
  BY <1>1 DEF PRIVMSG, Says
<1>5. R \in SUBSET Users
  <2>1. channels[x][c] \in Channel
    BY <1>3, <1>4, ChannelAt DEF Exists, IInv, TypeInv
  <2> QED BY <1>1, <2>1 DEF Channel
<1>6. Hear(H, n) /\ n \in Nat
  <2>1. Len(said) \in Nat
    BY LenProperties DEF IInv, TypeInv, HistoryTyped, Sayings
  <2> QED BY <1>1, <1>4, <2>1, HearsIs
<1>7. Step(x, x, take, S, m, n, H) /\ u \notin H
  BY <1>1, <1>2, <1>3, <1>6, ReadersAtHome DEF Step
<1> HIDE DEF Readers
<1> QED BY <1>1, <1>3, <1>4, <1>5, <1>7, SaidOrder

LEMMA PrivmsgUserOrder ==
    ASSUME IInv, OrderInv, NEW u \in Users, NEW v \in Users, PrivmsgUser(u, v)
    PROVE  OrderInv'
<1>1. PICK x, n, m, S, H, R, take :
          /\ x = Home[u] /\ n = Len(said) + 1 /\ m = TELLof(u, v, n) /\ S = Towards(x, v)
          /\ R = {w \in {v} : Settled(w)} /\ H = {w \in {v} : usr[x][w] = x} /\ take = FALSE
  OBVIOUS
<1>2. Transfer(x, x, take, S, m)
  BY <1>1, PrivmsgUserKeeps
<1>3. m.type = "TELL" /\ m.who = u /\ m.number = n /\ x \in Servers
  BY <1>1, ServerOf DEF TELLof
<1>4. Forward(queue, x, v, m) /\ Says(u, v, R) /\ apart' = apart
  BY <1>1 DEF PrivmsgUser, Says
<1>5. R \in SUBSET Users
  BY <1>1
<1>6. Hear(H, n) /\ n \in Nat
  <2>1. Len(said) \in Nat
    BY LenProperties DEF IInv, TypeInv, HistoryTyped, Sayings
  <2>2. m \in Msg /\ queue \in Queues
    BY <1>2 DEF Transfer, IInv, TypeInv
  <2>3. Hear({w \in {v} : usr[x][w] = x}, m.number)
    BY <1>3, <1>4, <2>2, ForwardIs
  <2> QED BY <1>1, <1>3, <2>1, <2>3
<1>7. Step(x, x, take, S, m, n, H) /\ (u \in H => v = u)
  BY <1>1, <1>2, <1>3, <1>6, AtHome DEF Step
<1>8. PICK f, d : f = u /\ d = v
  OBVIOUS
<1>9. /\ f \in Users \cup Servers /\ d \in Users \cup Chans /\ f = m.who /\ Says(f, d, R)
      /\ Home[m.who] = x /\ (f \in H => d = f) /\ n = Len(said) + 1 /\ apart' = apart
  BY <1>1, <1>3, <1>4, <1>7, <1>8
<1>10. /\ m.type \in {"SAY", "TELL"} => f = m.who
       /\ m.type = "ASK" => f \in Servers /\ H = {}
       /\ m.type \in {"SAY", "TELL", "ASK"}
       /\ n = m.number
  BY <1>1, <1>3, <1>7, <1>8
<1>11. R \in SUBSET Users /\ (f \in H => d = f) /\ Step(x, x, take, S, m, n, H)
  BY <1>5, <1>7, <1>9
<1> QED BY <1>9, <1>10, <1>11, SaidOrder

LEMMA VersionOrder ==
    ASSUME IInv, OrderInv, NEW u \in Users, NEW z \in Servers, VERSION(u, z)
    PROVE  OrderInv'
<1>1. PICK x, n, m, S, H, R, take :
          /\ x = Home[u] /\ n = Len(said) + 1 /\ m = ASKof(u, z, n) /\ S = {Route[x][z]}
          /\ R = {u} /\ H = {} /\ take = FALSE
  OBVIOUS
<1>2. Transfer(x, x, take, S, m)
  BY <1>1, VersionKeeps
<1>3. m.type = "ASK" /\ m.who = u /\ m.number = n /\ x \in Servers
  BY <1>1, ServerOf DEF ASKof
<1>4. Says(z, u, R) /\ apart' = apart /\ heard' = heard
  BY <1>1 DEF VERSION, Says
<1>5. R \in SUBSET Users
  BY <1>1
<1>6. Hear(H, n) /\ n \in Nat
  BY <1>1, <1>4, LenProperties DEF Hear, IInv, TypeInv, HistoryTyped, Sayings
<1>7. Step(x, x, take, S, m, n, H) /\ H = {}
  BY <1>1, <1>2, <1>6 DEF Step
<1>8. PICK f, d : f = z /\ d = u
  OBVIOUS
<1>9. /\ f \in Users \cup Servers /\ f \in Servers /\ d \in Users \cup Chans /\ Says(f, d, R)
      /\ Home[m.who] = x /\ f \notin H /\ n = Len(said) + 1 /\ apart' = apart
  BY <1>1, <1>3, <1>4, <1>7, <1>8
<1>10. /\ m.type \in {"SAY", "TELL"} => f = m.who
       /\ m.type = "ASK" => f \in Servers /\ H = {}
       /\ m.type \in {"SAY", "TELL", "ASK"}
       /\ n = m.number
  BY <1>1, <1>3, <1>7, <1>8
<1>11. R \in SUBSET Users /\ (f \in H => d = f) /\ Step(x, x, take, S, m, n, H)
  BY <1>5, <1>7, <1>9
<1> QED BY <1>9, <1>10, <1>11, SaidOrder

\* What is handled by another server.
LEMMA PassedOrder ==
    ASSUME IInv, OrderInv, SaidKept, NEW x, NEW y, NEW take, NEW S, NEW m, NEW n, NEW H,
           Step(x, y, take, S, m, n, H), Takes(x, y, take, m), y \notin S, n = m.number,
           n \in DOMAIN said', NEW f \in Users \cup Servers, f = said'[n].from,
           m.type \in {"SAY", "TELL"} => f = m.who,
           m.type \in {"ASK", "ANSWER"} => f \in Servers,
           m.type = "ASK" => H = {}, m.type = "ANSWER" => H \subseteq {m.whom},
           m.type \in Numbered, f \in H => said'[n].to = f
    PROVE  OrderInv'
<1>1. PICK F : F = Sources'
  OBVIOUS
<1>2. OrderIn(queue, heard, F) /\ Author(F, n, f)
  BY <1>1, SourcesStay, AuthorIs
<1>3. OrderIn(queue', heard', F)
  BY <1>2, RelayOrder
<1>4. \A v \in H : OthersSay(v, n)'
  BY DEF OthersSay
<1>5. NotOwn'
  BY <1>4, NotOwnStep DEF Step, OrderInv
<1> QED BY <1>1, <1>3, <1>5 DEF OrderInv

LEMMA ReceivePrivmsgOrder ==
    ASSUME IInv, OrderInv, NEW x \in Servers, NEW y \in Servers, ReceivePrivmsg(x, y)
    PROVE  OrderInv'
<1>1. PICK m, n, S, H, take :
          /\ m = Head(queue[y][x]) /\ n = m.number /\ S = Others(x, y)
          /\ H = LocalReaders(x, m.who, m.chan) /\ take = TRUE
  OBVIOUS
<1>2. Receives(x, y, "SAY")
  BY DEF ReceivePrivmsg
<1>3. /\ m.type = "SAY" /\ m.who \in Users /\ m.number \in DOMAIN said /\ Refers(m)
      /\ UNCHANGED <<said, apart>> /\ status = "running"
  <2>1. m.type = "SAY" /\ m.who \in Users /\ m.number \in DOMAIN said /\ UNCHANGED <<said, apart>>
    BY <1>1, ReceivePrivmsgKeeps
  <2>2. Refers(m) /\ status = "running"
    BY <1>1, <1>2, ReceivesIs
  <2> QED BY <2>1, <2>2
<1>4. CASE Dies
  BY <1>4, DiesOrder
<1>5. CASE ~Dies
  <2>1. status' = "running"
    BY <1>3, <1>5 DEF ReceivePrivmsg
  <2>2. Hear(LocalReaders(x, m.who, m.chan), m.number) /\ Transfer(x, y, TRUE, Others(x, y), m)
    BY <1>1, <2>1, ReceivePrivmsgKeeps
  <2>3. n \in Nat /\ said'[n].from = m.who /\ n \in DOMAIN said'
    BY <1>1, <1>3, LenProperties DEF IInv, TypeInv, HistoryTyped, Sayings, Refers
  <2>4. Transfer(x, y, take, S, m) /\ Hear(H, n)
    BY <1>1, <2>2
  <2>5. Step(x, y, take, S, m, n, H) /\ m.who \notin H
    <3>1. \A v \in LocalReaders(x, m.who, m.chan) : v \in Users /\ v # m.who /\ Home[v] = x
      BY ReadersAtHome
    <3>2. \A v \in H : v \in Users /\ v # m.who /\ Home[v] = x
      BY <1>1, <3>1
    <3>3. n \in Nat
      BY <2>3
    <3> QED BY <2>4, <3>2, <3>3 DEF Step
  <2>6. Takes(x, y, take, m) /\ y \notin S
    BY <1>1 DEF Takes, Others
  <2>7. SaidKept /\ m.type \in Numbered
    BY <1>3 DEF SaidKept, Numbered
  <2> QED BY <1>1, <1>3, <2>3, <2>5, <2>6, <2>7, PassedOrder
<1> QED BY <1>4, <1>5

\* What is for one user is not sent back.
LEMMA NotBack ==
    ASSUME IInv, NEW x \in Servers, NEW y \in Servers, y # x, Route[x][y] = y,
           NEW v \in Users, Route[y][Home[v]] = x
    PROVE  y \notin Towards(x, v)
<1>1. Route[x][Home[v]] # y
  BY ServerOf, OneSide
<1>2. ASSUME y \in Towards(x, v) PROVE FALSE
  <2>1. usr[x][v] = y
    BY <1>2 DEF Towards
  <2> QED BY <1>1, <2>1, LinkTo
<1> QED BY <1>2

LEMMA ForwardedOrder ==
    ASSUME IInv, OrderInv, NEW x \in Servers, NEW y \in Servers,
           ReceivePrivmsgUser(x, y) \/ ReceiveAnswer(x, y)
    PROVE  OrderInv'
<1>1. PICK m, n, S, H, take :
          /\ m = Head(queue[y][x]) /\ n = m.number /\ S = Towards(x, m.whom)
          /\ H = {w \in {m.whom} : usr[x][w] = x} /\ take = TRUE
  OBVIOUS
<1>2. \E type \in {"TELL", "ANSWER"} : Receives(x, y, type) /\ m.type = type
  BY <1>1, ReceivesIs DEF ReceivePrivmsgUser, ReceiveAnswer
<1>3. /\ m.type \in {"TELL", "ANSWER"} /\ Refers(m) /\ Fits(m, y, x) /\ y # x /\ Route[x][y] = y /\ m \in Msg
  BY <1>1, <1>2, ReceivesIs
<1>4. /\ m.whom \in Users /\ m.number \in DOMAIN said
      /\ Transfer(x, y, TRUE, Towards(x, m.whom), m)
      /\ Hear({w \in {m.whom} : usr[x][w] = x}, m.number)
  BY <1>1, ReceivePrivmsgUserKeeps, ReceiveAnswerKeeps
<1>5. UNCHANGED said /\ apart' = apart
  BY DEF ReceivePrivmsgUser, ReceiveAnswer
<1>6. n \in Nat /\ n \in DOMAIN said' /\ n = m.number
  BY <1>1, <1>4, <1>5, LenProperties DEF IInv, TypeInv, HistoryTyped, Sayings
<1>7. Transfer(x, y, take, S, m) /\ Hear(H, n)
  BY <1>1, <1>4
<1>8. Step(x, y, take, S, m, n, H)
  BY <1>1, <1>4, <1>6, <1>7, AtHome DEF Step
<1>9. Route[y][Home[m.whom]] = x
  BY <1>3 DEF Fits
<1>10. Takes(x, y, take, m) /\ y \notin S
  BY <1>1, <1>3, <1>4, <1>9, NotBack DEF Takes
<1>11. SaidKept /\ m.type \in Numbered
  BY <1>3, <1>5 DEF SaidKept, Numbered
<1>12. PICK f : f = said'[n].from
  OBVIOUS
<1>13. /\ m.type = "TELL" => f = m.who /\ f \in Users /\ said'[n].to = m.whom
       /\ m.type = "ANSWER" => f \in Servers
  BY <1>1, <1>3, <1>5, <1>12, Fields DEF Refers, Fits, Outward
<1>14. (f \in H => said'[n].to = f) /\ H \subseteq {m.whom} /\ f \in Users \cup Servers
  BY <1>1, <1>3, <1>4, <1>13, HomeAssumption
<1>15. /\ m.type \in {"SAY", "TELL"} => f = m.who
       /\ m.type \in {"ASK", "ANSWER"} => f \in Servers
       /\ m.type = "ASK" => H = {}
       /\ m.type = "ANSWER" => H \subseteq {m.whom}
  BY <1>3, <1>13, <1>14
<1> QED BY <1>6, <1>8, <1>10, <1>11, <1>12, <1>14, <1>15, PassedOrder

LEMMA ReceiveVersionOrder ==
    ASSUME IInv, OrderInv, NEW x \in Servers, NEW y \in Servers, ReceiveVersion(x, y)
    PROVE  OrderInv'
<1>1. PICK h, n, H, take : h = Head(queue[y][x]) /\ n = h.number /\ H = {} /\ take = TRUE
  OBVIOUS
<1>2. Receives(x, y, "ASK")
  BY DEF ReceiveVersion
<1>3. /\ h.type = "ASK" /\ h.who \in Users /\ h.server \in Servers /\ h.number \in DOMAIN said
      /\ UNCHANGED history
      /\ \/ h.server = x /\ Transfer(x, y, TRUE, {y}, ANSWERof(h.who, h.number))
         \/ h.server # x /\ Transfer(x, y, TRUE, {Route[x][h.server]}, h)
  BY <1>1, ReceiveVersionKeeps DEF history
<1>4. /\ Fits(h, y, x) /\ Refers(h) /\ y # x /\ Route[x][y] = y
  BY <1>1, <1>2, ReceivesIs
<1>5. /\ said[n].from = h.server /\ said'[n].from = h.server /\ n \in DOMAIN said' /\ n \in Nat
      /\ SaidKept /\ Hear(H, n)
  <2>1. n \in Nat /\ Hear(H, n)
    BY <1>1, <1>3, LenProperties DEF IInv, TypeInv, HistoryTyped, Sayings, Hear, history
  <2> QED BY <1>1, <1>3, <1>4, <2>1, SaidStays DEF Refers, history
<1>6. Takes(x, y, take, h)
  BY <1>1 DEF Takes
<1>7. CASE h.server = x
  <2>1. PICK m, S : m = ANSWERof(h.who, h.number) /\ S = {y}
    OBVIOUS
  <2>2. Transfer(x, y, take, S, m)
    BY <1>1, <1>3, <1>7, <2>1
  <2>3. m.type = "ANSWER" /\ m.whom = h.who /\ m.number = n
    BY <1>1, <2>1 DEF ANSWERof
  <2>4. Step(x, y, take, S, m, n, H)
    BY <1>1, <1>5, <2>2 DEF Step
  <2>5. PICK F : F = Sources'
    OBVIOUS
  <2>6. OrderIn(queue, heard, F) /\ Sourced(F) /\ Author(F, n, x)
    BY <1>5, <1>7, <2>5, SourcesStay, AuthorIs
  <2>7. OrderIn(queue', heard', F)
    BY <1>1, <1>3, <1>6, <1>7, <2>3, <2>4, <2>6, AnsweredOrder
  <2>8. \A v \in H : OthersSay(v, n)'
    BY <1>1
  <2>9. NotOwn'
    BY <1>5, <2>8, NotOwnStep DEF OrderInv
  <2> QED BY <2>5, <2>7, <2>9 DEF OrderInv
<1>8. CASE h.server # x
  <2>1. PICK S : S = {Route[x][h.server]}
    OBVIOUS
  <2>2. Transfer(x, y, take, S, h)
    BY <1>1, <1>3, <1>8, <2>1
  <2>3. Step(x, y, take, S, h, n, H)
    BY <1>1, <1>5, <2>2 DEF Step
  <2>4. Route[y][h.server] = x
    BY <1>3, <1>4 DEF Fits
  <2>5. y \notin S
    BY <1>3, <1>4, <2>1, <2>4, OneSide
  <2>6. h.type \in Numbered /\ h.server \notin H
    BY <1>1, <1>3 DEF Numbered
  <2> QED BY <1>1, <1>3, <1>5, <1>6, <2>3, <2>5, <2>6, PassedOrder
<1> QED BY <1>7, <1>8

-----------------------------------------------------------------------------
(* The order holds in every reachable state. *)

\* A queue that is replaced by one without such messages.
LEMMA ReplacedInOrder ==
    ASSUME NEW Q, NEW L, NEW M, NEW N, NEW V, InOrder(Q, L, M, N, V), NEW P,
           \A b, a \in Servers : P[b][a] = Q[b][a] \/ \A o \in ToSet(P[b][a]) : o \notin M
    PROVE  InOrder(P, L, M, N, V)
<1>1. \A b, a \in Servers : \A o \in ToSet(P[b][a]) : o \in M => o \in ToSet(Q[b][a])
  OBVIOUS
<1>2. ASSUME NEW b \in Servers, NEW a \in Servers PROVE Rising(P[b][a], M)
  <2>1. CASE \A o \in ToSet(P[b][a]) : o \notin M
    <3>1. \A i \in DOMAIN P[b][a] : P[b][a][i] \in ToSet(P[b][a])
      BY DEF ToSet
    <3> QED BY <2>1, <3>1 DEF Rising
  <2>2. CASE P[b][a] = Q[b][a]
    BY <2>2 DEF InOrder
  <2> QED BY <2>1, <2>2
<1>3. Ahead(P, M)
  BY <1>1 DEF InOrder, Ahead
<1>4. Later(P, L, M, N, V)
  BY <1>1 DEF InOrder, Later
<1> QED BY <1>2, <1>3, <1>4 DEF InOrder

LEMMA IntroductionTypes ==
    ASSUME IInv, NEW p \in Servers, NEW r, r = Introduction(p)
    PROVE  \A o \in ToSet(r) : o.type \in {"NICK", "NJOIN", "STOPIC", "SMODE"}
<1>1. PICK us, l, b : Parts(p, us, l, b, r)
  BY DEF Parts
<1>2. ViewsTyped
  BY DEF IInv, TypeInv
<1>3. /\ l \in Nat /\ Len(b) \in Nat /\ DOMAIN r = 1..(l + Len(b))
      /\ \A j \in 1..l : r[j] = NICKof(us[j])
      /\ \A j \in 1..Len(b) : r[l + j] = b[j]
  BY <1>1, <1>2, IntroductionIs
<1>4. PICK cs : cs = SetToSeq(DOMAIN channels[p])
  OBVIOUS
<1>5. /\ Len(cs) \in Nat /\ Len(b) = 3 * Len(cs)
      /\ \A j \in 1..(3 * Len(cs)) : b[j].type \in {"NJOIN", "STOPIC", "SMODE"}
  BY <1>1, <1>2, <1>4, BurstIs DEF Parts
<1>6. ASSUME NEW i \in 1..(l + Len(b)) PROVE r[i].type \in {"NICK", "NJOIN", "STOPIC", "SMODE"}
  <2>1. CASE i \in 1..l
    <3>1. r[i] = NICKof(us[i])
      BY <1>3, <2>1
    <3>2. r[i].type = "NICK"
      BY <3>1 DEF NICKof
    <3> QED BY <3>2
  <2>2. CASE i \notin 1..l
    <3>1. i - l \in 1..Len(b) /\ i = l + (i - l)
      BY <1>3, <2>2
    <3>2. PICK j \in 1..Len(b) : i = l + j
      BY <3>1
    <3>3. r[i] = b[j] /\ b[j].type \in {"NJOIN", "STOPIC", "SMODE"}
      BY <1>3, <1>5, <3>2
    <3> QED BY <3>3
  <2> QED BY <2>1, <2>2
<1> QED BY <1>3, <1>6 DEF ToSet

LEMMA LinkUpOrder ==
    ASSUME IInv, OrderInv, NEW y \in Servers, NEW p \in Servers, LinkUp(y, p)
    PROVE  OrderInv'
<1>1. /\ queue' = [queue EXCEPT ![p][y] = Introduction(p)] \/ queue' = queue
      /\ said' = said /\ heard' = heard
  BY DEF LinkUp
<1>2. CASE queue' = queue
  BY <1>1, <1>2, HaltOrder
<1>3. CASE queue' = [queue EXCEPT ![p][y] = Introduction(p)]
  <2>1. PICK r, P, F : r = Introduction(p) /\ P = queue' /\ F = Sources
    OBVIOUS
  <2>2. \A o \in ToSet(r) : o.type \notin Numbered
    BY <2>1, IntroductionTypes DEF Numbered
  <2>3. \A b, a \in Servers : P[b][a] = IF b = p /\ a = y THEN r ELSE queue[b][a]
    BY <1>3, <2>1 DEF IInv, TypeInv, Queues
  <2>4. OrderIn(queue, heard, F)
    BY <2>1 DEF OrderInv
  <2>5. ASSUME NEW M, NEW N, NEW V, \A o \in M : o.type \in Numbered, InOrder(queue, heard, M, N, V)
        PROVE  InOrder(P, heard, M, N, V)
    <3>1. \A b, a \in Servers : P[b][a] = queue[b][a] \/ \A o \in ToSet(P[b][a]) : o \notin M
      BY <2>2, <2>3, <2>5
    <3> QED BY <2>5, <3>1, ReplacedInOrder
  <2>6. ASSUME NEW s \in Users PROVE InOrder(P, heard, SaidBy(s), F[s], Users)
    <3>1. \A o \in SaidBy(s) : o.type \in Numbered
      BY DEF SaidBy, Numbered
    <3> QED BY <2>4, <2>5, <3>1 DEF OrderIn
  <2>7. ASSUME NEW s \in Servers, NEW v \in Users
        PROVE  /\ InOrder(P, heard, Answers(s, v, F[s]), F[s], {v})
               /\ InOrder(P, heard, Asks(s, v), {}, {})
               /\ AsksLast(P, heard[v], Asks(s, v), Answers(s, v, F[s]), F[s])
    <3>1. PICK M, O, N : M = Asks(s, v) /\ O = Answers(s, v, F[s]) /\ N = F[s]
      OBVIOUS
    <3>2. \A o \in M \cup O : o.type \in Numbered
      BY <3>1 DEF Asks, Answers, Numbered
    <3>3. \A b, a \in Servers : \A o \in ToSet(P[b][a]) : o \in M \cup O => o \in ToSet(queue[b][a])
      BY <2>2, <2>3, <3>2
    <3>4. AsksLast(queue, heard[v], M, O, N)
      BY <2>4, <3>1 DEF OrderIn
    <3>5. AsksLast(P, heard[v], M, O, N)
      BY <3>3, <3>4 DEF AsksLast
    <3>6. InOrder(P, heard, Answers(s, v, F[s]), F[s], {v})
      BY <2>4, <2>5, <3>1, <3>2 DEF OrderIn
    <3>7. InOrder(P, heard, Asks(s, v), {}, {})
      BY <2>4, <2>5, <3>1, <3>2 DEF OrderIn
    <3> QED BY <3>1, <3>5, <3>6, <3>7
  <2>8. OrderIn(P, heard, F)
    BY <2>6, <2>7 DEF OrderIn
  <2>9. Sources' = F /\ NotOwn'
    BY <1>1, <2>1 DEF Sources, OrderInv, NotOwn, OthersSay
  <2> QED BY <1>1, <2>1, <2>8, <2>9 DEF OrderInv
<1> QED BY <1>1, <1>2, <1>3

LEMMA InitOrder ==
    ASSUME Init
    PROVE  OrderInv
<1>1. /\ \A x, y \in Servers : ToSet(queue[x][y]) = {} /\ DOMAIN queue[x][y] = {}
      /\ \A v \in Users : ToSet(heard[v]) = {} /\ DOMAIN heard[v] = {}
  BY DEF Init, ToSet
<1>2. ASSUME NEW M, NEW N, NEW V \in SUBSET Users PROVE InOrder(queue, heard, M, N, V)
  BY <1>1 DEF InOrder, Rising, Ahead, Later, Grown
<1>3. ASSUME NEW F PROVE OrderIn(queue, heard, F)
  <2>1. ASSUME NEW s \in Users PROVE InOrder(queue, heard, SaidBy(s), F[s], Users)
    BY <1>2
  <2>2. ASSUME NEW s \in Servers, NEW v \in Users
        PROVE  /\ InOrder(queue, heard, Answers(s, v, F[s]), F[s], {v})
               /\ InOrder(queue, heard, Asks(s, v), {}, {})
               /\ AsksLast(queue, heard[v], Asks(s, v), Answers(s, v, F[s]), F[s])
    BY <1>1, <1>2 DEF AsksLast
  <2> QED BY <2>1, <2>2 DEF OrderIn
<1>4. NotOwn
  BY <1>1 DEF NotOwn
<1> QED BY <1>3, <1>4 DEF OrderInv

LEMMA CommandsOrder ==
    ASSUME IInv, OrderInv, Command
    PROVE  OrderInv'
<1>1. PICK u \in Users :
         \/ NICK(u) \/ QUIT(u)
         \/ \E v \in Users : PrivmsgUser(u, v)
         \/ \E z \in Asked : VERSION(u, z)
         \/ \E c \in Chans :
               \/ JOIN(u, c) \/ PART(u, c) \/ PRIVMSG(u, c)
               \/ \E v \in Users : KICK(u, v, c)
               \/ \E m \in Modes, on \in BOOLEAN : MODE(u, c, m, on)
               \/ \E r \in Rights, on \in BOOLEAN, v \in Users : ModeRight(u, c, r, on, v)
               \/ \E t \in Topics \cup {None} : TOPIC(u, c, t)
  BY DEF Command
<1>2. CASE NICK(u) \/ QUIT(u)
  BY <1>2, NickOrder, QuitOrder
<1>3. CASE \E v \in Users : PrivmsgUser(u, v)
  BY <1>3, PrivmsgUserOrder
<1>4. CASE \E z \in Asked : VERSION(u, z)
  BY <1>4, VersionOrder, LateAssumption
<1>5. ASSUME NEW c \in Chans,
             \/ JOIN(u, c) \/ PART(u, c) \/ PRIVMSG(u, c)
             \/ \E v \in Users : KICK(u, v, c)
             \/ \E m \in Modes, on \in BOOLEAN : MODE(u, c, m, on)
             \/ \E r \in Rights, on \in BOOLEAN, v \in Users : ModeRight(u, c, r, on, v)
             \/ \E t \in Topics \cup {None} : TOPIC(u, c, t)
      PROVE  OrderInv'
  <2>1. CASE JOIN(u, c) \/ PART(u, c) \/ PRIVMSG(u, c)
    BY <2>1, JoinOrder, PartOrder, PrivmsgOrder
  <2>2. CASE \E v \in Users : KICK(u, v, c)
    BY <2>2, KickOrder
  <2>3. CASE \E m \in Modes, on \in BOOLEAN : MODE(u, c, m, on)
    BY <2>3, ModeOrder
  <2>4. CASE \E r \in Rights, on \in BOOLEAN, v \in Users : ModeRight(u, c, r, on, v)
    BY <2>4, ModeRightOrder
  <2>5. CASE \E t \in Topics \cup {None} : TOPIC(u, c, t)
    BY <2>5, TopicOrder
  <2> QED BY <1>5, <2>1, <2>2, <2>3, <2>4, <2>5
<1> QED BY <1>1, <1>2, <1>3, <1>4, <1>5

LEMMA HandlersOrder ==
    ASSUME IInv, OrderInv, NEW x \in Servers, NEW y \in Servers, Handle(x, y)
    PROVE  OrderInv'
<1>1. CASE ReceiveQuery(x, y)
  BY <1>1, DiesOrder DEF ReceiveQuery
<1>2. CASE ReceiveNick(x, y) \/ ReceiveQuit(x, y) \/ ReceiveJoin(x, y) \/ ReceivePart(x, y)
  BY <1>2, ReceiveNickOrder, ReceiveQuitOrder, ReceiveJoinOrder, ReceivePartOrder
<1>3. CASE ReceiveKick(x, y) \/ ReceiveMode(x, y) \/ ReceiveRight(x, y) \/ ReceiveTopic(x, y)
  BY <1>3, ReceiveKickOrder, ReceiveModeOrder, ReceiveRightOrder, ReceiveTopicOrder
<1>4. CASE ReceivePrivmsg(x, y) \/ ReceivePrivmsgUser(x, y) \/ ReceiveVersion(x, y) \/ ReceiveAnswer(x, y)
  BY <1>4, ReceivePrivmsgOrder, ForwardedOrder, ReceiveVersionOrder
<1>5. CASE ReceiveNjoin(x, y) \/ ReceiveServerTopic(x, y) \/ ReceiveServerMode(x, y)
  BY <1>5, ReceiveNjoinOrder, ReceiveServerTopicOrder, ReceiveServerModeOrder
<1> QED BY <1>1, <1>2, <1>3, <1>4, <1>5 DEF Handle

\* What a user says, and what a server answers him who asks, is in the order it
\* was said and asked in, everywhere under way and with those who were sent it;
\* nobody is sent what he said.
THEOREM Order == Spec => []OrderInv
<1>1. Init => OrderInv
  BY InitOrder
<1>2. IInv /\ OrderInv /\ [Next]_vars => OrderInv'
  <2> SUFFICES ASSUME IInv, OrderInv, [Next]_vars PROVE OrderInv'
    OBVIOUS
  <2>1. CASE Command
    BY <2>1, CommandsOrder
  <2>2. CASE \E x, y \in Servers : Handle(x, y) \/ LinkUp(x, y)
    BY <2>2, HandlersOrder, LinkUpOrder
  <2>3. CASE UNCHANGED vars
    <3>1. queue' = queue /\ said' = said /\ heard' = heard
      BY <2>3 DEF vars, history
    <3> QED BY <3>1, HaltOrder
  <2> QED BY <2>1, <2>2, <2>3 DEF Next
<1> QED BY <1>1, <1>2, Invariance, PTL DEF Spec

\* A message is delivered to a reader once, to its author only if it is to his own
\* nick, and those of one author in their order, over any tree of servers.
THEOREM HeardInOrder == Spec => []HeardOnceInOrder
<1>1. IInv /\ OrderInv => HeardOnceInOrder
  <2> SUFFICES ASSUME IInv, OrderInv, NEW v \in Users, NEW i \in DOMAIN heard[v]
               PROVE  /\ said[heard[v][i]].from = v => said[heard[v][i]].to = v
                      /\ \A j \in 1..(i - 1) :
                            /\ heard[v][j] # heard[v][i]
                            /\ said[heard[v][j]].from = said[heard[v][i]].from => heard[v][j] < heard[v][i]
    BY DEF HeardOnceInOrder
  <2>1. PICK l : l = heard[v]
    OBVIOUS
  <2>2. /\ l \in Seq(DOMAIN said) /\ DOMAIN l = 1..Len(l) /\ Len(l) \in Nat
        /\ DOMAIN said \subseteq Nat /\ \A k \in DOMAIN l : l[k] \in DOMAIN said
    <3>1. l \in Seq(DOMAIN said) /\ DOMAIN said \subseteq Nat
      BY <2>1, LenProperties DEF IInv, TypeInv, HistoryTyped, Sayings
    <3> QED BY <3>1, LenProperties, ElementOfSeq
  <2>3. said[l[i]].from = v => said[l[i]].to = v
    <3>1. l[i] \in ToSet(l)
      BY <2>1 DEF ToSet
    <3> QED BY <2>1, <3>1 DEF OrderInv, NotOwn, OthersSay
  <2>4. ASSUME NEW j \in 1..(i - 1), said[l[j]].from = said[l[i]].from
        PROVE  l[j] < l[i]
    <3>1. j \in DOMAIN l /\ i \in DOMAIN l /\ j < i
      BY <2>1, <2>2
    <3>2. PICK s \in Users \cup Servers : s = said[l[i]].from
      <4>1. l[i] \in DOMAIN said /\ said \in Seq([from : Users \cup Servers, to : Users \cup Chans, readers : SUBSET Users])
        BY <2>2, <3>1 DEF IInv, TypeInv, HistoryTyped, Sayings
      <4>2. said[l[i]] \in [from : Users \cup Servers, to : Users \cup Chans, readers : SUBSET Users]
        BY <4>1, ElementOfSeq, LenProperties
      <4> QED BY <4>2
    <3>3. PICK F : F = Sources
      OBVIOUS
    <3>4. l[j] \in F[s] /\ l[i] \in F[s]
      BY <2>2, <2>4, <3>1, <3>2, <3>3 DEF Sources
    <3>5. OrderIn(queue, heard, F)
      BY <3>3 DEF OrderInv
    <3>6. Grown(l, F[s])
      <4>1. CASE s \in Users
        BY <2>1, <3>5, <4>1 DEF OrderIn, InOrder
      <4>2. CASE s \in Servers
        BY <2>1, <3>5, <4>2 DEF OrderIn, InOrder
      <4> QED BY <4>1, <4>2
    <3> QED BY <3>1, <3>4, <3>6 DEF Grown
  <2>5. ASSUME NEW j \in 1..(i - 1) PROVE l[j] # l[i]
    <3>1. j \in DOMAIN l /\ i \in DOMAIN l
      BY <2>1, <2>2
    <3>2. l[j] = l[i] => l[j] < l[i]
      BY <2>4
    <3> QED BY <2>2, <3>1, <3>2
  <2> QED BY <2>1, <2>3, <2>4, <2>5
<1> QED BY <1>1, Invariance, Order, PTL

-----------------------------------------------------------------------------
(* Those who are to be sent something: what they are sent, or what is on its *)
(* way to them.                                                              *)

\* A QUIT of u is on its way from b to a; a KICK of u from c.
QuitAt(u, b, a) == QUITof(u) \in ToSet(queue[b][a])
KickAt(u, c, b, a) == \E o \in ToSet(queue[b][a]) : o.type = "KICK" /\ o.whom = u /\ o.chan = c

\* The message m, sent by d to c, will not be lost on its way to u.  QUITs of one
\* who used the nick of u before him are ahead of his question, and go away from
\* the server that is sent the answer.
Safe(m, d, c, u) ==
    /\ m.type = "SAY" =>
          Member(Home[u], u, m.chan) /\ \A b, a \in Servers : ~KickAt(u, m.chan, b, a)
    /\ m.type = "TELL" =>
          m.whom = u /\ usr[c][u] # None /\ \A b, a \in Servers : ~QuitAt(u, b, a)
    /\ m.type = "ASK" =>
          m.who = u /\ \A b, a \in Servers : QuitAt(u, b, a) => (b = d /\ a = c) \/ Route[a][c] = b
    /\ m.type = "ANSWER" =>
          m.whom = u /\ usr[c][u] # None /\ \A b, a \in Servers : QuitAt(u, b, a) => Route[a][c] = b

\* The question with number n is behind the QUITs of u.
QuitsFirst(q, n, u) ==
    \A i, j \in DOMAIN q : i < j /\ q[i].type = "ASK" /\ q[i].number = n => q[j] # QUITof(u)

\* A message with number n is under way, what is said to a channel towards u.
Nearing(o, d, c, n, u) ==
    o.type \in Numbered /\ o.number = n /\ (o.type = "SAY" => Route[c][Home[u]] # d)

Coming(n, u) == \E d, c \in Servers : \E o \in ToSet(queue[d][c]) : Nearing(o, d, c, n, u)

Due(n, u) ==
    /\ usr[Home[u]][u] = Home[u]
    /\ n \in ToSet(heard[u]) \/ Coming(n, u)
    /\ \A d, c \in Servers :
          /\ QuitsFirst(queue[d][c], n, u)
          /\ \A m \in ToSet(queue[d][c]) : m.type \in Numbered /\ m.number = n => Safe(m, d, c, u)

MissInv == status = "running" => \A n \in DOMAIN said : \A u \in said[n].readers : Due(n, u)

-----------------------------------------------------------------------------
(* One transfer. *)

\* QUITs and KICKs of u are sent by those who have been sent them.
Relayed(x, y, take, S, m, u) ==
    /\ m = QUITof(u) /\ S # {} => take /\ m = Head(queue[y][x]) /\ y \notin S
    /\ m.type = "KICK" /\ m.whom = u /\ S # {} => take /\ m = Head(queue[y][x])

\* The entry of u goes by a QUIT, his membership at home by a KICK.
Lasts(x, y, take, u) ==
    /\ \A a \in Servers :
          usr[a][u] # None => usr'[a][u] = usr[a][u] \/ (a = x /\ take /\ Head(queue[y][x]) = QUITof(u))
    /\ \A c \in Chans :
          Member(Home[u], u, c) => Member(Home[u], u, c)' \/ (take /\ KickAt(u, c, y, x))

LEMMA QuitMoves ==
    ASSUME IInv, NEW x, NEW y, NEW take, NEW S, NEW m, Transfer(x, y, take, S, m),
           NEW u \in Users, Relayed(x, y, take, S, m, u),
           NEW b \in Servers, NEW a \in Servers, QuitAt(u, b, a)'
    PROVE  QuitAt(u, b, a) \/ (b = x /\ a \in S /\ QuitAt(u, y, x) /\ a # y)
<1>1. PICK o : o = QUITof(u) /\ o \in ToSet(queue'[b][a])
  BY DEF QuitAt
<1>2. CASE o \in ToSet(Rest(x, y, take, b, a)) /\ o \in ToSet(queue[b][a])
  BY <1>1, <1>2 DEF QuitAt
<1>3. CASE o = m /\ b = x /\ a \in S
  <2>1. take /\ m = Head(queue[y][x]) /\ y \notin S
    BY <1>1, <1>3 DEF Relayed
  <2>2. x \in Servers /\ y \in Servers /\ queue[y][x] # <<>>
    BY <2>1 DEF Transfer
  <2>3. m \in ToSet(queue[y][x])
    BY <2>1, <2>2, FirstMessage, TailIs
  <2> QED BY <1>1, <1>3, <2>1, <2>3 DEF QuitAt
<1> QED BY <1>1, <1>2, <1>3, NewOnes

LEMMA KickMoves ==
    ASSUME IInv, NEW x, NEW y, NEW take, NEW S, NEW m, Transfer(x, y, take, S, m),
           NEW u \in Users, Relayed(x, y, take, S, m, u), NEW c,
           NEW b \in Servers, NEW a \in Servers, KickAt(u, c, b, a)'
    PROVE  \E e, f \in Servers : KickAt(u, c, e, f)
<1>1. PICK o : o \in ToSet(queue'[b][a]) /\ o.type = "KICK" /\ o.whom = u /\ o.chan = c
  BY DEF KickAt
<1>2. CASE o \in ToSet(Rest(x, y, take, b, a)) /\ o \in ToSet(queue[b][a])
  BY <1>1, <1>2 DEF KickAt
<1>3. CASE o = m /\ b = x /\ a \in S
  <2>1. take /\ m = Head(queue[y][x])
    BY <1>1, <1>3 DEF Relayed
  <2>2. x \in Servers /\ y \in Servers /\ queue[y][x] # <<>>
    BY <2>1 DEF Transfer
  <2>3. m \in ToSet(queue[y][x])
    BY <2>1, <2>2, FirstMessage, TailIs
  <2> QED BY <1>1, <1>3, <2>2, <2>3 DEF KickAt
<1> QED BY <1>1, <1>2, <1>3, NewOnes

\* QUITs of u come from his home, along links.
LEMMA QuitIs ==
    ASSUME IInv, NEW u \in Users, NEW b \in Servers, NEW a \in Servers, QuitAt(u, b, a)
    PROVE  b # a /\ Route[a][b] = b /\ Route[b][a] = a /\ Route[a][Home[u]] = b /\ b \in peers[a]
<1>1. QUITof(u).type = "QUIT" /\ QUITof(u).who = u
  BY UserMessages
<1>2. Fits(QUITof(u), b, a) /\ queue[b][a] # <<>>
  BY EmptySeq, LenProperties DEF QuitAt, ToSet, IInv, Traffic
<1>3. Route[a][Home[u]] = b
  BY <1>1, <1>2 DEF Fits, Outward
<1> QED BY <1>2, <1>3, FirstMessage

\* What leads away from h still does when it is passed on.
LEMMA QuitsGoAway ==
    ASSUME IInv, NEW x, NEW y, NEW take, NEW S, NEW m, Transfer(x, y, take, S, m),
           NEW u \in Users, NEW a \in S, a # y, QuitAt(u, y, x), NEW h \in Servers, Route[x][h] = y
    PROVE  Route[a][h] = x
<1>1. x \in Servers /\ y \in Servers /\ a \in peers[x]
  BY DEF Transfer
<1>2. a \in Servers /\ a # x /\ Route[x][a] = a
  BY <1>1 DEF IInv, TypeInv, Peered
<1> QED BY <1>1, <1>2, Onward

\* No QUIT of u comes to his home.
LEMMA HomeLasts ==
    ASSUME IInv, NEW u \in Users, usr[Home[u]][u] = Home[u],
           NEW x, NEW y, NEW take, NEW S, NEW m, Transfer(x, y, take, S, m), Lasts(x, y, take, u)
    PROVE  usr'[Home[u]][u] = Home[u]
<1>1. Home[u] \in Servers /\ Home[u] # None /\ Route[Home[u]][Home[u]] = Home[u]
  BY ServerOf
<1>2. ASSUME Home[u] = x, take, Head(queue[y][x]) = QUITof(u) PROVE FALSE
  <2>1. x \in Servers /\ y \in Servers /\ queue[y][x] # <<>>
    BY <1>2 DEF Transfer
  <2>2. QuitAt(u, y, x)
    BY <1>2, <2>1, FirstMessage, TailIs DEF QuitAt
  <2> QED BY <1>1, <1>2, <2>1, <2>2, QuitIs
<1> QED BY <1>1, <1>2 DEF Lasts

\* What is safe under way remains so.
LEMMA SafeStays ==
    ASSUME IInv, NEW x, NEW y, NEW take, NEW S, NEW m, Transfer(x, y, take, S, m),
           NEW u \in Users, Relayed(x, y, take, S, m, u), Lasts(x, y, take, u),
           NEW d \in Servers, NEW c \in Servers, NEW o \in Msg, Safe(o, d, c, u), c # d
    PROVE  Safe(o, d, c, u)'
<1>1. \A b, a \in Servers : QuitAt(u, b, a)' => QuitAt(u, b, a) \/ (b = x /\ a \in S /\ QuitAt(u, y, x) /\ a # y)
  BY QuitMoves
<1>2. x \in Servers /\ y \in Servers /\ (take => queue[y][x] # <<>>)
  BY DEF Transfer
<1>3. ASSUME NEW h \in Servers, \A b, a \in Servers : QuitAt(u, b, a) => Route[a][h] = b
      PROVE  /\ \A b, a \in Servers : QuitAt(u, b, a)' => Route[a][h] = b
             /\ usr[h][u] # None => usr'[h][u] # None
  <2>1. ASSUME NEW b \in Servers, NEW a \in Servers, QuitAt(u, b, a)' PROVE Route[a][h] = b
    <3>1. CASE QuitAt(u, b, a)
      BY <1>3, <3>1
    <3>2. CASE b = x /\ a \in S /\ QuitAt(u, y, x) /\ a # y
      <4>1. Route[x][h] = y
        BY <1>2, <1>3, <3>2
      <4> QED BY <3>2, <4>1, QuitsGoAway
    <3> QED BY <1>1, <2>1, <3>1, <3>2
  <2>2. ASSUME h = x, take, Head(queue[y][x]) = QUITof(u) PROVE FALSE
    <3>1. QuitAt(u, y, x)
      BY <1>2, <2>2, FirstMessage, TailIs DEF QuitAt
    <3>2. Route[x][h] = y /\ y # x
      BY <1>2, <1>3, <3>1, QuitIs
    <3> QED BY <1>2, <2>2, <3>2, NextHop
  <2> QED BY <2>1, <2>2 DEF Lasts
<1>4. CASE o.type = "SAY"
  <2>1. o.chan \in Chans
    BY <1>4, Fields
  <2>2. \A b, a \in Servers : ~KickAt(u, o.chan, b, a)
    BY <1>4 DEF Safe
  <2>3. \A b, a \in Servers : ~KickAt(u, o.chan, b, a)'
    BY <2>2, KickMoves
  <2>4. Member(Home[u], u, o.chan)'
    BY <1>2, <1>4, <2>1, <2>2 DEF Safe, Lasts
  <2> QED BY <1>4, <2>3, <2>4 DEF Safe
<1>5. CASE o.type = "TELL"
  <2>1. \A b, a \in Servers : ~QuitAt(u, b, a)
    BY <1>5 DEF Safe
  <2>2. \A b, a \in Servers : ~QuitAt(u, b, a)'
    BY <1>1, <1>2, <2>1
  <2>3. o.whom = u /\ usr'[c][u] # None
    BY <1>3, <1>5, <2>1 DEF Safe
  <2> QED BY <1>5, <2>2, <2>3 DEF Safe
<1>6. CASE o.type = "ANSWER"
  <2>1. o.whom = u /\ usr[c][u] # None /\ \A b, a \in Servers : QuitAt(u, b, a) => Route[a][c] = b
    BY <1>6 DEF Safe
  <2>2. usr'[c][u] # None /\ \A b, a \in Servers : QuitAt(u, b, a)' => Route[a][c] = b
    BY <1>3, <2>1
  <2> QED BY <1>6, <2>1, <2>2 DEF Safe
<1>7. CASE o.type = "ASK"
  <2>1. o.who = u /\ \A b, a \in Servers : QuitAt(u, b, a) => (b = d /\ a = c) \/ Route[a][c] = b
    BY <1>7 DEF Safe
  <2>2. ASSUME NEW b \in Servers, NEW a \in Servers, QuitAt(u, b, a)'
        PROVE  (b = d /\ a = c) \/ Route[a][c] = b
    <3>1. CASE QuitAt(u, b, a)
      BY <2>1, <3>1
    <3>2. CASE b = x /\ a \in S /\ QuitAt(u, y, x) /\ a # y
      <4>1. (y = d /\ x = c) \/ Route[x][c] = y
        BY <1>2, <2>1, <3>2
      <4>2. CASE x = c
        <5>1. a \in peers[x]
          BY <3>2 DEF Transfer
        <5>2. Route[a][x] = x
          BY <1>2, <5>1, Neighbours DEF IInv, Peered
        <5> QED BY <3>2, <4>2, <5>2
      <4>3. CASE Route[x][c] = y
        BY <3>2, <4>3, QuitsGoAway
      <4> QED BY <4>1, <4>2, <4>3
    <3> QED BY <1>1, <2>2, <3>1, <3>2
  <2> QED BY <1>7, <2>1, <2>2 DEF Safe
<1>8. CASE o.type \notin Numbered
  BY <1>8 DEF Safe, Numbered
<1> QED BY <1>4, <1>5, <1>6, <1>7, <1>8 DEF Numbered

\* A question stays behind the QUITs.
LEMMA FirstStays ==
    ASSUME IInv, NEW x, NEW y, NEW take, NEW S, NEW m, Transfer(x, y, take, S, m),
           NEW u \in Users, Relayed(x, y, take, S, m, u), NEW n, Due(n, u),
           NEW b \in Servers, NEW a \in Servers
    PROVE  QuitsFirst(queue'[b][a], n, u)
<1>1. PICK q, r : q = queue[b][a] /\ r = Rest(x, y, take, b, a)
  OBVIOUS
<1>2. /\ r \in Seq(Msg) /\ ToSet(r) \subseteq ToSet(q) /\ m \in Msg /\ q \in Seq(Msg)
      /\ queue'[b][a] = r \/ (queue'[b][a] = Append(r, m) /\ b = x /\ a \in S)
  <2>1. r \in Seq(Msg) /\ ToSet(r) \subseteq ToSet(q)
    BY <1>1, RestIs
  <2>2. queue'[b][a] = IF b = x /\ a \in S THEN Append(r, m) ELSE r
    BY <1>1, RestIs
  <2>3. m \in Msg /\ q \in Seq(Msg)
    BY <1>1 DEF Transfer, IInv, TypeInv, Queues
  <2> QED BY <2>1, <2>2, <2>3
<1>3. QuitsFirst(q, n, u)
  BY <1>1 DEF Due
<1>4. QuitsFirst(r, n, u)
  <2>1. CASE r = q
    BY <1>3, <2>1
  <2>2. CASE r # q
    <3>1. q # <<>> /\ r = Tail(q)
      BY <1>1, <2>2 DEF Rest, Transfer
    <3>2. /\ Len(q) \in Nat \ {0} /\ DOMAIN q = 1..Len(q) /\ DOMAIN r = 1..(Len(q) - 1)
          /\ \A i \in DOMAIN r : i + 1 \in DOMAIN q /\ r[i] = q[i + 1]
      BY <1>2, <3>1, TailIs
    <3> SUFFICES ASSUME NEW i \in DOMAIN r, NEW j \in DOMAIN r, i < j, r[i].type = "ASK", r[i].number = n
                 PROVE  r[j] # QUITof(u)
      BY DEF QuitsFirst
    <3>3. i + 1 \in DOMAIN q /\ j + 1 \in DOMAIN q /\ i + 1 < j + 1
      BY <3>2
    <3>4. q[i + 1].type = "ASK" /\ q[i + 1].number = n /\ r[j] = q[j + 1]
      BY <3>2
    <3> QED BY <1>3, <3>3, <3>4 DEF QuitsFirst
  <2> QED BY <2>1, <2>2
<1>5. CASE queue'[b][a] = Append(r, m) /\ b = x /\ a \in S
  <2>1. PICK l, p : l = Len(r) /\ p = Append(r, m)
    OBVIOUS
  <2>2. /\ l \in Nat /\ DOMAIN r = 1..l /\ DOMAIN p = 1..(l + 1) /\ p[l + 1] = m
        /\ \A i \in DOMAIN r : p[i] = r[i]
    BY <1>2, <2>1, AppendIs
  <2> SUFFICES ASSUME NEW i \in DOMAIN p, NEW j \in DOMAIN p, i < j, p[i].type = "ASK", p[i].number = n
               PROVE  p[j] # QUITof(u)
    BY <1>5, <2>1 DEF QuitsFirst
  <2>3. i \in DOMAIN r /\ p[i] = r[i]
    BY <2>2
  <2>4. CASE j \in DOMAIN r
    BY <1>4, <2>2, <2>3, <2>4 DEF QuitsFirst
  <2>5. CASE j = l + 1 /\ m = QUITof(u)
    <3>1. /\ take /\ m = Head(queue[y][x]) /\ y \notin S /\ x \in Servers /\ y \in Servers
          /\ queue[y][x] # <<>> /\ a \in peers[x]
      BY <1>5, <2>5 DEF Relayed, Transfer
    <3>2. QuitAt(u, y, x)
      BY <2>5, <3>1, FirstMessage, TailIs DEF QuitAt
    <3>3. r[i] \in ToSet(r)
      BY <2>3 DEF ToSet
    <3>4. r[i] \in ToSet(queue[x][a]) /\ r[i].type = "ASK" /\ r[i].number = n
      BY <1>1, <1>2, <1>5, <2>3, <3>3
    <3>5. Safe(r[i], x, a, u)
      BY <1>5, <3>1, <3>4 DEF Due, Numbered
    <3>6. (y = x /\ x = a) \/ Route[x][a] = y
      BY <3>1, <3>2, <3>4, <3>5 DEF Safe
    <3>7. Route[x][a] = a /\ a # x /\ a # y
      BY <1>5, <3>1 DEF IInv, Peered
    <3> QED BY <3>6, <3>7
  <2> QED BY <2>2, <2>4, <2>5
<1> QED BY <1>2, <1>4, <1>5

LEMMA RestStays ==
    ASSUME IInv, NEW x, NEW y, NEW take, NEW S, NEW m, Transfer(x, y, take, S, m),
           NEW b \in Servers, NEW a \in Servers, NEW o \in ToSet(queue[b][a]),
           ~(take /\ b = y /\ a = x /\ o = Head(queue[y][x]))
    PROVE  o \in ToSet(queue'[b][a])
<1>1. PICK q, r : q = queue[b][a] /\ r = Rest(x, y, take, b, a)
  OBVIOUS
<1>2. /\ r \in Seq(Msg) /\ m \in Msg /\ q \in Seq(Msg)
      /\ queue'[b][a] = r \/ queue'[b][a] = Append(r, m)
  <2>1. r \in Seq(Msg)
    BY <1>1, RestIs
  <2>2. queue'[b][a] = IF b = x /\ a \in S THEN Append(r, m) ELSE r
    BY <1>1, RestIs
  <2>3. m \in Msg /\ q \in Seq(Msg)
    BY <1>1 DEF Transfer, IInv, TypeInv, Queues
  <2> QED BY <2>1, <2>2, <2>3
<1>3. o \in ToSet(r)
  <2>1. CASE r = q
    BY <1>1, <2>1
  <2>2. CASE r # q
    <3>1. q # <<>> /\ r = Tail(q) /\ take /\ b = y /\ a = x
      BY <1>1, <2>2 DEF Rest, Transfer
    <3>2. /\ Len(q) \in Nat \ {0} /\ DOMAIN q = 1..Len(q) /\ DOMAIN r = 1..(Len(q) - 1)
          /\ \A i \in DOMAIN r : i + 1 \in DOMAIN q /\ r[i] = q[i + 1]
          /\ Head(q) = q[1]
      BY <1>2, <3>1, TailIs
    <3>3. PICK i \in DOMAIN q : o = q[i]
      BY <1>1 DEF ToSet
    <3>4. i # 1
      BY <1>1, <3>1, <3>2, <3>3
    <3>5. i - 1 \in DOMAIN r /\ (i - 1) + 1 = i
      BY <3>2, <3>4
    <3>6. r[i - 1] = o
      BY <3>2, <3>3, <3>5
    <3> QED BY <3>5, <3>6 DEF ToSet
  <2> QED BY <2>1, <2>2
<1>4. ToSet(Append(r, m)) = ToSet(r) \cup {m}
  BY <1>2, AppendIs
<1> QED BY <1>2, <1>3, <1>4

LEMMA ComingStays ==
    ASSUME IInv, NEW x, NEW y, NEW take, NEW S, NEW m, Transfer(x, y, take, S, m),
           NEW n, NEW u, Coming(n, u), take => ~Nearing(Head(queue[y][x]), y, x, n, u)
    PROVE  Coming(n, u)'
<1>1. PICK d \in Servers, c \in Servers : \E o \in ToSet(queue[d][c]) : Nearing(o, d, c, n, u)
  BY DEF Coming
<1>2. PICK o \in ToSet(queue[d][c]) : Nearing(o, d, c, n, u)
  BY <1>1
<1>3. ~(take /\ d = y /\ c = x /\ o = Head(queue[y][x]))
  BY <1>2
<1>4. o \in ToSet(queue'[d][c])
  BY <1>3, RestStays
<1> QED BY <1>2, <1>4 DEF Coming

\* What is sent on.
LEMMA SentComes ==
    ASSUME IInv, NEW x, NEW y, NEW take, NEW S, NEW m, Transfer(x, y, take, S, m),
           NEW n, NEW u, NEW w \in S, Nearing(m, x, w, n, u)
    PROVE  Coming(n, u)'
<1>1. x \in Servers /\ y \in Servers /\ w \in Servers /\ m \in Msg
  BY DEF Transfer, IInv, TypeInv
<1>2. PICK b \in Servers : b = x
  BY <1>1
<1>3. PICK r : r = Rest(x, y, take, b, w)
  OBVIOUS
<1>4. r \in Seq(Msg) /\ queue'[b][w] = IF b = x /\ w \in S THEN Append(r, m) ELSE r
  BY <1>1, <1>3, RestIs
<1>5. m \in ToSet(queue'[b][w])
  BY <1>1, <1>2, <1>4, AppendIs
<1> QED BY <1>1, <1>2, <1>5 DEF Coming

\* What remains to be shown of a step about a message and its reader.
LEMMA DueStep ==
    ASSUME IInv, NEW x, NEW y, NEW take, NEW S, NEW m, Transfer(x, y, take, S, m),
           NEW u \in Users, Relayed(x, y, take, S, m, u), Lasts(x, y, take, u), NEW n, Due(n, u),
           n \in ToSet(heard'[u]) \/ Coming(n, u)',
           m.type \in Numbered /\ m.number = n => \A w \in S : Safe(m, x, w, u)'
    PROVE  Due(n, u)'
<1>1. usr'[Home[u]][u] = Home[u]
  BY HomeLasts DEF Due
<1>2. ASSUME NEW d \in Servers, NEW c \in Servers, NEW o \in ToSet(queue'[d][c]),
             o.type \in Numbered, o.number = n
      PROVE  Safe(o, d, c, u)'
  <2>1. CASE o \in ToSet(Rest(x, y, take, d, c)) /\ o \in ToSet(queue[d][c])
    <3>1. Safe(o, d, c, u)
      BY <1>2, <2>1 DEF Due
    <3>2. queue[d][c] # <<>>
      BY <2>1, EmptySeq, LenProperties DEF ToSet
    <3>3. o \in Msg /\ c # d
      <4>1. queue[d][c] \in Seq(Msg) /\ d # c
        BY <3>2, FirstMessage
      <4> QED BY <2>1, <4>1, ElementOfSeq, LenProperties DEF ToSet
    <3> QED BY <3>1, <3>3, SafeStays
  <2>2. CASE o = m /\ d = x /\ c \in S
    BY <1>2, <2>2
  <2> QED BY <2>1, <2>2, NewOnes
<1>3. \A d, c \in Servers : QuitsFirst(queue'[d][c], n, u)
  BY FirstStays
<1> QED BY <1>1, <1>2, <1>3 DEF Due

\* Steps that are not about what is said.
LEMMA SilentMissed ==
    ASSUME IInv, MissInv, SaidKept, DOMAIN said' = DOMAIN said, heard' = heard, status = "running",
           NEW x, NEW y, NEW take, NEW S, NEW m, Transfer(x, y, take, S, m),
           m.type \notin Numbered \/ S = {}, take => Head(queue[y][x]).type \notin Numbered,
           \A n \in DOMAIN said : \A u \in said'[n].readers :
              Relayed(x, y, take, S, m, u) /\ Lasts(x, y, take, u)
    PROVE  MissInv'
<1> SUFFICES ASSUME NEW n \in DOMAIN said, NEW u \in said'[n].readers
             PROVE  Due(n, u)'
  BY DEF MissInv
<1>1. u \in Users /\ Due(n, u)
  <2>1. u \in said[n].readers
    BY DEF SaidKept
  <2>2. said[n].readers \subseteq Users
    BY DEF IInv, TypeInv, HistoryTyped
  <2> QED BY <2>1, <2>2 DEF MissInv
<1>2. Relayed(x, y, take, S, m, u) /\ Lasts(x, y, take, u)
  OBVIOUS
<1>3. n \in ToSet(heard'[u]) \/ Coming(n, u)'
  <2>1. CASE n \in ToSet(heard[u])
    BY <2>1
  <2>2. CASE Coming(n, u)
    <3>1. take => ~Nearing(Head(queue[y][x]), y, x, n, u)
      BY DEF Nearing
    <3> QED BY <2>2, <3>1, ComingStays
  <2> QED BY <1>1, <2>1, <2>2 DEF Due
<1>4. m.type \in Numbered /\ m.number = n => \A w \in S : Safe(m, x, w, u)'
  OBVIOUS
<1> QED BY <1>1, <1>2, <1>3, <1>4, DueStep

-----------------------------------------------------------------------------
(* Commands and handlers that are not about it. *)

\* Nobody leaves.
LEMMA QuietMissed ==
    ASSUME IInv, MissInv, SaidKept, DOMAIN said' = DOMAIN said, heard' = heard, status = "running",
           NEW x, NEW y, NEW take, NEW S, NEW m, Transfer(x, y, take, S, m),
           m.type \notin Numbered \cup {"QUIT", "KICK"} \/ S = {},
           take => Head(queue[y][x]).type \notin Numbered,
           \A a \in Servers, u \in Users : usr[a][u] # None => usr'[a][u] = usr[a][u],
           \A a \in Servers, u \in Users, c \in Chans : Member(a, u, c) => Member(a, u, c)'
    PROVE  MissInv'
<1>1. ASSUME NEW u \in Users
      PROVE  Relayed(x, y, take, S, m, u) /\ Lasts(x, y, take, u)
  <2>1. QUITof(u).type = "QUIT" /\ Home[u] \in Servers
    BY UserMessages, ServerOf
  <2>2. Relayed(x, y, take, S, m, u)
    BY <2>1 DEF Relayed
  <2>3. Lasts(x, y, take, u)
    BY <2>1 DEF Lasts
  <2> QED BY <2>2, <2>3
<1>2. \A n \in DOMAIN said : said'[n].readers \subseteq Users
  BY DEF SaidKept, IInv, TypeInv, HistoryTyped
<1>3. m.type \notin Numbered \/ S = {}
  OBVIOUS
<1> QED BY <1>1, <1>2, <1>3, SilentMissed

LEMMA GoneIs ==
    ASSUME IInv, NEW w, Gone(w)
    PROVE  /\ DOMAIN said' = DOMAIN said
           /\ \A n \in DOMAIN said : said'[n].readers \subseteq said[n].readers \ {w}
<1>1. said' = [i \in DOMAIN said |-> [said[i] EXCEPT !.readers = @ \ {w}]]
  BY DEF Gone
<1>2. said \in Seq([from : Users \cup Servers, to : Users \cup Chans, readers : SUBSET Users])
  BY DEF IInv, TypeInv, HistoryTyped, Sayings
<1>3. \A n \in DOMAIN said : said[n] \in [from : Users \cup Servers, to : Users \cup Chans, readers : SUBSET Users]
  BY <1>2, ElementOfSeq, LenProperties
<1> QED BY <1>1, <1>3

\* w leaves by a command.
LEMMA GoneMissed ==
    ASSUME IInv, MissInv, SaidKept, heard' = heard, status = "running", NEW w \in Users, Gone(w),
           NEW x, NEW S, NEW m, Transfer(x, x, FALSE, S, m), m.type \notin Numbered,
           m.type = "QUIT" => m.who = w, m.type = "KICK" => m.whom = w,
           \A a \in Servers, u \in Users : u # w => usr'[a][u] = usr[a][u],
           \A a \in Servers, u \in Users, c \in Chans : u # w /\ Member(a, u, c) => Member(a, u, c)'
    PROVE  MissInv'
<1>1. PICK take : take = FALSE
  OBVIOUS
<1>2. Transfer(x, x, take, S, m) /\ (take => Head(queue[x][x]).type \notin Numbered)
  BY <1>1
<1>3. ASSUME NEW u \in Users, u # w
      PROVE  Relayed(x, x, take, S, m, u) /\ Lasts(x, x, take, u)
  <2>1. QUITof(u).type = "QUIT" /\ QUITof(u).who = u /\ Home[u] \in Servers
    BY UserMessages, ServerOf
  <2>2. m # QUITof(u)
    BY <1>3, <2>1
  <2>3. Relayed(x, x, take, S, m, u)
    BY <1>3, <2>2 DEF Relayed
  <2>4. Lasts(x, x, take, u)
    BY <1>3, <2>1 DEF Lasts
  <2> QED BY <2>3, <2>4
<1>4. \A n \in DOMAIN said : \A u \in said'[n].readers : u \in Users /\ u # w
  BY GoneIs DEF IInv, TypeInv, HistoryTyped
<1>5. DOMAIN said' = DOMAIN said
  BY GoneIs
<1> QED BY <1>2, <1>3, <1>4, <1>5, SilentMissed

LEMMA QuietCommand ==
    ASSUME IInv, MissInv, UNCHANGED <<said, heard>>, SaidKept, status = "running", NEW x, NEW S, NEW m,
           Transfer(x, x, FALSE, S, m), m.type \notin Numbered \cup {"QUIT", "KICK"},
           \A a \in Servers, u \in Users : usr[a][u] # None => usr'[a][u] = usr[a][u],
           \A a \in Servers, u \in Users, c \in Chans : Member(a, u, c) => Member(a, u, c)'
    PROVE  MissInv'
<1>1. PICK take : take = FALSE
  OBVIOUS
<1>2. Transfer(x, x, take, S, m) /\ (take => Head(queue[x][x]).type \notin Numbered)
  BY <1>1
<1>3. DOMAIN said' = DOMAIN said /\ heard' = heard
  OBVIOUS
<1>4. m.type \notin Numbered \cup {"QUIT", "KICK"} \/ S = {}
  OBVIOUS
<1> QED BY <1>2, <1>3, <1>4, QuietMissed

LEMMA NickMissed ==
    ASSUME IInv, MissInv, NEW u \in Users, NICK(u)
    PROVE  MissInv'
<1>1. PICK x, S, m : x = Home[u] /\ S = peers[x] /\ m = NICKof(u)
  OBVIOUS
<1>2. Transfer(x, x, FALSE, S, m)
  BY <1>1, NickKeeps
<1>3. m.type \notin Numbered \cup {"QUIT", "KICK"}
  BY <1>1 DEF NICKof, Numbered
<1>4. /\ UNCHANGED history /\ SaidKept /\ channels' = channels /\ status = "running"
      /\ usr[x][u] = None /\ usr' = [usr EXCEPT ![x][u] = x]
  BY <1>1, SaidStays DEF NICK
<1>5. \A a \in Servers, v \in Users : usr[a][v] # None => usr'[a][v] = usr[a][v]
  BY <1>4 DEF IInv, TypeInv, ViewsTyped
<1>6. \A a \in Servers, v \in Users, c \in Chans : Member(a, v, c) => Member(a, v, c)'
  BY <1>4 DEF Member, Exists
<1>7. UNCHANGED <<said, heard>>
  BY <1>4 DEF history
<1> QED BY <1>2, <1>3, <1>4, <1>5, <1>6, <1>7, QuietCommand

LEMMA JoinMissed ==
    ASSUME IInv, MissInv, NEW u \in Users, NEW c \in Chans, JOIN(u, c)
    PROVE  MissInv'
<1>1. PICK x, S, m : x = Home[u] /\ S = peers[x] /\ m = JOINof(u, c)
  OBVIOUS
<1>2. Transfer(x, x, FALSE, S, m)
  BY <1>1, JoinKeeps
<1>3. m.type \notin Numbered \cup {"QUIT", "KICK"}
  BY <1>1 DEF JOINof, Numbered
<1>4. UNCHANGED history /\ SaidKept /\ Enter(x, u, c) /\ usr' = usr /\ Gives(u) /\ x \in Servers
  BY <1>1, SaidStays, ServerOf DEF JOIN
<1>5. Joins(x, {u}, c)
  BY <1>4, EnterEffect DEF IInv, TypeInv
<1>6. \A a \in Servers, v \in Users, d \in Chans : Member(a, v, d) => Member(a, v, d)'
  BY <1>5 DEF Joins
<1>7. UNCHANGED <<said, heard>> /\ status = "running"
  BY <1>4, GivesIs DEF history
<1> QED BY <1>2, <1>3, <1>4, <1>6, <1>7, QuietCommand

\* Commands on the modes and the topic.
LEMMA SettingMissed ==
    ASSUME IInv, MissInv, NEW u \in Users, Gives(u), UNCHANGED history, MembersStay, usr' = usr,
           NEW x, NEW S, NEW m, Transfer(x, x, FALSE, S, m), m.type \in {"FLAG", "QUERY", "RIGHT", "TOPIC"}
    PROVE  MissInv'
<1>1. m.type \notin Numbered \cup {"QUIT", "KICK"}
  BY DEF Numbered
<1>2. UNCHANGED <<said, heard>> /\ SaidKept /\ status = "running"
  BY SaidStays, GivesIs DEF history
<1>3. \A a \in Servers, v \in Users, d \in Chans : Member(a, v, d) => Member(a, v, d)'
  BY DEF MembersStay
<1> QED BY <1>1, <1>2, <1>3, QuietCommand

LEMMA ModeMissed ==
    ASSUME IInv, MissInv, NEW u \in Users, NEW c \in Chans, NEW f \in Modes, NEW on \in BOOLEAN,
           MODE(u, c, f, on)
    PROVE  MissInv'
<1>1. PICK x, S : x = Home[u] /\ S = peers[x]
  OBVIOUS
<1>2. PICK m : m.type \in {"FLAG", "QUERY"} /\ Transfer(x, x, FALSE, S, m) /\ m.who = u
  BY <1>1, ModeKeeps
<1>3. Gives(u) /\ UNCHANGED history /\ MembersStay /\ usr' = usr
  BY ModeKeeps DEF MODE
<1>4. m.type \in {"FLAG", "QUERY", "RIGHT", "TOPIC"}
  BY <1>2
<1> QED BY <1>2, <1>3, <1>4, SettingMissed

LEMMA ModeRightMissed ==
    ASSUME IInv, MissInv, NEW u \in Users, NEW c \in Chans, NEW r \in Rights, NEW on \in BOOLEAN,
           NEW v \in Users, ModeRight(u, c, r, on, v)
    PROVE  MissInv'
<1>1. PICK x, S : x = Home[u] /\ S = peers[x]
  OBVIOUS
<1>2. PICK m : m.type = "RIGHT" /\ Transfer(x, x, FALSE, S, m) /\ m.who = u
  BY <1>1, ModeRightKeeps
<1>3. Gives(u) /\ UNCHANGED history /\ MembersStay /\ usr' = usr
  BY ModeRightKeeps DEF ModeRight
<1>4. m.type \in {"FLAG", "QUERY", "RIGHT", "TOPIC"}
  BY <1>2
<1> QED BY <1>2, <1>3, <1>4, SettingMissed

LEMMA TopicMissed ==
    ASSUME IInv, MissInv, NEW u \in Users, NEW c \in Chans, NEW t \in Topics \cup {None}, TOPIC(u, c, t)
    PROVE  MissInv'
<1>1. PICK x, S : x = Home[u] /\ S = peers[x]
  OBVIOUS
<1>2. PICK m : m.type = "TOPIC" /\ Transfer(x, x, FALSE, S, m)
  BY <1>1, TopicKeeps
<1>3. Gives(u) /\ UNCHANGED history /\ MembersStay /\ usr' = usr
  BY TopicKeeps DEF TOPIC
<1>4. m.type \in {"FLAG", "QUERY", "RIGHT", "TOPIC"}
  BY <1>2
<1> QED BY <1>2, <1>3, <1>4, SettingMissed

LEMMA PartMissed ==
    ASSUME IInv, MissInv, NEW u \in Users, NEW c \in Chans, PART(u, c)
    PROVE  MissInv'
<1>1. PICK x, S, m, R : x = Home[u] /\ S = peers[x] /\ m = PARTof(u, c) /\ R = {c}
  OBVIOUS
<1>2. Transfer(x, x, FALSE, S, m) /\ SaidKept
  BY <1>1, PartKeeps
<1>3. m.type \notin Numbered /\ m.type # "QUIT" /\ m.type # "KICK"
  BY <1>1 DEF PARTof, Numbered
<1>4. Gives(u) /\ Leave(x, u, {c}) /\ Gone(u) /\ usr' = usr /\ heard' = heard /\ x \in Servers
  BY <1>1, ServerOf DEF PART
<1>5. Leaves(x, u, R)
  <2>1. R \subseteq Chans /\ Leave(x, u, R)
    BY <1>1, <1>4
  <2>2. ViewsTyped /\ usr' \in [Servers -> [Users -> Servers \cup {None}]]
    BY <1>4 DEF IInv, TypeInv, ViewsTyped
  <2> QED BY <1>4, <2>1, <2>2, LeaveEffect
<1>6. \A a \in Servers, v \in Users, d \in Chans : v # u /\ Member(a, v, d) => Member(a, v, d)'
  BY <1>5 DEF Leaves
<1>7. status = "running"
  BY <1>4, GivesIs
<1> QED BY <1>2, <1>3, <1>4, <1>6, <1>7, GoneMissed

LEMMA QuitMissed ==
    ASSUME IInv, MissInv, NEW u \in Users, QUIT(u)
    PROVE  MissInv'
<1>1. PICK x, S, m : x = Home[u] /\ S = peers[x] /\ m = QUITof(u)
  OBVIOUS
<1>2. Transfer(x, x, FALSE, S, m) /\ SaidKept
  BY <1>1, QuitKeeps
<1>3. m.type = "QUIT" /\ m.who = u /\ m.type \notin Numbered
  BY <1>1 DEF QUITof, Numbered
<1>4. Gives(u) /\ Removed(x, u) /\ Gone(u) /\ heard' = heard /\ x \in Servers /\ peers' = peers
  BY <1>1, ServerOf DEF QUIT
<1>5. status = "running"
  BY <1>4, GivesIs
<1>6. CASE status' = "running"
  <2>1. /\ Leaves(x, u, chan_of[x][u])
        /\ \A a \in Servers, v \in Users : usr'[a][v] = IF a = x /\ v = u THEN None ELSE usr[a][v]
    BY <1>4, <1>5, <1>6, RemovedEffect
  <2>2. \A a \in Servers, v \in Users : v # u => usr'[a][v] = usr[a][v]
    BY <2>1
  <2>3. \A a \in Servers, v \in Users, d \in Chans : v # u /\ Member(a, v, d) => Member(a, v, d)'
    BY <2>1 DEF Leaves
  <2>4. m.type # "KICK"
    BY <1>3
  <2> QED BY <1>2, <1>3, <1>4, <1>5, <2>2, <2>3, <2>4, GoneMissed
<1>7. CASE status' # "running"
  BY <1>7 DEF MissInv
<1> QED BY <1>6, <1>7

LEMMA KickMissed ==
    ASSUME IInv, MissInv, NEW u \in Users, NEW v \in Users, NEW c \in Chans, KICK(u, v, c)
    PROVE  MissInv'
<1>1. PICK x, S, m : x = Home[u] /\ S = peers[x] /\ m = KICKof(u, v, c)
  OBVIOUS
<1>2. Transfer(x, x, FALSE, S, m) /\ SaidKept
  BY <1>1, KickKeeps
<1>3. m.type = "KICK" /\ m.whom = v /\ m.type \notin Numbered /\ m.type # "QUIT"
  BY <1>1 DEF KICKof, Numbered
<1>4. /\ Gives(u) /\ Kicked(x, v, c) /\ Exists(x, c) /\ Gone(v) /\ heard' = heard /\ x \in Servers
  BY <1>1, ServerOf DEF KICK, Operator
<1>5. status = "running"
  BY <1>4, GivesIs
<1>6. Leaves(x, v, {c}) /\ usr' = usr
  BY <1>4, KickedEffect DEF IInv, TypeInv
<1>7. \A a \in Servers, w \in Users, d \in Chans : w # v /\ Member(a, w, d) => Member(a, w, d)'
  BY <1>6 DEF Leaves
<1> QED BY <1>2, <1>3, <1>4, <1>5, <1>6, <1>7, GoneMissed

LEMMA QuietHandler ==
    ASSUME IInv, MissInv, NEW x \in Servers, NEW y \in Servers, NEW h, h = Head(queue[y][x]),
           NEW type, Receives(x, y, type), type \notin Numbered, UNCHANGED <<said, heard>>, SaidKept,
           NEW S, NEW m, Transfer(x, y, TRUE, S, m), m.type \notin Numbered \cup {"QUIT", "KICK"} \/ S = {},
           \A a \in Servers, u \in Users : usr[a][u] # None => usr'[a][u] = usr[a][u],
           \A a \in Servers, u \in Users, c \in Chans : Member(a, u, c) => Member(a, u, c)'
    PROVE  MissInv'
<1>1. PICK take : take = TRUE
  OBVIOUS
<1>2. status = "running" /\ h.type = type
  BY ReceivesIs
<1>3. Transfer(x, y, take, S, m) /\ (take => Head(queue[y][x]).type \notin Numbered)
  BY <1>1, <1>2
<1>4. DOMAIN said' = DOMAIN said /\ heard' = heard
  OBVIOUS
<1> QED BY <1>2, <1>3, <1>4, QuietMissed

LEMMA ReceiveNickMissed ==
    ASSUME IInv, MissInv, NEW x \in Servers, NEW y \in Servers, ReceiveNick(x, y)
    PROVE  MissInv'
<1>1. PICK m, S : m = Head(queue[y][x]) /\ S = Others(x, y)
  OBVIOUS
<1>2. Transfer(x, y, TRUE, S, m) /\ m.type = "NICK"
  BY <1>1, ReceiveNickKeeps
<1>3. UNCHANGED <<said, heard>> /\ SaidKept /\ channels' = channels /\ Receives(x, y, "NICK")
  BY SaidStays DEF ReceiveNick, history
<1>4. m.type \notin Numbered \cup {"QUIT", "KICK"} /\ "NICK" \notin Numbered
  BY <1>2 DEF Numbered
<1>5. \A a \in Servers, v \in Users : usr[a][v] # None => usr'[a][v] = usr[a][v]
  <2>1. usr' = IF usr[x][m.who] = None THEN [usr EXCEPT ![x][m.who] = y] ELSE usr
    BY <1>1 DEF ReceiveNick
  <2> QED BY <2>1 DEF IInv, TypeInv, ViewsTyped
<1>6. \A a \in Servers, v \in Users, c \in Chans : Member(a, v, c) => Member(a, v, c)'
  BY <1>3 DEF Member, Exists
<1>7. Transfer(x, y, TRUE, S, m)
  BY <1>2
<1>8. PICK type : type = "NICK"
  OBVIOUS
<1>9. Receives(x, y, type) /\ type \notin Numbered
  BY <1>3, <1>4, <1>8
<1> QED BY <1>1, <1>3, <1>4, <1>5, <1>6, <1>7, <1>9, QuietHandler

LEMMA ReceiveJoinMissed ==
    ASSUME IInv, MissInv, NEW x \in Servers, NEW y \in Servers, ReceiveJoin(x, y)
    PROVE  MissInv'
<1>1. PICK m, type : m = Head(queue[y][x]) /\ type = "JOIN"
  OBVIOUS
<1>2. /\ SaidKept /\ m = JOINof(m.who, m.chan) /\ m.who \in Users /\ m.chan \in Chans /\ usr' = usr
      /\ \/ Enter(x, m.who, m.chan) /\ Transfer(x, y, TRUE, Others(x, y), m)
         \/ UNCHANGED views /\ Transfer(x, y, TRUE, {}, m)
  BY <1>1, ReceiveJoinKeeps
<1>3. PICK S : Transfer(x, y, TRUE, S, m)
  BY <1>2
<1>4. UNCHANGED <<said, heard>> /\ Receives(x, y, type) /\ type \notin Numbered
  BY <1>1 DEF ReceiveJoin, history, Numbered
<1>5. m.type \notin Numbered \cup {"QUIT", "KICK"}
  BY <1>2 DEF JOINof, Numbered
<1>6. \A a \in Servers, v \in Users, d \in Chans : Member(a, v, d) => Member(a, v, d)'
  <2>1. CASE Enter(x, m.who, m.chan)
    <3>1. PICK u, c : u = m.who /\ c = m.chan
      OBVIOUS
    <3>2. Joins(x, {u}, c)
      BY <1>2, <2>1, <3>1, EnterEffect DEF IInv, TypeInv
    <3> QED BY <3>2 DEF Joins
  <2>2. CASE UNCHANGED views
    BY <2>2 DEF views, Member, Exists
  <2> QED BY <1>2, <2>1, <2>2
<1>7. \A a \in Servers, v \in Users : usr[a][v] # None => usr'[a][v] = usr[a][v]
  BY <1>2
<1>8. SaidKept
  BY <1>2
<1>9. m.type \notin Numbered \cup {"QUIT", "KICK"} \/ S = {}
  BY <1>5
<1> QED BY <1>1, <1>3, <1>4, <1>6, <1>7, <1>8, <1>9, QuietHandler

\* Handlers of the modes and the topic.
LEMMA SetHandler ==
    ASSUME IInv, MissInv, NEW x \in Servers, NEW y \in Servers, NEW type, Receives(x, y, type),
           type \notin Numbered, UNCHANGED history, MembersStay, usr' = usr,
           NEW S, NEW m, Transfer(x, y, TRUE, S, m),
           m.type \in {"FLAG", "QUERY", "RIGHT", "TOPIC", "STOPIC", "SMODE"} \/ S = {}
    PROVE  MissInv'
<1>1. PICK h : h = Head(queue[y][x])
  OBVIOUS
<1>2. m.type \notin Numbered \cup {"QUIT", "KICK"} \/ S = {}
  BY DEF Numbered
<1>3. UNCHANGED <<said, heard>> /\ SaidKept
  BY SaidStays DEF history
<1>4. \A a \in Servers, v \in Users, d \in Chans : Member(a, v, d) => Member(a, v, d)'
  BY DEF MembersStay
<1>5. \A a \in Servers, v \in Users : usr[a][v] # None => usr'[a][v] = usr[a][v]
  OBVIOUS
<1> QED BY <1>1, <1>2, <1>3, <1>4, <1>5, QuietHandler

LEMMA HaltMissed ==
    ASSUME status' # "running"
    PROVE  MissInv'
  BY DEF MissInv

LEMMA ReceiveModeMissed ==
    ASSUME IInv, MissInv, NEW x \in Servers, NEW y \in Servers, ReceiveMode(x, y)
    PROVE  MissInv'
<1>1. PICK m, S, type : m = Head(queue[y][x]) /\ S = Others(x, y) /\ type = "FLAG"
  OBVIOUS
<1>2. CASE status' = "running"
  <2>1. /\ UNCHANGED history /\ MembersStay /\ usr' = usr
        /\ \E o : o.type \in {"FLAG", "QUERY"} /\ o.who = m.who /\ Transfer(x, y, TRUE, Others(x, y), o)
    BY <1>1, <1>2, ReceiveModeKeeps
  <2>2. PICK o : /\ o.type \in {"FLAG", "QUERY"} /\ o.who = m.who
                 /\ Transfer(x, y, TRUE, Others(x, y), o)
    BY <2>1
  <2>3. Transfer(x, y, TRUE, S, o) /\ o.type \in {"FLAG", "QUERY", "RIGHT", "TOPIC", "STOPIC", "SMODE"}
    BY <1>1, <2>2
  <2>4. Receives(x, y, type) /\ type \notin Numbered
    BY <1>1 DEF ReceiveMode, Numbered
  <2>5. UNCHANGED history /\ MembersStay /\ usr' = usr
    BY <2>1
  <2> QED BY <2>3, <2>4, <2>5, SetHandler
<1>3. CASE status' # "running"
  BY <1>3, HaltMissed
<1> QED BY <1>2, <1>3

LEMMA ReceiveRightMissed ==
    ASSUME IInv, MissInv, NEW x \in Servers, NEW y \in Servers, ReceiveRight(x, y)
    PROVE  MissInv'
<1>1. PICK m, S, type : m = Head(queue[y][x]) /\ S = Others(x, y) /\ type = "RIGHT"
  OBVIOUS
<1>2. CASE status' = "running"
  <2>1. /\ UNCHANGED history /\ MembersStay /\ usr' = usr /\ m.type = "RIGHT"
        /\ Transfer(x, y, TRUE, S, m)
    BY <1>1, <1>2, ReceiveRightKeeps
  <2>2. UNCHANGED history /\ MembersStay /\ usr' = usr /\ Transfer(x, y, TRUE, S, m)
    BY <2>1
  <2>3. m.type \in {"FLAG", "QUERY", "RIGHT", "TOPIC", "STOPIC", "SMODE"}
    BY <2>1
  <2>4. Receives(x, y, type) /\ type \notin Numbered
    BY <1>1 DEF ReceiveRight, Numbered
  <2> QED BY <2>2, <2>3, <2>4, SetHandler
<1>3. CASE status' # "running"
  BY <1>3, HaltMissed
<1> QED BY <1>2, <1>3

LEMMA ReceiveTopicMissed ==
    ASSUME IInv, MissInv, NEW x \in Servers, NEW y \in Servers, ReceiveTopic(x, y)
    PROVE  MissInv'
<1>1. PICK m, type : m = Head(queue[y][x]) /\ type = "TOPIC"
  OBVIOUS
<1>2. CASE status' = "running"
  <2>1. /\ UNCHANGED history /\ MembersStay /\ usr' = usr /\ m.type = "TOPIC"
        /\ Transfer(x, y, TRUE, {}, m) \/ Transfer(x, y, TRUE, peers[x], m)
    BY <1>1, <1>2, ReceiveTopicKeeps
  <2>2. PICK S : Transfer(x, y, TRUE, S, m)
    BY <2>1
  <2>3. m.type \in {"FLAG", "QUERY", "RIGHT", "TOPIC", "STOPIC", "SMODE"}
    BY <2>1
  <2>4. Receives(x, y, type) /\ type \notin Numbered
    BY <1>1 DEF ReceiveTopic, Numbered
  <2>5. UNCHANGED history /\ MembersStay /\ usr' = usr
    BY <2>1
  <2> QED BY <2>2, <2>3, <2>4, <2>5, SetHandler
<1>3. CASE status' # "running"
  BY <1>3, HaltMissed
<1> QED BY <1>2, <1>3

LEMMA ReceiveServerTopicMissed ==
    ASSUME IInv, MissInv, NEW x \in Servers, NEW y \in Servers, ReceiveServerTopic(x, y)
    PROVE  MissInv'
<1>1. PICK m, type : m = Head(queue[y][x]) /\ type = "STOPIC"
  OBVIOUS
<1>2. /\ m.type = "STOPIC" /\ UNCHANGED <<status, history>> /\ MembersStay /\ usr' = usr
      /\ Transfer(x, y, TRUE, {}, m)
  BY <1>1, ReceiveServerTopicKeeps
<1>3. PICK S : Transfer(x, y, TRUE, S, m)
  BY <1>2
<1>4. m.type \in {"FLAG", "QUERY", "RIGHT", "TOPIC", "STOPIC", "SMODE"}
  BY <1>2
<1>5. Receives(x, y, type) /\ type \notin Numbered
  BY <1>1 DEF ReceiveServerTopic, Numbered
<1>6. UNCHANGED history /\ MembersStay /\ usr' = usr
  BY <1>2
<1> QED BY <1>3, <1>4, <1>5, <1>6, SetHandler

LEMMA ReceiveServerModeMissed ==
    ASSUME IInv, MissInv, NEW x \in Servers, NEW y \in Servers, ReceiveServerMode(x, y)
    PROVE  MissInv'
<1>1. PICK m, type : m = Head(queue[y][x]) /\ type = "SMODE"
  OBVIOUS
<1>2. /\ m.type = "SMODE" /\ UNCHANGED <<status, history>> /\ MembersStay /\ usr' = usr
      /\ Transfer(x, y, TRUE, {}, m)
  BY <1>1, ReceiveServerModeKeeps
<1>3. PICK S : Transfer(x, y, TRUE, S, m)
  BY <1>2
<1>4. m.type \in {"FLAG", "QUERY", "RIGHT", "TOPIC", "STOPIC", "SMODE"}
  BY <1>2
<1>5. Receives(x, y, type) /\ type \notin Numbered
  BY <1>1 DEF ReceiveServerMode, Numbered
<1>6. UNCHANGED history /\ MembersStay /\ usr' = usr
  BY <1>2
<1> QED BY <1>3, <1>4, <1>5, <1>6, SetHandler

LEMMA ReceiveNjoinMissed ==
    ASSUME IInv, MissInv, NEW x \in Servers, NEW y \in Servers, ReceiveNjoin(x, y)
    PROVE  MissInv'
<1>1. PICK m, type : m = Head(queue[y][x]) /\ type = "NJOIN"
  OBVIOUS
<1>2. /\ m.type = "NJOIN" /\ SaidKept /\ UNCHANGED <<said, heard>>
      /\ Ignored(x, y, m) \/ Unmade(x, m) \/ Created(x, y, m)
  BY <1>1, ReceiveNjoinKeeps
<1>3. CASE Unmade(x, m)
  BY <1>3, HaltMissed DEF Unmade
<1>4. CASE Ignored(x, y, m) \/ Created(x, y, m)
  <2>1. PICK S : Transfer(x, y, TRUE, S, m)
    BY <1>4 DEF Ignored, Created
  <2>2. m.type \notin Numbered \cup {"QUIT", "KICK"} \/ S = {}
    BY <1>2 DEF Numbered
  <2>3. Receives(x, y, type) /\ type \notin Numbered
    BY <1>1 DEF ReceiveNjoin, Numbered
  <2>4. usr' = usr
    BY <1>4 DEF Ignored, Created, views
  <2>5. \A a \in Servers, v \in Users, d \in Chans : Member(a, v, d) => Member(a, v, d)'
    <3>1. CASE Ignored(x, y, m)
      BY <3>1 DEF Ignored, views, Member, Exists
    <3>2. CASE Created(x, y, m)
      BY <3>2 DEF Created, Joins
    <3> QED BY <1>4, <3>1, <3>2
  <2>6. SaidKept /\ UNCHANGED <<said, heard>>
    BY <1>2
  <2>7. \A a \in Servers, v \in Users : usr[a][v] # None => usr'[a][v] = usr[a][v]
    BY <2>4
  <2> QED BY <1>1, <2>1, <2>2, <2>3, <2>5, <2>6, <2>7, QuietHandler
<1> QED BY <1>2, <1>3, <1>4

\* A PART leaves him a member at home.
LEMMA ReceivePartMissed ==
    ASSUME IInv, MissInv, NEW x \in Servers, NEW y \in Servers, ReceivePart(x, y)
    PROVE  MissInv'
<1>1. PICK m, S, type, take : m = Head(queue[y][x]) /\ S = Others(x, y) /\ type = "PART" /\ take = TRUE
  OBVIOUS
<1>2. Receives(x, y, type) /\ type \notin Numbered
  BY <1>1 DEF ReceivePart, Numbered
<1>3. /\ m.who \in Users /\ m.chan \in Chans
      /\ \/ /\ Leave(x, m.who, {m.chan}) /\ Transfer(x, y, TRUE, Others(x, y), m)
            /\ UNCHANGED <<usr, status, history>>
         \/ status' = "undefined"
  BY <1>1, ReceivePartKeeps
<1>4. m.type = type /\ status = "running" /\ y # x /\ Fits(m, y, x)
  BY <1>1, <1>2, ReceivesIs
<1>5. CASE Leave(x, m.who, {m.chan}) /\ Transfer(x, y, TRUE, S, m) /\ UNCHANGED <<usr, status, history>>
  <2>1. PICK u \in Users, c \in Chans : u = m.who /\ c = m.chan
    BY <1>3
  <2>0. PICK R : R = {c}
    OBVIOUS
  <2>2. Leaves(x, u, R)
    <3>1. R \subseteq Chans /\ Leave(x, u, R)
      BY <1>5, <2>0, <2>1
    <3>2. ViewsTyped /\ usr' \in [Servers -> [Users -> Servers \cup {None}]]
      BY <1>5 DEF IInv, TypeInv, ViewsTyped
    <3> QED BY <3>1, <3>2, LeaveEffect
  <2>3. Home[u] # x
    <3>1. Route[x][Home[u]] = y
      BY <1>1, <1>4, <2>1 DEF Fits, Outward
    <3> QED BY <1>4, <3>1, NextHop
  <2>4. ASSUME NEW v \in Users PROVE Relayed(x, y, take, S, m, v) /\ Lasts(x, y, take, v)
    <3>1. Relayed(x, y, take, S, m, v)
      BY <1>1, <1>4 DEF Relayed, QUITof
    <3>2. \A d \in Chans : Member(Home[v], v, d) => Member(Home[v], v, d)'
      BY <2>2, <2>3, ServerOf DEF Leaves
    <3>3. Lasts(x, y, take, v)
      BY <1>5, <3>2 DEF Lasts
    <3> QED BY <3>1, <3>3
  <2>5. SaidKept /\ DOMAIN said' = DOMAIN said /\ heard' = heard
    BY <1>5, SaidStays DEF history
  <2>6. Transfer(x, y, take, S, m) /\ m.type \notin Numbered /\ (take => Head(queue[y][x]).type \notin Numbered)
    BY <1>1, <1>2, <1>4, <1>5
  <2>7. \A n \in DOMAIN said : \A v \in said'[n].readers : Relayed(x, y, take, S, m, v) /\ Lasts(x, y, take, v)
    BY <2>4, <2>5 DEF SaidKept, IInv, TypeInv, HistoryTyped
  <2> QED BY <1>4, <2>5, <2>6, <2>7, SilentMissed
<1>6. CASE status' = "undefined"
  BY <1>6, HaltMissed
<1> QED BY <1>1, <1>3, <1>5, <1>6

LEMMA ReceiveQuitMissed ==
    ASSUME IInv, MissInv, NEW x \in Servers, NEW y \in Servers, ReceiveQuit(x, y)
    PROVE  MissInv'
<1>1. PICK m, S, type, take : m = Head(queue[y][x]) /\ S = Others(x, y) /\ type = "QUIT" /\ take = TRUE
  OBVIOUS
<1>2. Receives(x, y, type) /\ type \notin Numbered
  BY <1>1 DEF ReceiveQuit, Numbered
<1>3. /\ m.who \in Users /\ m = QUITof(m.who) /\ Removed(x, m.who)
      /\ Transfer(x, y, TRUE, S, m) /\ UNCHANGED history
  BY <1>1, ReceiveQuitKeeps
<1>4. m.type = type /\ status = "running" /\ y # x /\ Fits(m, y, x) /\ peers' = peers
  BY <1>1, <1>2, ReceivesIs
<1>5. PICK u \in Users : u = m.who
  BY <1>3
<1>6. CASE status' = "running"
  <2>1. PICK R : R = chan_of[x][u]
    OBVIOUS
  <2>2. /\ Leaves(x, u, chan_of[x][u])
        /\ \A a \in Servers, v \in Users : usr'[a][v] = IF a = x /\ v = u THEN None ELSE usr[a][v]
    BY <1>3, <1>4, <1>5, <1>6, RemovedEffect
  <2>3. Home[u] # x
    <3>1. Route[x][Home[u]] = y
      BY <1>1, <1>4, <1>5 DEF Fits, Outward
    <3> QED BY <1>4, <3>1, NextHop
  <2>4. ASSUME NEW v \in Users PROVE Relayed(x, y, take, S, m, v) /\ Lasts(x, y, take, v)
    <3>1. Relayed(x, y, take, S, m, v)
      BY <1>1, <1>4 DEF Relayed, Others
    <3>2. \A d \in Chans : Member(Home[v], v, d) => Member(Home[v], v, d)'
      BY <2>2, <2>3, ServerOf DEF Leaves
    <3>3. \A a \in Servers : usr[a][v] # None =>
              usr'[a][v] = usr[a][v] \/ (a = x /\ take /\ Head(queue[y][x]) = QUITof(v))
      <4>1. CASE v = u
        BY <1>1, <1>3, <1>5, <2>2, <4>1
      <4>2. CASE v # u
        BY <2>2, <4>2
      <4> QED BY <4>1, <4>2
    <3>4. Lasts(x, y, take, v)
      BY <3>2, <3>3 DEF Lasts
    <3> QED BY <3>1, <3>4
  <2>5. SaidKept /\ DOMAIN said' = DOMAIN said /\ heard' = heard
    BY <1>3, SaidStays DEF history
  <2>6. Transfer(x, y, take, S, m) /\ m.type \notin Numbered /\ (take => Head(queue[y][x]).type \notin Numbered)
    BY <1>1, <1>2, <1>3, <1>4
  <2>7. \A n \in DOMAIN said : \A v \in said'[n].readers : Relayed(x, y, take, S, m, v) /\ Lasts(x, y, take, v)
    BY <2>4, <2>5 DEF SaidKept, IInv, TypeInv, HistoryTyped
  <2> QED BY <1>4, <2>5, <2>6, <2>7, SilentMissed
<1>7. CASE status' # "running"
  BY <1>7, HaltMissed
<1> QED BY <1>6, <1>7

LEMMA ReceiveKickMissed ==
    ASSUME IInv, MissInv, NEW x \in Servers, NEW y \in Servers, ReceiveKick(x, y)
    PROVE  MissInv'
<1>1. PICK m, type, take : m = Head(queue[y][x]) /\ type = "KICK" /\ take = TRUE
  OBVIOUS
<1>2. Receives(x, y, type) /\ type \notin Numbered
  BY <1>1 DEF ReceiveKick, Numbered
<1>3. /\ m.whom \in Users /\ m.chan \in Chans /\ UNCHANGED <<status, history>> /\ usr' = usr
      /\ \/ Leaves(x, m.whom, {m.chan}) /\ Transfer(x, y, TRUE, Others(x, y), m)
         \/ MembersStay /\ Transfer(x, y, TRUE, {}, m)
  BY <1>1, ReceiveKickKeeps
<1>4. m.type = type /\ status = "running" /\ queue[y][x] # <<>>
  BY <1>1, <1>2, ReceivesIs
<1>5. PICK w \in Users, e \in Chans : w = m.whom /\ e = m.chan
  BY <1>3
<1>6. KickAt(w, e, y, x)
  <2>1. m \in ToSet(queue[y][x])
    BY <1>1, <1>4, FirstMessage, TailIs
  <2> QED BY <1>1, <1>4, <1>5, <2>1 DEF KickAt
<1>7. PICK S : Transfer(x, y, take, S, m)
  BY <1>1, <1>3
<1>8. ASSUME NEW v \in Users PROVE Relayed(x, y, take, S, m, v) /\ Lasts(x, y, take, v)
  <2>1. Relayed(x, y, take, S, m, v)
    BY <1>1, <1>4 DEF Relayed, QUITof
  <2>2. \A d \in Chans : Member(Home[v], v, d) => Member(Home[v], v, d)' \/ (take /\ KickAt(v, d, y, x))
    <3>1. CASE MembersStay
      BY <3>1, ServerOf DEF MembersStay
    <3>2. CASE Leaves(x, m.whom, {m.chan})
      BY <1>1, <1>5, <1>6, <3>2, ServerOf DEF Leaves
    <3> QED BY <1>3, <3>1, <3>2
  <2>3. Lasts(x, y, take, v)
    BY <1>3, <2>2 DEF Lasts
  <2> QED BY <2>1, <2>3
<1>9. SaidKept /\ DOMAIN said' = DOMAIN said /\ heard' = heard
  BY <1>3, SaidStays DEF history
<1>10. m.type \notin Numbered \/ S = {}
  BY <1>2, <1>4
<1>11. take => Head(queue[y][x]).type \notin Numbered
  BY <1>1, <1>2, <1>4
<1>12. \A n \in DOMAIN said : \A v \in said'[n].readers : Relayed(x, y, take, S, m, v) /\ Lasts(x, y, take, v)
  BY <1>8, <1>9 DEF SaidKept, IInv, TypeInv, HistoryTyped
<1> QED BY <1>4, <1>7, <1>9, <1>10, <1>11, <1>12, SilentMissed

-----------------------------------------------------------------------------
(* What is passed on. *)

\* Who is known behind a link is known at its other end, unless the QUIT is
\* under way.
LEMMA KnownBehind ==
    ASSUME IInv, TellInv, status = "running", NEW x \in Servers, NEW y \in peers[x], NEW u \in Users,
           Route[x][Home[u]] = y, usr[x][u] # None, ~QuitAt(u, y, x)
    PROVE  usr[y][u] # None
<1>1. PICK q, A, B : q = queue[y][x] /\ A = Known(x) /\ B = Known(y)
  OBVIOUS
<1>2. y \in Servers /\ q \in Seq(Msg) /\ u \in A
  BY <1>1 DEF IInv, TypeInv, Queues, Known
<1>3. Told(q, Life(u), u, A, B)
  BY <1>1 DEF TellInv, Knowledge
<1>4. \A j \in DOMAIN q : q[j] \notin Life(u).no
  BY <1>1 DEF QuitAt, ToSet, Life
<1>5. Holds(q, Life(u), u, A, Len(q) + 1)
  BY <1>2, <1>4 DEF Holds
<1>6. u \in B
  BY <1>3, <1>5 DEF Told
<1> QED BY <1>1, <1>6 DEF Known

LEMMA NoNewQuit ==
    ASSUME IInv, NEW x, NEW y, NEW take, NEW S, NEW m, Transfer(x, y, take, S, m), m.type # "QUIT",
           NEW u \in Users, NEW b \in Servers, NEW a \in Servers, QuitAt(u, b, a)'
    PROVE  QuitAt(u, b, a)
<1>1. PICK o : o = QUITof(u) /\ o \in ToSet(queue'[b][a])
  BY DEF QuitAt
<1>2. o.type = "QUIT"
  BY <1>1, UserMessages
<1>3. o \in ToSet(queue[b][a])
  BY <1>1, <1>2, NewOnes
<1> QED BY <1>1, <1>3 DEF QuitAt

LEMMA NoNewKick ==
    ASSUME IInv, NEW x, NEW y, NEW take, NEW S, NEW m, Transfer(x, y, take, S, m), m.type # "KICK",
           NEW u \in Users, NEW c, NEW b \in Servers, NEW a \in Servers, KickAt(u, c, b, a)'
    PROVE  KickAt(u, c, b, a)
<1>1. PICK o : o \in ToSet(queue'[b][a]) /\ o.type = "KICK" /\ o.whom = u /\ o.chan = c
  BY DEF KickAt
<1>2. o \in ToSet(queue[b][a])
  BY <1>1, NewOnes
<1> QED BY <1>1, <1>2 DEF KickAt

\* QUITs that go away from x go away from its neighbours too.
LEMMA QuitsAway ==
    ASSUME IInv, NEW x \in Servers, NEW w \in peers[x], NEW u \in Users,
           NEW b \in Servers, NEW a \in Servers, QuitAt(u, b, a), Route[a][x] = b
    PROVE  /\ (b = x /\ a = w) \/ Route[a][w] = b
           /\ Route[x][Home[u]] = w => Route[a][w] = b
<1>1. w \in Servers /\ w # x /\ Route[x][w] = w
  BY DEF IInv, TypeInv, Peered
<1>2. b # a /\ Route[a][Home[u]] = b
  BY QuitIs
<1>3. a # x
  BY <1>2, NextHop
<1>4. CASE a = w
  <2>1. b = x
    BY <1>1, <1>4, Neighbours
  <2>2. Route[x][Home[u]] # w
    BY <1>1, <1>2, <1>4, <2>1, OneSide, ServerOf
  <2> QED BY <1>4, <2>1, <2>2
<1>5. CASE a # w
  BY <1>1, <1>3, <1>5, SameWay
<1> QED BY <1>4, <1>5

\* No QUIT is behind the question that is handled.
LEMMA QuitsAhead ==
    ASSUME IInv, NEW x \in Servers, NEW y \in Servers, queue[y][x] # <<>>,
           NEW h, h = Head(queue[y][x]), h.type = "ASK", NEW u, NEW n, h.number = n, Due(n, u)
    PROVE  ~QuitAt(u, y, x)
<1>1. PICK q : q = queue[y][x]
  OBVIOUS
<1>2. q \in Seq(Msg) /\ QuitsFirst(q, n, u)
  BY <1>1 DEF IInv, TypeInv, Queues, Due
<1>3. h = q[1] /\ 1 \in DOMAIN q /\ DOMAIN q = 1..Len(q) /\ Len(q) \in Nat
  BY <1>1, <1>2, TailIs
<1>4. ASSUME NEW j \in DOMAIN q, q[j] = QUITof(u) PROVE FALSE
  <2>1. j # 1
    BY <1>3, <1>4 DEF QUITof
  <2>2. 1 < j
    BY <1>3, <2>1
  <2> QED BY <1>2, <1>3, <1>4, <2>2 DEF QuitsFirst
<1> QED BY <1>1, <1>4 DEF QuitAt, ToSet

\* x sends m on for the message it has taken.
LEMMA PassedMissed ==
    ASSUME IInv, MissInv, status = "running", NEW x, NEW y, NEW take, NEW S, NEW m,
           Transfer(x, y, take, S, m), NEW h, Takes(x, y, take, h),
           NEW n, h.type \in Numbered, m.type \in Numbered, h.number = n, m.number = n,
           UNCHANGED views, said' = said, \A v \in Users : ToSet(heard[v]) \subseteq ToSet(heard'[v]),
           \A u \in said[n].readers : u \in Users /\ Due(n, u) =>
              /\ \/ n \in ToSet(heard'[u])
                 \/ ~Nearing(h, y, x, n, u)
                 \/ \E w \in S : Nearing(m, x, w, n, u)
              /\ \A w \in S : Safe(m, x, w, u)'
    PROVE  MissInv'
<1> SUFFICES ASSUME NEW k \in DOMAIN said, NEW u \in said[k].readers PROVE Due(k, u)'
  BY DEF MissInv
<1>1. u \in Users /\ Due(k, u)
  BY DEF MissInv, IInv, TypeInv, HistoryTyped
<1>2. Relayed(x, y, take, S, m, u)
  BY DEF Relayed, QUITof, Numbered
<1>3. Lasts(x, y, take, u)
  BY DEF Lasts, views, Member, Exists
<1>4. take /\ h = Head(queue[y][x])
  BY DEF Takes
<1>5. k \in ToSet(heard'[u]) \/ Coming(k, u)'
  <2>1. CASE k \in ToSet(heard[u])
    BY <1>1, <2>1
  <2>2. CASE Coming(k, u) /\ ~Nearing(h, y, x, k, u)
    <3>1. take => ~Nearing(Head(queue[y][x]), y, x, k, u)
      BY <1>4, <2>2
    <3> QED BY <2>2, <3>1, ComingStays
  <2>3. CASE Nearing(h, y, x, k, u)
    <3>1. k = n
      BY <2>3 DEF Nearing
    <3>2. CASE n \in ToSet(heard'[u])
      BY <3>1, <3>2
    <3>3. CASE \E w \in S : Nearing(m, x, w, n, u)
      <4>1. PICK w \in S : Nearing(m, x, w, n, u)
        BY <3>3
      <4>2. Nearing(m, x, w, k, u)
        BY <3>1, <4>1
      <4> QED BY <4>2, SentComes
    <3> QED BY <1>1, <2>3, <3>1, <3>2, <3>3
  <2> QED BY <1>1, <2>1, <2>2, <2>3 DEF Due
<1>6. m.type \in Numbered /\ m.number = k => \A w \in S : Safe(m, x, w, u)'
  BY <1>1
<1> QED BY <1>1, <1>2, <1>3, <1>5, <1>6, DueStep

LEMMA HearAdds ==
    ASSUME IInv, NEW H, NEW n \in Nat, Hear(H, n)
    PROVE  \A v \in Users : ToSet(heard[v]) \subseteq ToSet(heard'[v]) /\ (v \in H => n \in ToSet(heard'[v]))
<1> SUFFICES ASSUME NEW v \in Users
             PROVE  ToSet(heard[v]) \subseteq ToSet(heard'[v]) /\ (v \in H => n \in ToSet(heard'[v]))
  OBVIOUS
<1>1. heard[v] \in Seq(Nat)
  BY HearIs
<1>2. heard'[v] = IF v \in H THEN Append(heard[v], n) ELSE heard[v]
  BY DEF Hear
<1>3. Grown(heard[v], {})
  BY DEF Grown
<1>4. ToSet(Append(heard[v], n)) = ToSet(heard[v]) \cup {n}
  BY <1>1, <1>3, GrownAppend
<1> QED BY <1>2, <1>4

\* The link towards the home of one who is there.
LEMMA LinkHome ==
    ASSUME IInv, NEW x \in Servers, Up(x), NEW u \in Users, usr[Home[u]][u] = Home[u], Home[u] # x,
           NEW w, w = Route[x][Home[u]]
    PROVE  w \in peers[x] /\ w \in Servers /\ w # x /\ Route[x][w] = w /\ Route[w][Home[u]] # x
<1>1. Home[u] \in Servers /\ Up(Home[u])
  BY ServerOf DEF IInv, UsersFit
<1>2. w \in peers[x]
  BY <1>1 DEF IInv, Connected
<1>3. w \in Servers /\ w # x /\ Route[x][w] = w
  BY <1>2 DEF IInv, TypeInv, Peered
<1> QED BY <1>1, <1>2, <1>3, OneSide

LEMMA ReceivePrivmsgMissed ==
    ASSUME IInv, MissInv, NEW x \in Servers, NEW y \in Servers, ReceivePrivmsg(x, y)
    PROVE  MissInv'
<1>1. PICK m, S, type, take, n :
         m = Head(queue[y][x]) /\ S = Others(x, y) /\ type = "SAY" /\ take = TRUE /\ n = m.number
  OBVIOUS
<1>2. /\ Receives(x, y, type) /\ m \in Msg /\ m.type = type /\ y # x /\ Fits(m, y, x) /\ Refers(m)
      /\ status = "running" /\ Up(x)
  BY <1>1, ReceivesIs DEF ReceivePrivmsg
<1>3. CASE status' # "running"
  BY <1>3, HaltMissed
<1>4. CASE status' = "running"
  <2>1. /\ m.who \in Users /\ UNCHANGED <<said, apart>> /\ m.number \in DOMAIN said
        /\ UNCHANGED <<views, status>> /\ Hear(LocalReaders(x, m.who, m.chan), m.number)
        /\ Transfer(x, y, TRUE, Others(x, y), m) /\ Exists(x, m.chan)
    BY <1>1, <1>4, ReceivePrivmsgKeeps
  <2>2. n \in Nat /\ m.chan \in Chans
    BY <1>1, <1>2, Fields DEF Numbered
  <2>3. PICK H : H = LocalReaders(x, m.who, m.chan)
    OBVIOUS
  <2>4. Hear(H, n)
    BY <1>1, <2>1, <2>3
  <2>5. \A v \in Users : ToSet(heard[v]) \subseteq ToSet(heard'[v]) /\ (v \in H => n \in ToSet(heard'[v]))
    BY <2>2, <2>4, HearAdds
  <2>6. Transfer(x, y, take, S, m) /\ Takes(x, y, take, m) /\ m.type \in Numbered
    BY <1>1, <1>2, <2>1 DEF Takes, Numbered
  <2>7. ASSUME NEW u \in said[n].readers, u \in Users, Due(n, u)
        PROVE  /\ \/ n \in ToSet(heard'[u])
                  \/ ~Nearing(m, y, x, n, u)
                  \/ \E w \in S : Nearing(m, x, w, n, u)
               /\ \A w \in S : Safe(m, x, w, u)'
    <3>1. u # m.who
      <4>1. said[n].readers \subseteq Users \ {m.who}
        BY <1>1, <1>2 DEF Refers
      <4> QED BY <2>7, <4>1
    <3>2. Safe(m, y, x, u)
      <4>1. m \in ToSet(queue[y][x])
        <5>1. queue[y][x] # <<>>
          BY <1>1, <1>2, ReceivesIs
        <5> QED BY <1>1, <5>1, FirstMessage, TailIs
      <4> QED BY <1>1, <2>6, <2>7, <4>1 DEF Due
    <3>3. Member(Home[u], u, m.chan) /\ \A b, a \in Servers : ~KickAt(u, m.chan, b, a)
      BY <1>1, <1>2, <3>2 DEF Safe
    <3>4. \A w \in S : Safe(m, x, w, u)'
      <4>1. \A b, a \in Servers : ~KickAt(u, m.chan, b, a)'
        BY <1>1, <1>2, <2>6, <2>7, <3>3, NoNewKick
      <4>2. Member(Home[u], u, m.chan)'
        BY <2>1, <3>3 DEF views, Member, Exists
      <4> QED BY <1>1, <1>2, <4>1, <4>2 DEF Safe
    <3>5. CASE Home[u] = x
      <4>1. u \in H
        BY <2>3, <2>7, <3>1, <3>3, <3>5 DEF LocalReaders, Member, Due
      <4> QED BY <2>5, <2>7, <3>4, <4>1
    <3>6. CASE Home[u] # x /\ Route[x][Home[u]] # y
      <4>1. PICK w : w = Route[x][Home[u]]
        OBVIOUS
      <4>2. w \in peers[x] /\ Route[w][Home[u]] # x
        BY <1>2, <2>7, <3>6, <4>1, LinkHome DEF Due
      <4>3. w \in S
        BY <1>1, <3>6, <4>1, <4>2 DEF Others
      <4>4. Nearing(m, x, w, n, u)
        BY <1>1, <2>6, <4>2 DEF Nearing
      <4> QED BY <3>4, <4>3, <4>4
    <3>7. CASE Route[x][Home[u]] = y
      <4>1. ~Nearing(m, y, x, n, u)
        BY <1>1, <1>2, <3>7 DEF Nearing
      <4> QED BY <3>4, <4>1
    <3> QED BY <3>5, <3>6, <3>7
  <2>8. UNCHANGED views /\ said' = said
    BY <2>1
  <2>9. \A v \in Users : ToSet(heard[v]) \subseteq ToSet(heard'[v])
    BY <2>5
  <2> QED BY <1>1, <1>2, <2>6, <2>7, <2>8, <2>9, PassedMissed
<1> QED BY <1>3, <1>4

\* Private messages and answers.
LEMMA ForwardedMissed ==
    ASSUME IInv, TellInv, MissInv, NEW x \in Servers, NEW y \in Servers,
           ReceivePrivmsgUser(x, y) \/ ReceiveAnswer(x, y)
    PROVE  MissInv'
<1>1. PICK m, v, S, H, take, n :
         /\ m = Head(queue[y][x]) /\ v = m.whom /\ S = Towards(x, v) /\ H = {w \in {v} : usr[x][w] = x}
         /\ take = TRUE /\ n = m.number
  OBVIOUS
<1>2. PICK type \in {"TELL", "ANSWER"} : Receives(x, y, type)
  BY DEF ReceivePrivmsgUser, ReceiveAnswer
<1>3. /\ m \in Msg /\ m.type = type /\ Fits(m, y, x) /\ Refers(m) /\ y # x
      /\ status = "running" /\ queue[y][x] # <<>>
  BY <1>1, <1>2, ReceivesIs
<1>4. /\ v \in Users /\ Transfer(x, y, TRUE, Towards(x, m.whom), m)
      /\ Hear({w \in {m.whom} : usr[x][w] = x}, m.number)
  BY <1>1, ReceivePrivmsgUserKeeps, ReceiveAnswerKeeps
<1>5. Transfer(x, y, take, S, m) /\ Takes(x, y, take, m) /\ m.type \in Numbered /\ Hear(H, n)
  BY <1>1, <1>2, <1>3, <1>4 DEF Takes, Numbered
<1>6. n \in Nat
  BY <1>1, <1>3, <1>5, Fields
<1>7. \A w \in Users : ToSet(heard[w]) \subseteq ToSet(heard'[w]) /\ (w \in H => n \in ToSet(heard'[w]))
  BY <1>5, <1>6, HearAdds
<1>8. UNCHANGED views /\ said' = said
  BY DEF ReceivePrivmsgUser, ReceiveAnswer
<1>9. ASSUME NEW u \in said[n].readers, u \in Users, Due(n, u)
      PROVE  /\ \/ n \in ToSet(heard'[u])
                \/ ~Nearing(m, y, x, n, u)
                \/ \E w \in S : Nearing(m, x, w, n, u)
             /\ \A w \in S : Safe(m, x, w, u)'
  <2>1. u = v
    BY <1>1, <1>2, <1>3, <1>9 DEF Refers
  <2>2. Safe(m, y, x, u)
    <3>1. m \in ToSet(queue[y][x])
      BY <1>1, <1>3, FirstMessage, TailIs
    <3> QED BY <1>1, <1>5, <1>9, <3>1 DEF Due
  <2>3. /\ usr[x][u] # None /\ m.whom = u
        /\ \A b, a \in Servers : QuitAt(u, b, a) => m.type = "ANSWER" /\ Route[a][x] = b
    BY <1>2, <1>3, <2>2 DEF Safe
  <2>4. CASE usr[x][u] = x
    <3>1. u \in H /\ S = {}
      BY <1>1, <2>1, <2>4 DEF Towards
    <3> QED BY <1>7, <1>9, <3>1
  <2>5. CASE usr[x][u] # x
    <3>1. PICK w : w = usr[x][u]
      OBVIOUS
    <3>2. usr[x][u] \in Servers \ {x}
      BY <1>9, <2>3, <2>5 DEF IInv, TypeInv, ViewsTyped
    <3>3. w = Route[x][Home[u]] /\ w \in peers[x] /\ w \in Servers /\ w # x
      BY <1>9, <3>1, <3>2, LinkTo
    <3>4. S = {w}
      BY <1>1, <2>1, <3>1, <3>2 DEF Towards
    <3>5. Nearing(m, x, w, n, u)
      BY <1>1, <1>2, <1>3, <1>5 DEF Nearing
    <3>6. ~QuitAt(u, w, x)
      BY <2>3, <3>3, NextHop
    <3>7. usr[w][u] # None
      BY <1>3, <1>9, <2>3, <3>3, <3>6, KnownBehind
    <3>8. ASSUME NEW b \in Servers, NEW a \in Servers, QuitAt(u, b, a)'
          PROVE  m.type = "ANSWER" /\ Route[a][w] = b
      <4>1. m.type # "QUIT"
        BY <1>2, <1>3
      <4>2. QuitAt(u, b, a)
        BY <1>5, <1>9, <3>8, <4>1, NoNewQuit
      <4>3. m.type = "ANSWER" /\ Route[a][x] = b
        BY <2>3, <4>2
      <4>4. Route[x][Home[u]] = w
        BY <3>3
      <4>5. Route[a][w] = b
        BY <1>9, <3>3, <4>2, <4>3, <4>4, QuitsAway
      <4> QED BY <4>3, <4>5
    <3>9. Safe(m, x, w, u)'
      <4>1. usr'[w][u] # None
        BY <1>8, <3>7 DEF views
      <4>2. m.type \in {"TELL", "ANSWER"} /\ m.whom = u
        BY <1>2, <1>3, <2>3
      <4> QED BY <3>8, <4>1, <4>2 DEF Safe
    <3> QED BY <3>4, <3>5, <3>9
  <2> QED BY <2>4, <2>5
<1>10. \A w \in Users : ToSet(heard[w]) \subseteq ToSet(heard'[w])
  BY <1>7
<1> QED BY <1>1, <1>3, <1>5, <1>8, <1>9, <1>10, PassedMissed

\* A question, and the answer to it.
LEMMA ReceiveVersionMissed ==
    ASSUME IInv, TellInv, MissInv, NEW x \in Servers, NEW y \in Servers, ReceiveVersion(x, y)
    PROVE  MissInv'
<1>1. PICK h, type, take, n, v :
         h = Head(queue[y][x]) /\ type = "ASK" /\ take = TRUE /\ n = h.number /\ v = h.who
  OBVIOUS
<1>2. Receives(x, y, type)
  BY <1>1 DEF ReceiveVersion
<1>3. /\ h \in Msg /\ h.type = type /\ Fits(h, y, x) /\ Refers(h) /\ y # x /\ y \in peers[x]
      /\ status = "running" /\ queue[y][x] # <<>> /\ Route[x][y] = y
  BY <1>1, <1>2, ReceivesIs
<1>4. usr[x][v] # None
  <2>1. "ASK" \notin Unsigned
    BY DEF Unsigned
  <2> QED BY <1>1, <1>2, <2>1 DEF Receives
<1>5. /\ h.who \in Users /\ h.server \in Servers /\ UNCHANGED <<views, status, history>>
      /\ \/ h.server = x /\ Transfer(x, y, TRUE, {y}, ANSWERof(h.who, h.number))
         \/ h.server # x /\ Transfer(x, y, TRUE, {Route[x][h.server]}, h)
  BY <1>1, ReceiveVersionKeeps
<1>6. Takes(x, y, take, h) /\ h.type \in Numbered /\ n \in Nat /\ v \in Users
  BY <1>1, <1>3, <1>5, Fields DEF Takes, Numbered
<1>7. /\ UNCHANGED views /\ said' = said
      /\ \A u \in Users : ToSet(heard[u]) \subseteq ToSet(heard'[u])
  BY <1>5 DEF history
<1>8. Route[x][Home[v]] = y /\ Route[y][h.server] = x
  BY <1>1, <1>3 DEF Fits, Outward
<1>9. ASSUME NEW u \in said[n].readers, u \in Users, Due(n, u)
      PROVE  /\ u = v /\ ~QuitAt(u, y, x)
             /\ \A b, a \in Servers : QuitAt(u, b, a) => Route[a][x] = b
  <2>1. u = v
    BY <1>1, <1>3, <1>9 DEF Refers
  <2>2. ~QuitAt(u, y, x)
    BY <1>1, <1>3, <1>9, QuitsAhead
  <2>3. Safe(h, y, x, u)
    <3>1. h \in ToSet(queue[y][x])
      BY <1>1, <1>3, FirstMessage, TailIs
    <3> QED BY <1>1, <1>6, <1>9, <3>1 DEF Due
  <2> QED BY <1>1, <1>3, <2>1, <2>2, <2>3 DEF Safe
<1>10. CASE h.server # x /\ Transfer(x, y, TRUE, {Route[x][h.server]}, h)
  <2>1. PICK w, S : w = Route[x][h.server] /\ S = {w}
    OBVIOUS
  <2>2. Transfer(x, y, take, S, h) /\ w \in peers[x]
    BY <1>1, <1>10, <2>1 DEF Transfer
  <2>3. ASSUME NEW u \in said[n].readers, u \in Users, Due(n, u)
        PROVE  /\ \/ n \in ToSet(heard'[u])
                  \/ ~Nearing(h, y, x, n, u)
                  \/ \E z \in S : Nearing(h, x, z, n, u)
               /\ \A z \in S : Safe(h, x, z, u)'
    <3>1. u = v /\ \A b, a \in Servers : QuitAt(u, b, a) => Route[a][x] = b
      BY <1>9, <2>3
    <3>2. Nearing(h, x, w, n, u)
      BY <1>1, <1>3, <1>6 DEF Nearing
    <3>3. ASSUME NEW b \in Servers, NEW a \in Servers, QuitAt(u, b, a)'
          PROVE  (b = x /\ a = w) \/ Route[a][w] = b
      <4>1. h.type # "QUIT"
        BY <1>1, <1>3
      <4>2. QuitAt(u, b, a)
        BY <2>2, <2>3, <3>3, <4>1, NoNewQuit
      <4>3. Route[a][x] = b
        BY <3>1, <4>2
      <4> QED BY <2>2, <2>3, <4>2, <4>3, QuitsAway
    <3>4. Safe(h, x, w, u)'
      BY <1>1, <1>3, <3>1, <3>3 DEF Safe
    <3> QED BY <2>1, <3>2, <3>4
  <2> QED BY <1>1, <1>3, <1>6, <1>7, <2>2, <2>3, PassedMissed
<1>11. CASE h.server = x /\ Transfer(x, y, TRUE, {y}, ANSWERof(h.who, h.number))
  <2>1. PICK m, S : m = ANSWERof(v, n) /\ S = {y}
    OBVIOUS
  <2>2. Transfer(x, y, take, S, m)
    BY <1>1, <1>11, <2>1
  <2>3. m.type = "ANSWER" /\ m.whom = v /\ m.number = n /\ m.type \in Numbered
    BY <1>6, <2>1, AnswerMessage DEF Numbered
  <2>4. ASSUME NEW u \in said[n].readers, u \in Users, Due(n, u)
        PROVE  /\ \/ n \in ToSet(heard'[u])
                  \/ ~Nearing(h, y, x, n, u)
                  \/ \E z \in S : Nearing(m, x, z, n, u)
               /\ \A z \in S : Safe(m, x, z, u)'
    <3>1. u = v /\ ~QuitAt(u, y, x) /\ \A b, a \in Servers : QuitAt(u, b, a) => Route[a][x] = b
      BY <1>9, <2>4
    <3>2. Nearing(m, x, y, n, u)
      BY <2>3 DEF Nearing
    <3>3. usr[y][u] # None
      <4>1. Route[x][Home[u]] = y /\ usr[x][u] # None
        BY <1>4, <1>8, <3>1
      <4> QED BY <1>3, <2>4, <3>1, <4>1, KnownBehind
    <3>4. ASSUME NEW b \in Servers, NEW a \in Servers, QuitAt(u, b, a)'
          PROVE  Route[a][y] = b
      <4>1. m.type # "QUIT"
        BY <2>3
      <4>2. QuitAt(u, b, a)
        BY <2>2, <2>4, <3>4, <4>1, NoNewQuit
      <4>3. Route[a][x] = b /\ Route[x][Home[u]] = y
        BY <1>8, <3>1, <4>2
      <4> QED BY <1>3, <2>4, <4>2, <4>3, QuitsAway
    <3>5. Safe(m, x, y, u)'
      <4>1. usr'[y][u] # None
        BY <1>7, <3>3 DEF views
      <4>2. m.type = "ANSWER" /\ m.whom = u
        BY <2>3, <3>1
      <4> QED BY <3>4, <4>1, <4>2 DEF Safe
    <3> QED BY <2>1, <3>2, <3>5
  <2> QED BY <1>1, <1>3, <1>6, <1>7, <2>2, <2>3, <2>4, PassedMissed
<1> QED BY <1>5, <1>10, <1>11

-----------------------------------------------------------------------------
(* What is said. *)

LEMMA SaidMissed ==
    ASSUME IInv, MissInv, status = "running", NEW f \in Users \cup Servers, NEW rec \in Users \cup Chans,
           NEW R \in SUBSET Users, Says(f, rec, R), apart' = apart, UNCHANGED views,
           NEW x, NEW S, NEW m, Transfer(x, x, FALSE, S, m), NEW n, n = Len(said) + 1,
           m.type \in Numbered, m.number = n,
           \A v \in Users : ToSet(heard[v]) \subseteq ToSet(heard'[v]),
           \A u \in R : /\ usr[Home[u]][u] = Home[u]
                        /\ n \in ToSet(heard'[u]) \/ \E w \in S : Nearing(m, x, w, n, u)
                        /\ \A w \in S : Safe(m, x, w, u)'
    PROVE  MissInv'
<1>1. PICK take : take = FALSE
  OBVIOUS
<1>2. Transfer(x, x, take, S, m) /\ m \in Msg
  BY <1>1 DEF Transfer
<1>3. /\ DOMAIN said' = DOMAIN said \cup {n} /\ n \notin DOMAIN said /\ said'[n].readers = R
      /\ \A k \in DOMAIN said : said'[k] = said[k]
  <2>1. HistoryTyped
    BY DEF IInv, TypeInv
  <2>2. /\ Len(said) \in Nat /\ DOMAIN said = 1..Len(said)
        /\ DOMAIN said' = DOMAIN said \cup {Len(said) + 1} /\ said'[Len(said) + 1].readers = R
        /\ \A k \in DOMAIN said : said'[k] = said[k]
    BY <2>1, SaysEffect
  <2>3. Len(said) + 1 \notin DOMAIN said
    BY <2>2
  <2> QED BY <2>2, <2>3
<1>4. ASSUME NEW k \in DOMAIN said, NEW u \in said[k].readers PROVE Due(k, u)'
  <2>1. u \in Users /\ Due(k, u)
    BY <1>4 DEF MissInv, IInv, TypeInv, HistoryTyped
  <2>2. Relayed(x, x, take, S, m, u)
    BY DEF Relayed, QUITof, Numbered
  <2>3. Lasts(x, x, take, u)
    BY DEF Lasts, views, Member, Exists
  <2>4. k \in ToSet(heard'[u]) \/ Coming(k, u)'
    <3>1. CASE k \in ToSet(heard[u])
      BY <2>1, <3>1
    <3>2. CASE Coming(k, u)
      <4>1. take => ~Nearing(Head(queue[x][x]), x, x, k, u)
        BY <1>1
      <4> QED BY <1>2, <3>2, <4>1, ComingStays
    <3> QED BY <2>1, <3>1, <3>2 DEF Due
  <2>5. m.type \in Numbered /\ m.number = k => \A w \in S : Safe(m, x, w, u)'
    BY <1>3
  <2> QED BY <1>2, <2>1, <2>2, <2>3, <2>4, <2>5, DueStep
<1>5. \A d, c \in Servers : \A o \in ToSet(queue[d][c]) : o.type \in Numbered => o.number # n
  <2> SUFFICES ASSUME NEW d \in Servers, NEW c \in Servers, NEW o \in ToSet(queue[d][c]), o.type \in Numbered
               PROVE  o.number # n
    OBVIOUS
  <2>1. Refers(o)
    BY DEF IInv, Traffic
  <2>2. o.number \in DOMAIN said
    BY <2>1 DEF Refers
  <2> QED BY <1>3, <2>2
<1>6. ASSUME NEW u \in R PROVE Due(n, u)'
  <2>1. usr'[Home[u]][u] = Home[u]
    BY <1>6 DEF views
  <2>2. n \in ToSet(heard'[u]) \/ Coming(n, u)'
    <3>1. CASE \E w \in S : Nearing(m, x, w, n, u)
      <4>1. PICK w \in S : Nearing(m, x, w, n, u)
        BY <3>1
      <4> QED BY <1>2, <4>1, SentComes
    <3> QED BY <1>6, <3>1
  <2>3. ASSUME NEW d \in Servers, NEW c \in Servers
        PROVE  QuitsFirst(queue'[d][c], n, u)
    <3>1. PICK q, r : q = queue'[d][c] /\ r = Rest(x, x, take, d, c)
      OBVIOUS
    <3>2. r \in Seq(Msg) /\ ToSet(r) \subseteq ToSet(queue[d][c])
      BY <1>2, <3>1, RestIs
    <3>3. q = r \/ q = Append(r, m)
      <4>1. queue'[d][c] = IF d = x /\ c \in S THEN Append(r, m) ELSE r
        BY <1>2, <3>1, RestIs
      <4> QED BY <3>1, <4>1
    <3>4. \A i \in DOMAIN r : r[i].type \in Numbered => r[i].number # n
      BY <1>5, <3>2 DEF ToSet
    <3>5. CASE q = r
      BY <3>1, <3>4, <3>5 DEF QuitsFirst, Numbered
    <3>6. CASE q = Append(r, m)
      <4>1. PICK l : l = Len(r)
        OBVIOUS
      <4>2. l \in Nat /\ DOMAIN r = 1..l /\ DOMAIN q = 1..(l + 1) /\ \A i \in DOMAIN r : q[i] = r[i]
        BY <1>2, <3>2, <3>6, <4>1, AppendIs
      <4> SUFFICES ASSUME NEW i \in DOMAIN q, NEW j \in DOMAIN q, i < j, q[i].type = "ASK", q[i].number = n
                   PROVE  FALSE
        BY <3>1 DEF QuitsFirst
      <4>3. i \in DOMAIN r
        BY <4>2
      <4> QED BY <3>4, <4>2, <4>3 DEF Numbered
    <3> QED BY <3>3, <3>5, <3>6
  <2>4. ASSUME NEW d \in Servers, NEW c \in Servers, NEW o \in ToSet(queue'[d][c]),
               o.type \in Numbered, o.number = n
        PROVE  Safe(o, d, c, u)'
    <3>1. o = m /\ d = x /\ c \in S
      BY <1>2, <1>5, <2>4, NewOnes
    <3> QED BY <1>6, <3>1
  <2> QED BY <2>1, <2>2, <2>3, <2>4 DEF Due
<1> QED BY <1>3, <1>4, <1>6 DEF MissInv

LEMMA PrivmsgMissed ==
    ASSUME IInv, TellInv, MissInv, NEW u \in Users, NEW c \in Chans, PRIVMSG(u, c)
    PROVE  MissInv'
<1> DEFINE Readers == {v \in channels[Home[u]][c].users \ {u} : Member(Home[v], v, c) /\ <<v, c>> \notin apart}
<1>1. PICK x, n, m, S, H, R :
          /\ x = Home[u] /\ n = Len(said) + 1 /\ m = SAYof(u, c, n) /\ S = peers[x] /\ R = Readers
          /\ H = LocalReaders(x, u, c)
  OBVIOUS
<1>2. Transfer(x, x, FALSE, S, m)
  BY <1>1, PrivmsgKeeps
<1>3. /\ m.type = "SAY" /\ m.who = u /\ m.number = n /\ m.chan = c /\ x \in Servers
      /\ m.type \in Numbered
  BY <1>1, ServerOf DEF SAYof, Numbered
<1>4. /\ Hears(x, u, c, n) /\ Says(u, c, R) /\ apart' = apart /\ Exists(x, c) /\ Gives(u)
      /\ UNCHANGED views
  BY <1>1 DEF PRIVMSG, Says
<1>5. R \in SUBSET Users /\ u \notin R
  <2>1. channels[x][c] \in Channel
    BY <1>3, <1>4, ChannelAt DEF Exists, IInv, TypeInv
  <2> QED BY <1>1, <2>1 DEF Channel
<1>6. Hear(H, n) /\ n \in Nat
  <2>1. Len(said) \in Nat
    BY LenProperties DEF IInv, TypeInv, HistoryTyped, Sayings
  <2> QED BY <1>1, <1>4, <2>1, HearsIs
<1>7. \A v \in Users : ToSet(heard[v]) \subseteq ToSet(heard'[v]) /\ (v \in H => n \in ToSet(heard'[v]))
  BY <1>6, HearAdds
<1>8. status = "running" /\ Up(x)
  BY <1>1, <1>4, GivesIs
<1>9. ASSUME NEW v \in R
      PROVE  /\ usr[Home[v]][v] = Home[v]
             /\ n \in ToSet(heard'[v]) \/ \E w \in S : Nearing(m, x, w, n, v)
             /\ \A w \in S : Safe(m, x, w, v)'
  <2>1. v \in Users /\ v # u /\ v \in channels[x][c].users /\ Member(Home[v], v, c) /\ <<v, c>> \notin apart
    BY <1>1, <1>5, <1>9
  <2>2. usr[Home[v]][v] = Home[v]
    <3>1. usr[Home[v]][v] # None
      BY <2>1, ServerOf DEF TellInv, Recorded
    <3> QED BY <2>1, <3>1, ServerOf DEF IInv, UsersFit
  <2>3. \A w \in S : Safe(m, x, w, v)'
    <3>1. ASSUME NEW b \in Servers, NEW a \in Servers, KickAt(v, c, b, a)' PROVE FALSE
      <4>1. PICK take : take = FALSE
        OBVIOUS
      <4>2. Transfer(x, x, take, S, m) /\ m.type # "KICK"
        BY <1>2, <1>3, <4>1
      <4>3. KickAt(v, c, b, a)
        BY <2>1, <3>1, <4>2, NoNewKick
      <4> QED BY <2>1, <4>3 DEF KickAt, IInv, Traffic, Refers
    <3>2. Member(Home[v], v, c)'
      BY <1>4, <2>1 DEF views, Member, Exists
    <3> QED BY <1>3, <3>1, <3>2 DEF Safe
  <2>4. CASE Home[v] = x
    <3>1. v \in H
      BY <1>1, <2>1, <2>2, <2>4 DEF LocalReaders
    <3> QED BY <1>7, <2>1, <2>2, <2>3, <3>1
  <2>5. CASE Home[v] # x
    <3>1. PICK w : w = Route[x][Home[v]]
      OBVIOUS
    <3>2. w \in peers[x] /\ Route[w][Home[v]] # x
      BY <1>3, <1>8, <2>1, <2>2, <2>5, <3>1, LinkHome
    <3>3. w \in S /\ Nearing(m, x, w, n, v)
      BY <1>1, <1>3, <3>2 DEF Nearing
    <3> QED BY <2>2, <2>3, <3>3
  <2> QED BY <2>4, <2>5
<1>10. \A v \in Users : ToSet(heard[v]) \subseteq ToSet(heard'[v])
  BY <1>7
<1>11. Transfer(x, x, FALSE, S, m) /\ n = Len(said) + 1
  BY <1>1, <1>2
<1>12. PICK f \in Users \cup Servers : f = u
  OBVIOUS
<1>13. R \in SUBSET Users /\ Says(f, c, R)
  BY <1>4, <1>5, <1>12
<1> HIDE DEF Readers
<1> QED BY <1>3, <1>4, <1>8, <1>9, <1>10, <1>11, <1>13, SaidMissed

LEMMA PrivmsgUserMissed ==
    ASSUME IInv, TellInv, MissInv, NEW u \in Users, NEW v \in Users, PrivmsgUser(u, v)
    PROVE  MissInv'
<1>1. PICK x, n, m, S, H, R :
          /\ x = Home[u] /\ n = Len(said) + 1 /\ m = TELLof(u, v, n) /\ S = Towards(x, v)
          /\ R = {w \in {v} : Settled(w)} /\ H = {w \in {v} : usr[x][w] = x}
  OBVIOUS
<1>2. Transfer(x, x, FALSE, S, m)
  BY <1>1, PrivmsgUserKeeps
<1>3. /\ m.type = "TELL" /\ m.who = u /\ m.number = n /\ m.whom = v /\ x \in Servers
      /\ m.type \in Numbered
  BY <1>1, ServerOf DEF TELLof, Numbered
<1>4. /\ Forward(queue, x, v, m) /\ Says(u, v, R) /\ apart' = apart /\ usr[x][v] # None
      /\ Gives(u) /\ UNCHANGED views
  BY <1>1 DEF PrivmsgUser, Says
<1>5. PICK f \in Users \cup Servers : f = u
  OBVIOUS
<1>6. R \in SUBSET Users /\ Says(f, v, R)
  BY <1>1, <1>4, <1>5
<1>7. Hear(H, n) /\ n \in Nat
  <2>1. Len(said) \in Nat
    BY LenProperties DEF IInv, TypeInv, HistoryTyped, Sayings
  <2>2. m \in Msg /\ queue \in Queues
    BY <1>2 DEF Transfer, IInv, TypeInv
  <2>3. Hear({w \in {v} : usr[x][w] = x}, m.number)
    BY <1>3, <1>4, <2>2, ForwardIs
  <2> QED BY <1>1, <1>3, <2>1, <2>3
<1>8. \A w \in Users : ToSet(heard[w]) \subseteq ToSet(heard'[w]) /\ (w \in H => n \in ToSet(heard'[w]))
  BY <1>7, HearAdds
<1>9. status = "running"
  BY <1>4, GivesIs
<1>10. ASSUME NEW r \in R
       PROVE  /\ usr[Home[r]][r] = Home[r]
              /\ n \in ToSet(heard'[r]) \/ \E w \in S : Nearing(m, x, w, n, r)
              /\ \A w \in S : Safe(m, x, w, r)'
  <2>1. r = v /\ Settled(v)
    BY <1>1, <1>10
  <2>2. usr[Home[v]][v] = Home[v] /\ \A b, a \in Servers : ~QuitAt(v, b, a)
    BY <2>1 DEF Settled, QuitAt, ToSet
  <2>3. CASE usr[x][v] = x
    <3>1. v \in H /\ S = {}
      BY <1>1, <2>3 DEF Towards
    <3> QED BY <1>8, <2>1, <2>2, <3>1
  <2>4. CASE usr[x][v] # x
    <3>1. PICK w : w = usr[x][v]
      OBVIOUS
    <3>2. usr[x][v] \in Servers \ {x}
      BY <1>3, <1>4, <2>4 DEF IInv, TypeInv, ViewsTyped
    <3>3. w = Route[x][Home[v]] /\ w \in peers[x] /\ w \in Servers
      BY <1>3, <3>1, <3>2, LinkTo
    <3>4. S = {w}
      BY <1>1, <3>1, <3>2 DEF Towards
    <3>5. Nearing(m, x, w, n, v)
      BY <1>3 DEF Nearing
    <3>6. usr[w][v] # None
      BY <1>3, <1>4, <1>9, <2>2, <3>3, KnownBehind
    <3>7. \A b, a \in Servers : ~QuitAt(v, b, a)'
      <4>1. PICK take : take = FALSE
        OBVIOUS
      <4>2. Transfer(x, x, take, S, m) /\ m.type # "QUIT"
        BY <1>2, <1>3, <4>1
      <4> QED BY <2>2, <4>2, NoNewQuit
    <3>8. Safe(m, x, w, v)'
      <4>1. usr'[w][v] # None
        BY <1>4, <3>6 DEF views
      <4> QED BY <1>3, <3>7, <4>1 DEF Safe
    <3> QED BY <2>1, <2>2, <3>4, <3>5, <3>8
  <2> QED BY <2>3, <2>4
<1>11. Transfer(x, x, FALSE, S, m) /\ n = Len(said) + 1 /\ apart' = apart /\ UNCHANGED views
  BY <1>1, <1>2, <1>4
<1>12. \A w \in Users : ToSet(heard[w]) \subseteq ToSet(heard'[w])
  BY <1>8
<1> QED BY <1>3, <1>6, <1>9, <1>10, <1>11, <1>12, SaidMissed

LEMMA VersionMissed ==
    ASSUME IInv, MissInv, NEW u \in Users, NEW z \in Servers, VERSION(u, z)
    PROVE  MissInv'
<1>1. PICK x, n, m, w, S, R :
          /\ x = Home[u] /\ n = Len(said) + 1 /\ m = ASKof(u, z, n) /\ w = Route[x][z] /\ S = {w}
          /\ R = {u}
  OBVIOUS
<1>2. Transfer(x, x, FALSE, S, m)
  BY <1>1, VersionKeeps
<1>3. m.type = "ASK" /\ m.who = u /\ m.number = n /\ x \in Servers /\ m.type \in Numbered
  BY <1>1, ServerOf DEF ASKof, Numbered
<1>4. Says(z, u, R) /\ apart' = apart /\ heard' = heard /\ Gives(u) /\ UNCHANGED views
  BY <1>1 DEF VERSION, Says
<1>5. PICK f \in Users \cup Servers : f = z
  OBVIOUS
<1>6. R \in SUBSET Users /\ Says(f, u, R)
  BY <1>1, <1>4, <1>5
<1>7. status = "running" /\ usr[Home[u]][u] = Home[u] /\ w \in peers[x]
  BY <1>1, <1>2, <1>4, GivesIs DEF Transfer
<1>8. ASSUME NEW b \in Servers, NEW a \in Servers, QuitAt(u, b, a)'
      PROVE  (b = x /\ a = w) \/ Route[a][w] = b
  <2>1. PICK take : take = FALSE
    OBVIOUS
  <2>2. Transfer(x, x, take, S, m) /\ m.type # "QUIT"
    BY <1>2, <1>3, <2>1
  <2>3. QuitAt(u, b, a)
    BY <1>8, <2>2, NoNewQuit
  <2>4. Route[a][x] = b
    BY <1>1, <2>3, QuitIs
  <2> QED BY <1>3, <1>7, <2>3, <2>4, QuitsAway
<1>9. Safe(m, x, w, u)' /\ Nearing(m, x, w, n, u)
  BY <1>3, <1>8 DEF Safe, Nearing
<1>10. \A r \in R : /\ usr[Home[r]][r] = Home[r]
                    /\ n \in ToSet(heard'[r]) \/ \E s \in S : Nearing(m, x, s, n, r)
                    /\ \A s \in S : Safe(m, x, s, r)'
  BY <1>1, <1>7, <1>9
<1>11. Transfer(x, x, FALSE, S, m) /\ n = Len(said) + 1 /\ apart' = apart /\ UNCHANGED views
  BY <1>1, <1>2, <1>4
<1>12. \A r \in Users : ToSet(heard[r]) \subseteq ToSet(heard'[r])
  BY <1>4
<1> QED BY <1>3, <1>6, <1>7, <1>10, <1>11, <1>12, SaidMissed

-----------------------------------------------------------------------------
LEMMA StillMissed ==
    ASSUME MissInv, UNCHANGED <<views, queue, status, said, heard>>
    PROVE  MissInv'
<1> SUFFICES ASSUME status = "running", NEW n \in DOMAIN said, NEW u \in said[n].readers PROVE Due(n, u)'
  BY DEF MissInv
<1>1. Due(n, u)
  BY DEF MissInv
<1>2. \A d, c : Coming(n, u) <=> Coming(n, u)'
  BY DEF Coming, Nearing
<1>3. ASSUME NEW o, NEW d, NEW c, Safe(o, d, c, u) PROVE Safe(o, d, c, u)'
  BY <1>3 DEF Safe, QuitAt, KickAt, Member, Exists, views
<1> QED BY <1>1, <1>2, <1>3 DEF Due, QuitsFirst, views

\* A server that is introduced is told nothing of what is said.
LEMMA LinkUpMissed ==
    ASSUME IInv, MissInv, NEW y \in Servers, NEW p \in Servers, LinkUp(y, p)
    PROVE  MissInv'
<1>1. /\ \/ queue' = [queue EXCEPT ![p][y] = Introduction(p)] /\ UNCHANGED status
         \/ status' = "undefined"
      /\ UNCHANGED views /\ said' = said /\ heard' = heard /\ peers[y] = {} /\ status = "running"
  BY DEF LinkUp
<1>2. CASE status' = "undefined"
  BY <1>2, HaltMissed
<1>3. CASE queue' = [queue EXCEPT ![p][y] = Introduction(p)]
  <2>1. PICK r : r = Introduction(p)
    OBVIOUS
  <2>2. \A o \in ToSet(r) : o.type \in {"NICK", "NJOIN", "STOPIC", "SMODE"}
    BY <2>1, IntroductionTypes
  <2>3. \A b, a \in Servers : queue'[b][a] = IF b = p /\ a = y THEN r ELSE queue[b][a]
    BY <1>3, <2>1 DEF IInv, TypeInv, Queues
  <2>4. queue[p][y] = <<>>
    BY <1>1 DEF IInv, Peered
  <2>5. \A o : o \notin ToSet(queue[p][y])
    BY <2>4, EmptySeq, LenProperties DEF ToSet
  <2>6. \A b, a \in Servers : \A o \in ToSet(queue'[b][a]) :
           o \in ToSet(queue[b][a]) \/ o.type \in {"NICK", "NJOIN", "STOPIC", "SMODE"}
    BY <2>2, <2>3
  <2>7. \A b, a \in Servers : \A o \in ToSet(queue[b][a]) : o \in ToSet(queue'[b][a])
    BY <2>3, <2>5
  <2> SUFFICES ASSUME NEW n \in DOMAIN said, NEW u \in said[n].readers PROVE Due(n, u)'
    BY <1>1 DEF MissInv
  <2>8. u \in Users /\ Due(n, u)
    BY <1>1 DEF MissInv, IInv, TypeInv, HistoryTyped
  <2>9. ASSUME NEW b \in Servers, NEW a \in Servers PROVE QuitAt(u, b, a)' => QuitAt(u, b, a)
    BY <2>6 DEF QuitAt, QUITof
  <2>10. ASSUME NEW c, NEW b \in Servers, NEW a \in Servers PROVE KickAt(u, c, b, a)' => KickAt(u, c, b, a)
    BY <2>6 DEF KickAt
  <2>11. ASSUME NEW o, NEW d, NEW c, Safe(o, d, c, u) PROVE Safe(o, d, c, u)'
    BY <1>1, <2>9, <2>10, <2>11 DEF Safe, Member, Exists, views
  <2>12. n \in ToSet(heard'[u]) \/ Coming(n, u)'
    <3>1. Coming(n, u) => Coming(n, u)'
      BY <2>7 DEF Coming, Nearing
    <3> QED BY <1>1, <2>8, <3>1 DEF Due
  <2>13. \A d, c \in Servers : QuitsFirst(queue'[d][c], n, u)
    <3> SUFFICES ASSUME NEW d \in Servers, NEW c \in Servers PROVE QuitsFirst(queue'[d][c], n, u)
      OBVIOUS
    <3>1. CASE d = p /\ c = y
      <4>1. \A i \in DOMAIN r : r[i].type # "ASK"
        BY <2>2 DEF ToSet
      <4>2. queue'[d][c] = r
        BY <2>3, <3>1
      <4> QED BY <4>1, <4>2 DEF QuitsFirst
    <3>2. CASE ~(d = p /\ c = y)
      <4>1. queue'[d][c] = queue[d][c]
        BY <2>3, <3>2
      <4> QED BY <2>8, <4>1 DEF Due
    <3> QED BY <3>1, <3>2
  <2>14. ASSUME NEW d \in Servers, NEW c \in Servers, NEW o \in ToSet(queue'[d][c]),
                o.type \in Numbered, o.number = n
         PROVE  Safe(o, d, c, u)'
    <3>1. o \in ToSet(queue[d][c])
      BY <2>6, <2>14 DEF Numbered
    <3> QED BY <2>8, <2>11, <2>14, <3>1 DEF Due
  <2>15. usr'[Home[u]][u] = Home[u]
    BY <1>1, <2>8 DEF Due, views
  <2> QED BY <2>12, <2>13, <2>14, <2>15 DEF Due
<1> QED BY <1>1, <1>2, <1>3

LEMMA InitMissed ==
    ASSUME Init
    PROVE  MissInv
<1>1. said = <<>>
  BY DEF Init
<1>2. DOMAIN said = {}
  BY <1>1
<1> QED BY <1>2 DEF MissInv

LEMMA CommandsMissed ==
    ASSUME IInv, TellInv, MissInv, Command
    PROVE  MissInv'
<1>1. PICK u \in Users :
         \/ NICK(u) \/ QUIT(u)
         \/ \E v \in Users : PrivmsgUser(u, v)
         \/ \E z \in Asked : VERSION(u, z)
         \/ \E c \in Chans :
               \/ JOIN(u, c) \/ PART(u, c) \/ PRIVMSG(u, c)
               \/ \E v \in Users : KICK(u, v, c)
               \/ \E m \in Modes, on \in BOOLEAN : MODE(u, c, m, on)
               \/ \E r \in Rights, on \in BOOLEAN, v \in Users : ModeRight(u, c, r, on, v)
               \/ \E t \in Topics \cup {None} : TOPIC(u, c, t)
  BY DEF Command
<1>2. CASE NICK(u) \/ QUIT(u)
  BY <1>2, NickMissed, QuitMissed
<1>3. CASE \E v \in Users : PrivmsgUser(u, v)
  BY <1>3, PrivmsgUserMissed
<1>4. CASE \E z \in Asked : VERSION(u, z)
  BY <1>4, VersionMissed, LateAssumption
<1>5. ASSUME NEW c \in Chans,
             \/ JOIN(u, c) \/ PART(u, c) \/ PRIVMSG(u, c)
             \/ \E v \in Users : KICK(u, v, c)
             \/ \E m \in Modes, on \in BOOLEAN : MODE(u, c, m, on)
             \/ \E r \in Rights, on \in BOOLEAN, v \in Users : ModeRight(u, c, r, on, v)
             \/ \E t \in Topics \cup {None} : TOPIC(u, c, t)
      PROVE  MissInv'
  <2>1. CASE JOIN(u, c) \/ PART(u, c) \/ PRIVMSG(u, c)
    BY <2>1, JoinMissed, PartMissed, PrivmsgMissed
  <2>2. CASE \E v \in Users : KICK(u, v, c)
    BY <2>2, KickMissed
  <2>3. CASE \E m \in Modes, on \in BOOLEAN : MODE(u, c, m, on)
    BY <2>3, ModeMissed
  <2>4. CASE \E r \in Rights, on \in BOOLEAN, v \in Users : ModeRight(u, c, r, on, v)
    BY <2>4, ModeRightMissed
  <2>5. CASE \E t \in Topics \cup {None} : TOPIC(u, c, t)
    BY <2>5, TopicMissed
  <2> QED BY <1>5, <2>1, <2>2, <2>3, <2>4, <2>5
<1> QED BY <1>1, <1>2, <1>3, <1>4, <1>5

LEMMA HandlersMissed ==
    ASSUME IInv, TellInv, MissInv, NEW x \in Servers, NEW y \in Servers, Handle(x, y)
    PROVE  MissInv'
<1>1. CASE ReceiveQuery(x, y)
  <2>1. status' # "running"
    BY <1>1 DEF ReceiveQuery, Dies
  <2> QED BY <2>1, HaltMissed
<1>2. CASE ReceiveNick(x, y) \/ ReceiveQuit(x, y) \/ ReceiveJoin(x, y) \/ ReceivePart(x, y)
  BY <1>2, ReceiveNickMissed, ReceiveQuitMissed, ReceiveJoinMissed, ReceivePartMissed
<1>3. CASE ReceiveKick(x, y) \/ ReceiveMode(x, y) \/ ReceiveRight(x, y) \/ ReceiveTopic(x, y)
  BY <1>3, ReceiveKickMissed, ReceiveModeMissed, ReceiveRightMissed, ReceiveTopicMissed
<1>4. CASE ReceivePrivmsg(x, y) \/ ReceivePrivmsgUser(x, y) \/ ReceiveVersion(x, y) \/ ReceiveAnswer(x, y)
  BY <1>4, ReceivePrivmsgMissed, ForwardedMissed, ReceiveVersionMissed
<1>5. CASE ReceiveNjoin(x, y) \/ ReceiveServerTopic(x, y) \/ ReceiveServerMode(x, y)
  BY <1>5, ReceiveNjoinMissed, ReceiveServerTopicMissed, ReceiveServerModeMissed
<1> QED BY <1>1, <1>2, <1>3, <1>4, <1>5 DEF Handle

\* Who is to be sent something, and has not been, is on the way of a message that
\* will reach him, over any tree of servers.
THEOREM Delivery == Spec => []MissInv
<1>1. Init => MissInv
  BY InitMissed
<1>2. IInv /\ TellInv /\ MissInv /\ [Next]_vars => MissInv'
  <2> SUFFICES ASSUME IInv, TellInv, MissInv, [Next]_vars PROVE MissInv'
    OBVIOUS
  <2>1. CASE Command
    BY <2>1, CommandsMissed
  <2>2. CASE \E x, y \in Servers : Handle(x, y) \/ LinkUp(x, y)
    BY <2>2, HandlersMissed, LinkUpMissed
  <2>3. CASE UNCHANGED vars
    <3>1. UNCHANGED <<views, queue, status, said, heard>>
      BY <2>3 DEF vars, history
    <3> QED BY <3>1, StillMissed
  <2> QED BY <2>1, <2>2, <2>3 DEF Next
<1> QED BY <1>1, <1>2, Invariance, Truth, PTL DEF Spec

\* A message that is under way no more has been sent to all who were to be sent
\* it and have stayed, and an answer to who has asked, over any tree of servers.
THEOREM NobodyIsMissed == Spec => []NobodyMissed
<1>1. MissInv => NobodyMissed
  <2> SUFFICES ASSUME MissInv, NEW n \in DOMAIN said, status = "running",
                      NEW u \in said[n].readers, n \notin ToSet(heard[u])
               PROVE  \E x, y \in Servers : \E i \in DOMAIN queue[x][y] :
                         /\ queue[x][y][i].type \in {"SAY", "TELL", "ASK", "ANSWER"}
                         /\ queue[x][y][i].number = n
    BY DEF NobodyMissed
  <2>1. Coming(n, u)
    BY DEF MissInv, Due
  <2>2. PICK d \in Servers, c \in Servers : \E o \in ToSet(queue[d][c]) : Nearing(o, d, c, n, u)
    BY <2>1 DEF Coming
  <2>3. PICK i \in DOMAIN queue[d][c] : Nearing(queue[d][c][i], d, c, n, u)
    BY <2>2 DEF ToSet
  <2> QED BY <2>3 DEF Nearing, Numbered
<1> QED BY <1>1, Delivery, PTL
=============================================================================
