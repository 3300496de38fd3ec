--------------------------- MODULE RegistryProofs ---------------------------
(* Proofs about module Registry, for any sockets, nicks and addresses. *)
EXTENDS Registry, SequenceTheorems, TLAPS

\* Unambiguous is what makes the entry that Consistent and Watched are about
\* the entry that a removal finds.
IInv == TypeOK /\ Unambiguous /\ Consistent /\ Watched

-----------------------------------------------------------------------------
(* What the helpers do. *)

\* Deleting an object takes one name and one object away and changes no other.
LEMMA DeleteEffect ==
    ASSUME TypeOK, NEW o \in DOMAIN users, Delete(o)
    PROVE  /\ DOMAIN connections' = DOMAIN connections \ {users[o].nick}
           /\ \A n \in DOMAIN connections' : connections'[n] = connections[n]
           /\ DOMAIN users' = DOMAIN users \ {o}
           /\ \A p \in DOMAIN users' : users'[p] = users[p]
BY DEF Delete, Restrict

\* When the object is in the map, either exactly its entry goes, or the map
\* keeps a name of a deleted object.
LEMMA DeleteEntries ==
    ASSUME TypeOK, Unambiguous, Sound, NEW o \in Entries, Delete(o), Sound'
    PROVE  /\ Entries' = Entries \ {o}
           /\ \A n \in DOMAIN connections : connections[n] = o <=> n = users[o].nick
<1>1. o \in DOMAIN users
  BY DEF Sound
<1>2. /\ DOMAIN connections' = DOMAIN connections \ {users[o].nick}
      /\ \A n \in DOMAIN connections' : connections'[n] = connections[n]
      /\ DOMAIN users' = DOMAIN users \ {o}
  BY <1>1, DeleteEffect
<1>3. PICK m \in DOMAIN connections : connections[m] = o
  BY DEF Entries
<1>4. m = users[o].nick
  <2> SUFFICES ASSUME m # users[o].nick PROVE FALSE
    OBVIOUS
  <2>1. m \in DOMAIN connections' /\ connections'[m] = o
    BY <1>2, <1>3
  <2>2. o \in Entries'
    BY <2>1 DEF Entries
  <2> QED BY <1>2, <2>2 DEF Sound
<1>5. ASSUME NEW n \in DOMAIN connections, connections[n] = o PROVE n = m
  BY <1>1, <1>3, <1>5 DEF Unambiguous
<1>6. Entries' = Entries \ {o}
  BY <1>2, <1>3, <1>4, <1>5 DEF Entries
<1> QED BY <1>3, <1>4, <1>5, <1>6

\* A deletion keeps what the map promises.
LEMMA DeleteKeeps ==
    ASSUME TypeOK, Unambiguous, Consistent, Sound, NEW o \in Entries, Delete(o), renamed' = renamed
    PROVE  /\ DOMAIN connections' \subseteq Nicks /\ Entries' \subseteq Objs
           /\ DOMAIN users' \subseteq Objs
           /\ \A p \in DOMAIN users' : users'[p] \in User
           /\ Unambiguous' /\ Consistent'
<1>1. o \in DOMAIN users
  BY DEF Sound
<1>2. /\ DOMAIN connections' = DOMAIN connections \ {users[o].nick}
      /\ \A n \in DOMAIN connections' : connections'[n] = connections[n]
      /\ DOMAIN users' = DOMAIN users \ {o}
      /\ \A p \in DOMAIN users' : users'[p] = users[p]
  BY <1>1, DeleteEffect
<1>3. Entries' \subseteq Entries
  BY <1>2 DEF Entries
<1>4. Unambiguous'
  BY <1>2 DEF Unambiguous
<1>5. Consistent'
  <2> SUFFICES ASSUME ~renamed
               PROVE  /\ Entries' = DOMAIN users'
                      /\ \A n \in DOMAIN connections' : users'[connections'[n]].nick = n
    BY DEF Consistent
  <2>1. /\ Entries = DOMAIN users
        /\ \A n \in DOMAIN connections : users[connections[n]].nick = n
    BY DEF Consistent
  <2>2. \A n \in DOMAIN connections : connections[n] = o <=> n = users[o].nick
    <3>1. PICK m \in DOMAIN connections : connections[m] = o
      BY DEF Entries
    <3> QED BY <2>1, <3>1
  <2>3. Entries' = Entries \ {o}
    BY <1>2, <2>2 DEF Entries
  <2>4. \A n \in DOMAIN connections' : connections'[n] \in DOMAIN users'
    BY <2>1, <2>3, <1>2 DEF Entries
  <2> QED BY <1>2, <2>1, <2>3, <2>4
<1> QED BY <1>2, <1>3, <1>4, <1>5 DEF TypeOK

\* Closing a socket keeps the map's promises, and forgets nobody else.
LEMMA CloseSocketKeeps ==
    ASSUME IInv, Sound, status = "running", NEW s \in Socks, CloseSocket(s), renamed' = renamed
    PROVE  /\ all_fds' = all_fds \ {s}
           /\ DOMAIN connections' \subseteq Nicks /\ Entries' \subseteq Objs
           /\ DOMAIN users' \subseteq Objs
           /\ \A p \in DOMAIN users' : users'[p] \in User
           /\ Unambiguous' /\ Consistent'
           /\ Sound' => \A t \in Socks \ {s} : OnSocket(t) \subseteq OnSocket(t)'
<1>0. all_fds' = all_fds \ {s}
  BY DEF CloseSocket
<1>1. CASE OnSocket(s) = {}
  <2>1. connections' = connections /\ users' = users
    BY <1>1 DEF CloseSocket
  <2> QED BY <1>0, <2>1 DEF IInv, TypeOK, Unambiguous, Consistent, Entries, OnSocket
<1>2. CASE OnSocket(s) # {}
  <2>1. PICK o \in OnSocket(s) : Delete(o)
    BY <1>2 DEF CloseSocket
  <2>2. o \in Entries /\ users[o].socket = s /\ o \in DOMAIN users
    BY DEF OnSocket, Sound
  <2>3. ASSUME Sound', NEW t \in Socks \ {s}, NEW p \in OnSocket(t)
        PROVE  p \in OnSocket(t)'
    <3>1. Entries' = Entries \ {o}
      BY <2>1, <2>2, <2>3, DeleteEntries DEF IInv
    <3>2. p \in Entries /\ users[p].socket = t /\ p # o
      BY <2>2, <2>3 DEF OnSocket
    <3>3. users'[p] = users[p]
      <4>1. p \in DOMAIN users'
        BY <2>3, <3>1, <3>2 DEF Sound
      <4> QED BY <2>1, <2>2, <4>1, DeleteEffect DEF IInv
    <3> QED BY <3>1, <3>2, <3>3 DEF OnSocket
  <2> QED BY <1>0, <2>1, <2>2, <2>3, DeleteKeeps DEF IInv
<1> QED BY <1>1, <1>2

\* The first form of a socket goes, and no other.
LEMMA FormGone ==
    ASSUME TypeOK, NEW s \in Socks, FirstFormGone(s)
    PROVE  /\ reg_expect' \in [Socks -> Seq(BOOLEAN)]
           /\ \A t \in Socks \ {s} : reg_expect'[t] = reg_expect[t]
<1>1. reg_expect \in [Socks -> Seq(BOOLEAN)] /\ reg_expect[s] \in Seq(BOOLEAN)
  BY DEF TypeOK
<1>2. CASE Pending(s)
  <2>1. Tail(reg_expect[s]) \in Seq(BOOLEAN)
    BY <1>1, <1>2, HeadTailProperties DEF Pending
  <2> QED BY <1>1, <1>2, <2>1 DEF FirstFormGone
<1>3. CASE ~Pending(s)
  BY <1>1, <1>3 DEF FirstFormGone
<1> QED BY <1>2, <1>3

\* A step that closes a socket, and touches the forms of no other.
LEMMA ClosingStep ==
    ASSUME IInv, Sound, status = "running", NEW s \in Socks, CloseSocket(s),
           UNCHANGED <<serving, renamed, status>>,
           reg_expect' \in [Socks -> Seq(BOOLEAN)],
           \A t \in Socks \ {s} : reg_expect'[t] = reg_expect[t]
    PROVE  IInv'
<1>1. /\ all_fds' = all_fds \ {s}
      /\ DOMAIN connections' \subseteq Nicks /\ Entries' \subseteq Objs
      /\ DOMAIN users' \subseteq Objs
      /\ \A p \in DOMAIN users' : users'[p] \in User
      /\ Unambiguous' /\ Consistent'
      /\ Sound' => \A t \in Socks \ {s} : OnSocket(t) \subseteq OnSocket(t)'
  BY CloseSocketKeeps
<1>2. TypeOK'
  BY <1>1 DEF IInv, TypeOK
<1>3. Watched'
  <2> SUFFICES ASSUME Sound', NEW t \in all_fds' PROVE Pending(t)' \/ OnSocket(t)' # {}
    BY DEF Watched
  <2>1. t \in Socks \ {s} /\ t \in all_fds
    BY <1>1 DEF IInv, TypeOK
  <2>2. Pending(t) \/ OnSocket(t) # {}
    BY <2>1 DEF IInv, Watched
  <2> QED BY <1>1, <2>1, <2>2 DEF Pending
<1> QED BY <1>1, <1>2, <1>3 DEF IInv

\* A step that leaves connections_ and the objects alone.
LEMMA SameMap ==
    ASSUME IInv, UNCHANGED <<connections, users, renamed>>
    PROVE  /\ DOMAIN connections' \subseteq Nicks /\ Entries' \subseteq Objs
           /\ DOMAIN users' \subseteq Objs
           /\ \A p \in DOMAIN users' : users'[p] \in User
           /\ Unambiguous' /\ Consistent' /\ Sound' = Sound
           /\ \A t \in Socks : OnSocket(t)' = OnSocket(t)
BY DEF IInv, TypeOK, Unambiguous, Consistent, Sound, Entries, OnSocket

-----------------------------------------------------------------------------
(* One fact per action. *)

LEMMA AcceptIInv == ASSUME IInv, NEW s \in Socks, Accept(s) PROVE IInv'
<1>1. /\ all_fds' = all_fds \cup {s}
      /\ reg_expect' = [reg_expect EXCEPT ![s] = Append(@, FALSE)]
      /\ UNCHANGED <<connections, users, serving, renamed, status>>
      /\ status = "running" /\ Sound
  BY DEF Accept, Idle
<1>2. reg_expect \in [Socks -> Seq(BOOLEAN)] /\ reg_expect[s] \in Seq(BOOLEAN)
  BY DEF IInv, TypeOK
<1>3. /\ Append(reg_expect[s], FALSE) \in Seq(BOOLEAN)
      /\ Append(reg_expect[s], FALSE) # <<>>
  <2> DEFINE longer == Append(reg_expect[s], FALSE)
  <2>1. longer \in Seq(BOOLEAN) /\ Len(longer) = Len(reg_expect[s]) + 1
    BY <1>2, AppendProperties
  <2>2. Len(reg_expect[s]) \in Nat
    BY <1>2, LenProperties
  <2>3. Len(longer) # 0
    <3> HIDE DEF longer
    <3> QED BY <2>1, <2>2
  <2>4. longer # <<>>
    <3> HIDE DEF longer
    <3> QED BY <2>1, <2>3, EmptySeq
  <2> QED BY <2>1, <2>4
<1>4. reg_expect' \in [Socks -> Seq(BOOLEAN)]
  BY <1>1, <1>2, <1>3
<1>5. TypeOK'
  BY <1>1, <1>4, SameMap DEF IInv, TypeOK
<1>6. Watched'
  <2> SUFFICES ASSUME NEW t \in all_fds' PROVE Pending(t)' \/ OnSocket(t)' # {}
    BY DEF Watched
  <2>1. CASE t = s
    BY <1>1, <1>2, <1>3, <2>1 DEF Pending
  <2>2. CASE t # s
    <3>1. t \in all_fds /\ t \in Socks
      BY <1>1, <2>2 DEF IInv, TypeOK
    <3>2. Pending(t) \/ OnSocket(t) # {}
      BY <1>1, <3>1 DEF IInv, Watched
    <3> QED BY <1>1, <1>2, <2>2, <3>1, <3>2, SameMap DEF Pending
  <2> QED BY <2>1, <2>2
<1> QED BY <1>1, <1>5, <1>6, SameMap DEF IInv

\* Steps that change no socket, form or user.
LEMMA ServingIInv ==
    ASSUME IInv, NEW s \in Socks, Receive(s) \/ EndText(s) \/ PingClosed(s) \/ Answered(s)
    PROVE  IInv'
<1>1. /\ UNCHANGED <<all_fds, reg_expect, connections, users, renamed>>
      /\ serving' \in Socks \cup {NoSock}
      /\ status' \in {"running", "terminated"}
      /\ status = "running" /\ Sound
  BY DEF IInv, TypeOK, Receive, EndText, PingClosed, Answered, Idle, Handles, Takes, Sent
<1>2. TypeOK'
  BY <1>1, SameMap DEF IInv, TypeOK
<1>3. Watched'
  BY <1>1, SameMap DEF IInv, Watched, Pending, TypeOK
<1> QED BY <1>1, <1>2, <1>3, SameMap DEF IInv

LEMMA CloseWithFormIInv ==
    ASSUME IInv, NEW s \in Socks, CloseWithForm(s) \/ CloseLeftForm(s) PROVE IInv'
<1>1. /\ CloseSocket(s) /\ FirstFormGone(s)
      /\ UNCHANGED <<serving, renamed, status>>
      /\ status = "running" /\ Sound
  BY DEF CloseWithForm, CloseLeftForm, Idle
<1> QED BY <1>1, FormGone, ClosingStep DEF IInv

LEMMA ClosedIInv ==
    ASSUME IInv, NEW s \in Socks, PingTimeout(s) \/ QUIT(s) \/ WrongPrefix(s) PROVE IInv'
<1>1. /\ CloseSocket(s)
      /\ UNCHANGED <<reg_expect, serving, renamed, status>>
      /\ status = "running" /\ Sound
  BY DEF PingTimeout, QUIT, WrongPrefix, Idle, TakesCommand, Handles
<1>2. reg_expect' \in [Socks -> Seq(BOOLEAN)]
  BY <1>1 DEF IInv, TypeOK
<1> QED BY <1>1, <1>2, ClosingStep

LEMMA KillIInv == ASSUME IInv, NEW s \in Socks, NEW n \in Nicks, KILL(s, n) PROVE IInv'
<1> DEFINE v == users[connections[n]].socket
<1>1. /\ n \in DOMAIN connections
      /\ UNCHANGED <<reg_expect, serving, renamed>>
      /\ status = "running" /\ Sound
  BY DEF KILL, TakesCommand, Handles
<1>2. v \in Socks
  <2>1. connections[n] \in DOMAIN users
    BY <1>1 DEF Sound, Entries
  <2> QED BY <2>1 DEF IInv, TypeOK, User
<1>3. CASE v \in all_fds
  <2>1. CloseSocket(v) /\ status' = status
    BY <1>3 DEF KILL
  <2>2. reg_expect' \in [Socks -> Seq(BOOLEAN)]
    BY <1>1 DEF IInv, TypeOK
  <2> QED BY <1>1, <1>2, <2>1, <2>2, ClosingStep
<1>4. CASE v \notin all_fds
  <2>1. /\ UNCHANGED <<all_fds, connections, users>>
        /\ status' = "terminated"
    BY <1>4 DEF KILL, Sent
  <2>2. TypeOK'
    BY <1>1, <2>1, SameMap DEF IInv, TypeOK
  <2>3. Watched'
    BY <2>1 DEF Watched
  <2> QED BY <1>1, <2>1, <2>2, <2>3, SameMap DEF IInv
<1> QED BY <1>3, <1>4

LEMMA PassIInv == ASSUME IInv, NEW s \in Socks, PASS(s) PROVE IInv'
<1>1. /\ reg_expect' = [reg_expect EXCEPT ![s][1] = TRUE]
      /\ UNCHANGED <<all_fds, connections, users, serving, renamed, status>>
      /\ status = "running" /\ Sound /\ reg_expect[s] # <<>>
  BY DEF PASS, Handles, Pending
<1>2. reg_expect \in [Socks -> Seq(BOOLEAN)] /\ reg_expect[s] \in Seq(BOOLEAN)
  BY DEF IInv, TypeOK
<1> DEFINE forms == [reg_expect[s] EXCEPT ![1] = TRUE]
<1>3. forms \in Seq(BOOLEAN) /\ forms # <<>>
  <2>1. Len(reg_expect[s]) \in Nat /\ Len(reg_expect[s]) # 0
    BY <1>1, <1>2, EmptySeq, LenProperties
  <2>2. 1 \in 1 .. Len(reg_expect[s])
    BY <2>1
  <2>3. forms \in Seq(BOOLEAN) /\ Len(forms) = Len(reg_expect[s])
    BY <1>2, <2>2, ExceptSeq
  <2> QED BY <2>1, <2>3, EmptySeq
<1>4. reg_expect' = [reg_expect EXCEPT ![s] = forms]
  BY <1>1
<1>5. reg_expect' \in [Socks -> Seq(BOOLEAN)]
  BY <1>2, <1>3, <1>4
<1>6. TypeOK'
  BY <1>1, <1>5, SameMap DEF IInv, TypeOK
<1>7. \A t \in Socks : Pending(t) => Pending(t)'
  <2> HIDE DEF forms
  <2> QED BY <1>2, <1>3, <1>4 DEF Pending
<1>8. Watched'
  BY <1>1, <1>7, SameMap DEF IInv, Watched, TypeOK
<1> QED BY <1>1, <1>6, <1>8, SameMap DEF IInv

LEMMA NickNewIInv == ASSUME IInv, NEW s \in Socks, NEW n \in Nicks, NickNew(s, n) PROVE IInv'
\* On a closed socket it ends the process, as an answer would.
<1>0. CASE s \notin all_fds
  <2>1. Answered(s)
    BY <1>0 DEF NickNew, Answered, Sent
  <2> QED BY <2>1, ServingIInv
<1> SUFFICES ASSUME s \in all_fds PROVE IInv'
  BY <1>0
<1>1. /\ OnSocket(s) = {} /\ WithNick(n) = {}
      /\ UNCHANGED <<all_fds, reg_expect, serving, renamed, status>>
      /\ status = "running" /\ Sound
  BY DEF NickNew, Takes, Handles
<1>2. PICK o \in Objs \ DOMAIN users : NewUser(o, s, n)
  BY DEF NickNew
<1>3. /\ DOMAIN users' = DOMAIN users \cup {o}
      /\ users'[o] = [socket |-> s, nick |-> n, named |-> FALSE]
      /\ \A p \in DOMAIN users : users'[p] = users[p]
  BY <1>2 DEF NewUser
<1>4. /\ DOMAIN connections' = DOMAIN connections \cup {n}
      /\ \A m \in DOMAIN connections : connections'[m] = connections[m]
      /\ n \notin DOMAIN connections => connections'[n] = o
  BY <1>2 DEF NewUser
<1>5. /\ Entries \subseteq Entries'
      /\ Entries' \subseteq Entries \cup {o}
      /\ n \notin DOMAIN connections => Entries' = Entries \cup {o}
  BY <1>4 DEF Entries
\* Users of the map have another socket and another nick.
<1>6. \A m \in DOMAIN connections :
        /\ connections[m] \in DOMAIN users
        /\ connections[m] # o
        /\ users[connections[m]].socket # s
        /\ users[connections[m]].nick # n
  BY <1>1, <1>2 DEF Sound, Entries, OnSocket, WithNick
<1>7. TypeOK'
  <2>1. users'[o] \in User
    BY <1>3 DEF User
  <2>2. \A p \in DOMAIN users' : users'[p] \in User
    BY <1>3, <2>1 DEF IInv, TypeOK
  <2>3. all_fds' \subseteq Socks /\ reg_expect' \in [Socks -> Seq(BOOLEAN)]
    BY <1>1 DEF IInv, TypeOK
  <2>4. DOMAIN connections' \subseteq Nicks /\ Entries' \subseteq Objs /\ DOMAIN users' \subseteq Objs
    BY <1>3, <1>4, <1>5 DEF IInv, TypeOK
  <2> QED BY <1>1, <2>2, <2>3, <2>4 DEF IInv, TypeOK
<1>8. Unambiguous'
  <2>1. \A m, k \in DOMAIN connections :
          m # k => /\ connections'[m] # connections'[k]
                   /\ users'[connections'[m]].socket # users'[connections'[k]].socket
                   /\ users'[connections'[m]].nick # users'[connections'[k]].nick
    BY <1>3, <1>4, <1>6 DEF IInv, Unambiguous
  <2>2. ASSUME n \notin DOMAIN connections, NEW m \in DOMAIN connections
        PROVE  /\ connections'[m] # connections'[n]
               /\ users'[connections'[m]].socket # users'[connections'[n]].socket
               /\ users'[connections'[m]].nick # users'[connections'[n]].nick
    BY <1>3, <1>4, <1>6, <2>2
  <2> QED BY <1>4, <2>1, <2>2 DEF Unambiguous
<1>9. Consistent'
  <2> SUFFICES ASSUME ~renamed
               PROVE  /\ Entries' = DOMAIN users'
                      /\ \A m \in DOMAIN connections' : users'[connections'[m]].nick = m
    BY <1>1 DEF Consistent
  <2>1. /\ Entries = DOMAIN users
        /\ \A m \in DOMAIN connections : users[connections[m]].nick = m
    BY DEF IInv, Consistent
  <2>2. n \notin DOMAIN connections
    BY <1>6, <2>1
  <2> QED BY <1>3, <1>4, <1>5, <1>6, <2>1, <2>2
<1>10. Watched'
  <2>1. ASSUME NEW t \in Socks, OnSocket(t) # {} PROVE OnSocket(t)' # {}
    <3>1. PICK p \in OnSocket(t) : TRUE
      BY <2>1
    <3>2. p \in Entries /\ users[p].socket = t /\ p \in DOMAIN users
      BY <1>1, <3>1 DEF OnSocket, Sound
    <3>3. p \in Entries' /\ users'[p].socket = t
      BY <1>3, <1>5, <3>2
    <3> QED BY <3>3 DEF OnSocket
  <2>2. \A t \in all_fds : t \in Socks /\ (Pending(t) \/ OnSocket(t) # {})
    BY <1>1 DEF IInv, Watched, TypeOK
  <2> QED BY <1>1, <2>1, <2>2 DEF Watched, Pending
<1> QED BY <1>7, <1>8, <1>9, <1>10 DEF IInv

\* What becomes of the map and the objects when o alone is changed, to u.
OnlyChanged(o, u) ==
    /\ DOMAIN connections' \subseteq Nicks /\ Entries' \subseteq Objs
    /\ DOMAIN users' \subseteq Objs
    /\ \A p \in DOMAIN users' : users'[p] \in User
    /\ Entries' = Entries /\ DOMAIN users' = DOMAIN users
    /\ users'[o] = u /\ \A p \in DOMAIN users \ {o} : users'[p] = users[p]
    /\ \A t \in Socks : OnSocket(t)' = OnSocket(t)

\* A step that changes one user of the map, in its nick or its name, and
\* takes no socket from anybody.
LEMMA ChangedUser ==
    ASSUME IInv, Sound, status = "running", NEW s \in Socks, NEW o \in OnSocket(s),
           NEW u, u \in User, u.socket = s, users' = [users EXCEPT ![o] = u],
           UNCHANGED <<all_fds, connections>>
    PROVE  OnlyChanged(o, u)
<1>1. o \in Entries /\ o \in DOMAIN users /\ users[o].socket = s
  BY DEF OnSocket, Sound
<1>2. /\ DOMAIN users' = DOMAIN users
      /\ users'[o] = u /\ \A p \in DOMAIN users \ {o} : users'[p] = users[p]
  BY <1>1
<1>3. Entries' = Entries
  BY DEF Entries
<1>4. \A p \in DOMAIN users : users'[p].socket = users[p].socket
  BY <1>1, <1>2
<1>5. \A t \in Socks : OnSocket(t)' = OnSocket(t)
  BY <1>3, <1>4 DEF OnSocket, Sound
<1>6. \A p \in DOMAIN users' : users'[p] \in User
  BY <1>2 DEF IInv, TypeOK
<1> QED BY <1>2, <1>3, <1>5, <1>6 DEF IInv, TypeOK, OnlyChanged

LEMMA NickChangeIInv ==
    ASSUME IInv, NEW s \in Socks, NEW n \in Nicks, NickChange(s, n) PROVE IInv'
<1>1. /\ WithNick(n) = {} /\ renamed' = TRUE
      /\ UNCHANGED <<all_fds, reg_expect, connections, serving>>
      /\ status' \in {"running", "terminated"}
      /\ status = "running" /\ Sound
  BY DEF NickChange, Takes, Handles, Sent
<1>2. PICK o \in OnSocket(s) : users' = [users EXCEPT ![o].nick = n]
  BY DEF NickChange
<1> DEFINE u == [users[o] EXCEPT !.nick = n]
<1>3. o \in DOMAIN users /\ users[o].socket = s /\ users[o] \in User
  BY <1>1 DEF OnSocket, Sound, IInv, TypeOK
<1>4. u \in User /\ u.socket = s /\ u.nick = n
  BY <1>3 DEF User
<1>5. users' = [users EXCEPT ![o] = u]
  BY <1>2
<1>6. /\ DOMAIN connections' \subseteq Nicks /\ Entries' \subseteq Objs
      /\ DOMAIN users' \subseteq Objs
      /\ \A p \in DOMAIN users' : users'[p] \in User
      /\ users'[o] = u /\ \A p \in DOMAIN users \ {o} : users'[p] = users[p]
      /\ \A t \in Socks : OnSocket(t)' = OnSocket(t)
  <2>1. u \in User /\ u.socket = s /\ users' = [users EXCEPT ![o] = u]
        /\ UNCHANGED <<all_fds, connections>> /\ Sound /\ status = "running"
    BY <1>1, <1>4, <1>5
  <2> HIDE DEF u
  <2>2. OnlyChanged(o, u)
    BY <2>1, ChangedUser
  <2> QED BY <2>2 DEF OnlyChanged
<1>7. TypeOK'
  BY <1>1, <1>6 DEF IInv, TypeOK
<1>8. Unambiguous'
  <2>1. \A m \in DOMAIN connections : /\ connections[m] \in DOMAIN users
                                      /\ users[connections[m]].nick # n
    BY <1>1 DEF Sound, Entries, WithNick
  <2>2. \A p \in DOMAIN users : users'[p].socket = users[p].socket
    BY <1>3, <1>4, <1>6
  <2>3. \A p \in DOMAIN users : users'[p].nick = IF p = o THEN n ELSE users[p].nick
    BY <1>4, <1>6
  <2>4. \A m, k \in DOMAIN connections :
          m # k => /\ connections[m] # connections[k]
                   /\ users[connections[m]].socket # users[connections[k]].socket
                   /\ users[connections[m]].nick # users[connections[k]].nick
    BY <2>1 DEF IInv, Unambiguous
  <2> HIDE DEF u
  <2>5. \A m, k \in DOMAIN connections :
          m # k => /\ users'[connections[m]].socket # users'[connections[k]].socket
                   /\ users'[connections[m]].nick # users'[connections[k]].nick
    BY <2>1, <2>2, <2>3, <2>4
  <2> QED BY <1>1, <2>4, <2>5 DEF Unambiguous
<1>9. Watched'
  BY <1>1, <1>6 DEF IInv, Watched, Pending, TypeOK
<1> QED BY <1>1, <1>7, <1>8, <1>9 DEF IInv, Consistent

LEMMA UserIInv ==
    ASSUME IInv, NEW s \in Socks, UserAccepted(s) \/ UserWithoutRealname(s) PROVE IInv'
<1>1. /\ UNCHANGED <<all_fds, connections, serving, renamed>>
      /\ status' \in {"running", "terminated"}
      /\ reg_expect' = reg_expect \/ FirstFormGone(s)
      /\ status = "running" /\ Sound
  BY DEF UserAccepted, UserWithoutRealname, Takes, Handles, Sent
<1>2. PICK o \in OnSocket(s) : users' = [users EXCEPT ![o].named = TRUE]
  BY DEF UserAccepted, UserWithoutRealname
<1> DEFINE u == [users[o] EXCEPT !.named = TRUE]
<1>3. o \in DOMAIN users /\ users[o].socket = s /\ users[o] \in User
  BY <1>1 DEF OnSocket, Sound, IInv, TypeOK
<1>4. u \in User /\ u.socket = s /\ u.nick = users[o].nick
  BY <1>3 DEF User
<1>5. users' = [users EXCEPT ![o] = u]
  BY <1>2
<1>6. /\ DOMAIN connections' \subseteq Nicks /\ Entries' \subseteq Objs
      /\ DOMAIN users' \subseteq Objs
      /\ \A p \in DOMAIN users' : users'[p] \in User
      /\ Entries' = Entries /\ DOMAIN users' = DOMAIN users
      /\ users'[o] = u /\ \A p \in DOMAIN users \ {o} : users'[p] = users[p]
      /\ \A t \in Socks : OnSocket(t)' = OnSocket(t)
  <2> HIDE DEF u
  <2>1. OnlyChanged(o, u)
    BY <1>1, <1>4, <1>5, ChangedUser
  <2> QED BY <2>1 DEF OnlyChanged
<1>7. reg_expect' \in [Socks -> Seq(BOOLEAN)] /\ \A t \in Socks \ {s} : reg_expect'[t] = reg_expect[t]
  BY <1>1, FormGone DEF IInv, TypeOK
<1>8. TypeOK'
  BY <1>1, <1>6, <1>7 DEF IInv, TypeOK
<1>9. \A p \in DOMAIN users : users'[p].socket = users[p].socket /\ users'[p].nick = users[p].nick
  BY <1>3, <1>4, <1>6
<1>10. \A m \in DOMAIN connections : connections[m] \in DOMAIN users
  BY <1>1 DEF Sound, Entries
<1>11. Unambiguous'
  BY <1>1, <1>9, <1>10 DEF IInv, Unambiguous
<1>12. Consistent'
  BY <1>1, <1>6, <1>9, <1>10 DEF IInv, Consistent
<1>13. Watched'
  <2> SUFFICES ASSUME NEW t \in all_fds' PROVE Pending(t)' \/ OnSocket(t)' # {}
    BY DEF Watched
  <2>1. t \in all_fds /\ t \in Socks
    BY <1>1 DEF IInv, TypeOK
  <2>2. CASE t = s
    BY <1>6, <2>1, <2>2
  <2>3. CASE t # s
    <3>1. Pending(t) \/ OnSocket(t) # {}
      BY <1>1, <2>1 DEF IInv, Watched
    <3> QED BY <1>6, <1>7, <2>1, <2>3, <3>1 DEF Pending
  <2> QED BY <2>2, <2>3
<1> QED BY <1>8, <1>11, <1>12, <1>13 DEF IInv

LEMMA FinalIInv == ASSUME IInv, ReadFreed \/ Stopped PROVE IInv'
<1>1. /\ UNCHANGED <<all_fds, reg_expect, connections, users, serving, renamed>>
      /\ status' = "undefined" \/ (status' = status /\ status # "running")
  BY DEF ReadFreed, Stopped, vars
<1>2. TypeOK'
  BY <1>1, SameMap DEF IInv, TypeOK
<1>3. Watched'
  BY <1>1 DEF Watched
<1> QED BY <1>1, <1>2, <1>3, SameMap DEF IInv

-----------------------------------------------------------------------------
(* The invariant, and what it gives. *)

LEMMA InitIInv == Init => IInv
<1> SUFFICES ASSUME Init PROVE IInv
  OBVIOUS
<1>1. <<>> \in Seq(BOOLEAN)
  OBVIOUS
<1>2. /\ DOMAIN connections = {} /\ DOMAIN users = {} /\ Entries = {}
      /\ all_fds = {} /\ reg_expect \in [Socks -> Seq(BOOLEAN)]
      /\ serving = NoSock /\ renamed = FALSE /\ status = "running"
  BY <1>1 DEF Init, Entries
<1> QED BY <1>2 DEF IInv, TypeOK, Unambiguous, Consistent, Watched

LEMMA NextIInv == IInv /\ [Next]_vars => IInv'
<1> SUFFICES ASSUME IInv, [Next]_vars PROVE IInv'
  OBVIOUS
<1>1. ASSUME NEW s \in Socks, LoopStep(s) PROVE IInv'
  BY <1>1, AcceptIInv, ServingIInv, CloseWithFormIInv, ClosedIInv DEF LoopStep
<1>2. ASSUME NEW s \in Socks, CommandStep(s) PROVE IInv'
  BY <1>2, PassIInv, UserIInv, ServingIInv, ClosedIInv, NickNewIInv, NickChangeIInv, KillIInv
     DEF CommandStep
<1>3. ASSUME ReadFreed \/ Stopped PROVE IInv'
  BY <1>3, FinalIInv
<1>4. ASSUME UNCHANGED vars PROVE IInv'
  <2>1. /\ UNCHANGED <<all_fds, reg_expect, serving, status>>
        /\ UNCHANGED <<connections, users, renamed>>
    BY <1>4 DEF vars
  <2>2. TypeOK'
    BY <2>1, SameMap DEF IInv, TypeOK
  <2>3. Watched'
    BY <2>1, SameMap DEF IInv, Watched, Pending, TypeOK
  <2> QED BY <2>1, <2>2, <2>3, SameMap DEF IInv
<1> QED BY <1>1, <1>2, <1>3, <1>4 DEF Next

\* The inductive invariant holds in every state.
THEOREM Invariant == Spec => []IInv
<1> QED BY InitIInv, NextIInv, PTL DEF Spec

\* Every variable keeps its shape (TypeOK), however descriptors and addresses
\* are used again.
THEOREM TypeCorrect == Spec => []TypeOK
<1>1. IInv => TypeOK
  BY DEF IInv
<1> QED BY <1>1, Invariant, PTL

\* find_user and find_connection have one answer at most (Unambiguous), even
\* though NICK leaves the names of the map behind.
THEOREM LookupsUnambiguous == Spec => []Unambiguous
<1>1. IInv => Unambiguous
  BY DEF IInv
<1> QED BY <1>1, Invariant, PTL

\* Without a change of nick, remove_user and add_user neither leak an object nor
\* leave a name without one (Consistent).
THEOREM RegistryConsistent == Spec => []Consistent
<1>1. IInv => Consistent
  BY DEF IInv
<1> QED BY <1>1, Invariant, PTL

\* No socket is left open that no timeout looks at (Watched).
THEOREM SocketsWatched == Spec => []Watched
<1>1. IInv => Watched
  BY DEF IInv
<1> QED BY <1>1, Invariant, PTL
=============================================================================
