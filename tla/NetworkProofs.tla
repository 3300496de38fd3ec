---------------------------- MODULE NetworkProofs ----------------------------
(***************************************************************************)
(* Proofs about module Network, for any servers and users, links that come *)
(* and go, and processes that end at any time.                             *)
(*                                                                         *)
(* The links form a forest: every server has one parent at most, and       *)
(* CONNECT gives a server that has none a parent that is not below it.     *)
(* The first lemmas say on which side of a link a server lies, and that a  *)
(* new link changes nothing of it.  The second part is about what servers  *)
(* are told.                                                               *)
(***************************************************************************)
EXTENDS Network, FiniteSetTheorems, SequenceTheorems, TLAPS

\* par[x] is the parent of x, or None.
Forests == [Servers -> Servers \cup {None}]

\* S has the parents of its members.
ClosedUp(par, S) == \A y \in S : par[y] \in S \cup {None}

\* S has the parents and the children of its members.
ClosedBoth(par, S) == ClosedUp(par, S) /\ \A y \in Servers : par[y] \in S => y \in S

\* z is x or below it.
Under(par, z, x) == \A S \in SUBSET Servers : z \in S /\ ClosedUp(par, S) => x \in S

\* z and x are in the same tree.
Joined(par, z, x) == \A S \in SUBSET Servers : z \in S /\ ClosedBoth(par, S) => x \in S

\* From x, the server h lies by the link to y.
Toward(par, x, y, h) ==
    \/ par[y] = x /\ Under(par, h, y)
    \/ par[x] = y /\ ~Under(par, h, x) /\ Joined(par, h, x)

\* Is there a link between x and y?
Edge(par, x, y) == par[x] = y \/ par[y] = x

Acyclic(par) == \A x \in Servers : par[x] # None => ~Under(par, par[x], x)

\* par after x, which had no parent, was given p.
WithEdge(par, x, p) == [par EXCEPT ![x] = p]

-----------------------------------------------------------------------------
(* Above and below. *)

\* The servers above h, and h.
Above(par, h) == {v \in Servers : Under(par, h, v)}

\* They are the least set with h that has the parents of its members.
LEMMA AboveIsClosed ==
    ASSUME NEW par \in Forests, NEW h \in Servers
    PROVE  h \in Above(par, h) /\ ClosedUp(par, Above(par, h))
<1>1. h \in Above(par, h)
  BY DEF Above, Under
<1>2. ASSUME NEW y \in Above(par, h), par[y] # None PROVE par[y] \in Above(par, h)
  <2>1. par[y] \in Servers
    BY <1>2 DEF Above, Forests
  <2>2. ASSUME NEW S \in SUBSET Servers, h \in S, ClosedUp(par, S) PROVE par[y] \in S
    BY <1>2, <2>2 DEF Above, Under, ClosedUp
  <2> QED BY <2>1, <2>2 DEF Above, Under
<1> QED BY <1>1, <1>2 DEF ClosedUp

\* A server is below itself, and what is below a server is below its parent.
LEMMA UnderParent ==
    ASSUME NEW par \in Forests, NEW h \in Servers, NEW y \in Servers, NEW x \in Servers,
           par[y] = x, Under(par, h, y)
    PROVE  Under(par, h, x)
BY NoneAssumption DEF Under, ClosedUp

LEMMA UnderItself ==
    ASSUME NEW par, NEW x
    PROVE  Under(par, x, x) /\ Joined(par, x, x)
BY DEF Under, Joined

LEMMA UnderTransitive ==
    ASSUME NEW par, NEW a \in Servers, NEW b \in Servers, NEW c \in Servers,
           Under(par, a, b), Under(par, b, c)
    PROVE  Under(par, a, c)
BY DEF Under

\* Who is below another one has a parent that is below it.
LEMMA ParentUnder ==
    ASSUME NEW par \in Forests, NEW y \in Servers, NEW x \in Servers,
           Under(par, y, x), y # x
    PROVE  par[y] \in Servers /\ Under(par, par[y], x)
<1>1. CASE par[y] = None
  <2>1. ClosedUp(par, {y})
    BY <1>1 DEF ClosedUp
  <2> QED BY <2>1 DEF Under
<1>2. CASE par[y] \in Servers
  <2>1. ASSUME NEW S \in SUBSET Servers, par[y] \in S, ClosedUp(par, S) PROVE x \in S
    <3>1. ClosedUp(par, S \cup {y})
      BY <2>1 DEF ClosedUp
    <3> QED BY <3>1 DEF Under
  <2> QED BY <1>2, <2>1 DEF Under
<1> QED BY <1>1, <1>2 DEF Forests

\* Two children of a server have nobody below them in common.
LEMMA SiblingsApart ==
    ASSUME NEW par \in Forests, Acyclic(par), NEW x \in Servers, NEW y \in Servers, NEW z \in Servers,
           par[y] = x, par[z] = x, y # z, NEW h \in Servers, Under(par, h, y)
    PROVE  ~Under(par, h, z)
<1> DEFINE A == {v \in Servers : Under(par, h, v) /\ Under(par, v, y)} \cup {v \in Servers : Under(par, y, v)}
<1>1. ~Under(par, x, y) /\ ~Under(par, x, z)
  BY NoneAssumption DEF Acyclic
<1>2. ~Under(par, y, z) /\ ~Under(par, z, y)
  BY <1>1, ParentUnder
<1>3. h \in A
  BY UnderItself
<1>4. ClosedUp(par, A)
  <2>1. ASSUME NEW v \in Servers, Under(par, h, v), Under(par, v, y), par[v] # None
        PROVE  par[v] \in A
    <3>1. par[v] \in Servers
      BY <2>1 DEF Forests
    <3>2. Under(par, h, par[v])
      BY <2>1, <3>1, UnderParent
    <3>3. CASE v = y
      BY <3>1, <3>3, UnderParent, UnderItself
    <3>4. CASE v # y
      BY <2>1, <3>1, <3>2, <3>4, ParentUnder
    <3> QED BY <3>3, <3>4
  <2>2. ASSUME NEW v \in Servers, Under(par, y, v), par[v] # None
        PROVE  par[v] \in A
    <3>1. par[v] \in Servers
      BY <2>2 DEF Forests
    <3> QED BY <2>2, <3>1, UnderParent
  <2> QED BY <2>1, <2>2 DEF ClosedUp
<1>5. z \notin A
  BY <1>2
<1>6. A \in SUBSET Servers
  OBVIOUS
<1> HIDE DEF A
<1> QED BY <1>3, <1>4, <1>5, <1>6 DEF Under

\* Who is below a server is in its tree, and so are the ends of a link.
LEMMA UnderIsJoined ==
    ASSUME NEW par, NEW h \in Servers, NEW y \in Servers, Under(par, h, y)
    PROVE  Joined(par, h, y)
BY DEF Under, Joined, ClosedBoth

LEMMA JoinedAlongEdge ==
    ASSUME NEW par, NEW h \in Servers, NEW x \in Servers, NEW y \in Servers,
           Joined(par, h, x), Edge(par, x, y)
    PROVE  Joined(par, h, y)
BY NoneAssumption DEF Joined, ClosedBoth, ClosedUp, Edge

\* In the tree of a server that has no parent everybody is below it.
LEMMA RootIsAbove ==
    ASSUME NEW par \in Forests, NEW x \in Servers, par[x] = None,
           NEW h \in Servers, Under(par, h, x), NEW v \in Servers, Joined(par, h, v)
    PROVE  Under(par, v, x)
<1> DEFINE D == {w \in Servers : Under(par, w, x)}
<1>1. ClosedUp(par, D)
  <2> SUFFICES ASSUME NEW w \in Servers, Under(par, w, x), par[w] # None PROVE par[w] \in D
    BY DEF ClosedUp
  <2> QED BY ParentUnder
<1>2. ASSUME NEW w \in Servers, par[w] \in D PROVE w \in D
  <2>1. Under(par, w, par[w])
    BY <1>2, UnderParent, UnderItself
  <2> QED BY <1>2, <2>1, UnderTransitive
<1>3. D \in SUBSET Servers /\ h \in D
  OBVIOUS
<1> HIDE DEF D
<1>4. v \in D
  BY <1>1, <1>2, <1>3 DEF Joined, ClosedBoth
<1> QED BY <1>4 DEF D

-----------------------------------------------------------------------------
(* On which side. *)

\* A message about h that has come from the side of h goes on to the others,
\* who have h on the side it comes from.
LEMMA TowardPassedOn ==
    ASSUME NEW par \in Forests, Acyclic(par), NEW x \in Servers, NEW y \in Servers, NEW z \in Servers,
           NEW h \in Servers, Toward(par, x, y, h), Edge(par, x, z), z # y
    PROVE  Toward(par, z, x, h)
<1>1. Joined(par, h, x)
  BY UnderIsJoined, JoinedAlongEdge DEF Toward, Edge
<1>2. Joined(par, h, z)
  BY <1>1, JoinedAlongEdge
<1>3. CASE par[x] = z
  <2>1. Under(par, h, x)
    BY <1>3, UnderParent DEF Toward
  <2> QED BY <1>3, <2>1 DEF Toward
<1>4. CASE par[z] = x
  <2>1. ~Under(par, h, z)
    BY <1>4, SiblingsApart, UnderParent DEF Toward
  <2> QED BY <1>2, <1>4, <2>1 DEF Toward
<1> QED BY <1>3, <1>4 DEF Edge

\* A message about a server's own user finds the server on its side.
LEMMA TowardHome ==
    ASSUME NEW par \in Forests, Acyclic(par), NEW x \in Servers, NEW z \in Servers, Edge(par, x, z)
    PROVE  Toward(par, z, x, x)
<1>1. CASE par[x] = z
  BY <1>1, UnderItself DEF Toward
<1>2. CASE par[z] = x
  <2>1. ~Under(par, x, z)
    BY <1>2, NoneAssumption DEF Acyclic
  <2>2. Joined(par, x, z)
    BY UnderItself, JoinedAlongEdge
  <2> QED BY <1>2, <2>1, <2>2 DEF Toward
<1> QED BY <1>1, <1>2 DEF Edge

\* A server lies by one link, and no server lies by a link of its own.
LEMMA TowardUnique ==
    ASSUME NEW par \in Forests, Acyclic(par), NEW x \in Servers, NEW y \in Servers, NEW z \in Servers,
           NEW h \in Servers, Toward(par, x, y, h), Toward(par, x, z, h)
    PROVE  y = z
BY SiblingsApart, UnderParent DEF Toward

LEMMA NotTowardItself ==
    ASSUME NEW par \in Forests, Acyclic(par), NEW x \in Servers, NEW y \in Servers
    PROVE  ~Toward(par, x, y, x)
BY UnderItself, NoneAssumption DEF Toward, Acyclic

LEMMA TowardIsEdge ==
    ASSUME NEW par, NEW x, NEW y, NEW h, Toward(par, x, y, h)
    PROVE  Edge(par, x, y)
BY DEF Toward, Edge

-----------------------------------------------------------------------------
(* A new link. *)

\* What was below a server stays below it.
LEMMA LinkKeepsUnder ==
    ASSUME NEW par \in Forests, NEW x \in Servers, NEW p \in Servers, par[x] = None,
           NEW h \in Servers, NEW v \in Servers, Under(par, h, v)
    PROVE  Under(WithEdge(par, x, p), h, v)
BY DEF Under, ClosedUp, WithEdge, Forests

\* Nothing comes below a server that p is not below, unless it was below x.
LEMMA LinkKeepsNotUnder ==
    ASSUME NEW par \in Forests, NEW x \in Servers, NEW p \in Servers, par[x] = None, ~Under(par, p, x),
           NEW h \in Servers, NEW v \in Servers, ~Under(par, h, v), ~(Under(par, h, x) /\ Under(par, p, v))
    PROVE  ~Under(WithEdge(par, x, p), h, v)
<1>1. h \in Above(par, h) /\ ClosedUp(par, Above(par, h)) /\ v \notin Above(par, h)
  BY AboveIsClosed DEF Above
<1>2. p \in Above(par, p) /\ ClosedUp(par, Above(par, p)) /\ x \notin Above(par, p)
  BY AboveIsClosed DEF Above
<1>3. CASE x \notin Above(par, h)
  <2>1. ClosedUp(WithEdge(par, x, p), Above(par, h))
    BY <1>1, <1>3 DEF ClosedUp, WithEdge, Forests, Above
  <2> QED BY <1>1, <2>1 DEF Under, Above
<1>4. CASE x \in Above(par, h)
  <2>1. v \notin Above(par, p)
    BY <1>4 DEF Above
  <2>2. ClosedUp(WithEdge(par, x, p), Above(par, h) \cup Above(par, p))
    <3> SUFFICES ASSUME NEW y \in Above(par, h) \cup Above(par, p)
                 PROVE  WithEdge(par, x, p)[y] \in Above(par, h) \cup Above(par, p) \cup {None}
      BY DEF ClosedUp
    <3>1. CASE y = x
      BY <1>2, <3>1 DEF WithEdge, Forests
    <3>2. CASE y # x
      <4>1. WithEdge(par, x, p)[y] = par[y]
        BY <3>2 DEF WithEdge, Forests, Above
      <4> QED BY <1>1, <1>2, <4>1 DEF ClosedUp
    <3> QED BY <3>1, <3>2
  <2>3. Above(par, h) \cup Above(par, p) \in SUBSET Servers
    BY DEF Above
  <2> QED BY <1>1, <2>1, <2>2, <2>3 DEF Under
<1> QED BY <1>3, <1>4

\* The forest stays one.
LEMMA LinkKeepsAcyclic ==
    ASSUME NEW par \in Forests, Acyclic(par), NEW x \in Servers, NEW p \in Servers, par[x] = None,
           ~Under(par, p, x)
    PROVE  WithEdge(par, x, p) \in Forests /\ Acyclic(WithEdge(par, x, p))
<1> DEFINE q == WithEdge(par, x, p)
<1>1. q \in Forests /\ q[x] = p /\ \A y \in Servers \ {x} : q[y] = par[y]
  BY DEF WithEdge, Forests
<1>2. ~Under(q, p, x)
  BY LinkKeepsNotUnder
<1>3. ASSUME NEW z \in Servers, z # x, par[z] # None PROVE ~Under(q, par[z], z)
  <2>1. par[z] \in Servers /\ ~Under(par, par[z], z)
    BY <1>3 DEF Acyclic, Forests
  <2>2. ~(Under(par, par[z], x) /\ Under(par, p, z))
    <3>1. ASSUME Under(par, par[z], x), Under(par, p, z) PROVE FALSE
      <4>1. Under(par, z, par[z])
        BY <2>1, UnderParent, UnderItself
      <4>2. Under(par, p, x)
        BY <2>1, <3>1, <4>1, UnderTransitive
      <4> QED BY <4>2
    <3> QED BY <3>1
  <2> QED BY <2>1, <2>2, LinkKeepsNotUnder
<1> QED BY <1>1, <1>2, <1>3 DEF Acyclic

LEMMA LinkKeepsJoined ==
    ASSUME NEW par \in Forests, NEW x \in Servers, NEW p \in Servers, par[x] = None,
           NEW h \in Servers, NEW v \in Servers, Joined(par, h, v)
    PROVE  Joined(WithEdge(par, x, p), h, v)
<1> SUFFICES ASSUME NEW S \in SUBSET Servers, h \in S, ClosedBoth(WithEdge(par, x, p), S)
             PROVE  ClosedBoth(par, S)
  BY DEF Joined
<1> QED BY NoneAssumption DEF ClosedBoth, ClosedUp, WithEdge, Forests

\* The side on which a server lies stays the same.
LEMMA LinkKeepsToward ==
    ASSUME NEW par \in Forests, Acyclic(par), NEW x \in Servers, NEW p \in Servers, par[x] = None,
           ~Under(par, p, x),
           NEW a \in Servers, NEW b \in Servers, NEW h \in Servers, Toward(par, a, b, h)
    PROVE  Toward(WithEdge(par, x, p), a, b, h)
<1> DEFINE q == WithEdge(par, x, p)
<1>1. \A y \in Servers \ {x} : q[y] = par[y]
  BY DEF WithEdge, Forests
<1>2. CASE par[b] = a /\ Under(par, h, b)
  BY <1>1, <1>2, LinkKeepsUnder, NoneAssumption DEF Toward
<1>3. CASE par[a] = b /\ ~Under(par, h, a) /\ Joined(par, h, a)
  <2>1. ~(Under(par, h, x) /\ Under(par, p, a))
    BY <1>3, RootIsAbove, UnderTransitive
  <2>2. ~Under(q, h, a)
    BY <1>3, <2>1, LinkKeepsNotUnder
  <2>3. Joined(q, h, a)
    BY <1>3, LinkKeepsJoined
  <2> QED BY <1>1, <1>3, <2>2, <2>3, NoneAssumption DEF Toward
<1> QED BY <1>2, <1>3 DEF Toward

-----------------------------------------------------------------------------
(* The invariant. *)

Queues == [Servers -> [Servers -> Seq(Msg)]]

\* Messages that say something of a user.
About(m) == m.type \in {"NICK", "QUIT"}

\* The queues q: messages go along links only, and one about a user comes from
\* the side of the user's server.
Fits(q, par) ==
    \A x, y \in Servers :
        /\ q[y][x] # <<>> => Edge(par, x, y)
        /\ \A m \in ToSet(q[y][x]) : About(m) => Toward(par, x, y, Home[m.who])

\* A link that is not registered yet begins with the SERVER of the other end.
\* (The child sends it at once, the parent when it has registered the child,
\* unless it takes that for its own parent.)
Fresh(q, op, sr) ==
    \A x \in Servers : \A y \in op[x] :
        sr[x][y] # y /\ x \notin heirs[y] =>
            /\ q[y][x] # <<>> => Head(q[y][x]) = SERVERof(y)
            /\ q[y][x] = <<>> => parent[x] = y /\ sr[y][x] # x

\* Users of other servers are known by the link on whose side they are.
UsersFit(us, par) ==
    \A x \in Servers, u \in Users :
        /\ us[x][u] \in Servers => Toward(par, x, us[x][u], Home[u])
        /\ us[x][u] \in Local => Home[u] = x

\* Nobody is known by a link that is not registered.
LinksRegistered(us, op, sr) ==
    \A x \in Servers : \A y \in op[x] : sr[x][y] # y => \A u \in Users : us[x][u] # y

\* What is known by a link goes with the link, which is one of the forest.
ServersFit(op, sr) ==
    /\ \A x \in Servers : \A y \in op[x] : Edge(parent, x, y)
    /\ \A x, y \in Servers : sr[x][y] = y => Edge(parent, x, y)
    /\ \A x, z \in Servers : sr[x][z] # None => sr[x][sr[x][z]] = sr[x][z]

\* Only servers that were started have links.
Started == \A x \in Servers : parent[x] # None => status[x] # "off" /\ status[parent[x]] # "off"

IInv ==
    /\ TypeOK
    /\ Acyclic(parent)
    /\ Started
    /\ ServersFit(open, srv)
    /\ Fits(queue, parent)
    /\ Fresh(queue, open, srv)
    /\ UsersFit(usr, parent)
    /\ LinksRegistered(usr, open, srv)

-----------------------------------------------------------------------------
(* Sequences. *)

LEMMA ToSetConcat ==
    ASSUME NEW s \in Seq(Msg), NEW t \in Seq(Msg)
    PROVE  s \o t \in Seq(Msg) /\ ToSet(s \o t) = ToSet(s) \cup ToSet(t)
<1>1. /\ s \o t \in Seq(Msg) /\ Len(s \o t) = Len(s) + Len(t)
      /\ \A i \in 1..(Len(s) + Len(t)) : (s \o t)[i] = IF i <= Len(s) THEN s[i] ELSE t[i - Len(s)]
  BY ConcatProperties
<1>2. DOMAIN s = 1..Len(s) /\ DOMAIN t = 1..Len(t) /\ DOMAIN (s \o t) = 1..(Len(s) + Len(t))
      /\ Len(s) \in Nat /\ Len(t) \in Nat
  BY <1>1, LenProperties
<1>3. ASSUME NEW i \in DOMAIN t PROVE t[i] \in ToSet(s \o t)
  <2>1. i + Len(s) \in DOMAIN (s \o t) /\ (s \o t)[i + Len(s)] = t[i]
    BY <1>1, <1>2
  <2> QED BY <2>1 DEF ToSet
<1>4. ASSUME NEW i \in DOMAIN s PROVE s[i] \in ToSet(s \o t)
  <2>1. i \in DOMAIN (s \o t) /\ (s \o t)[i] = s[i]
    BY <1>1, <1>2
  <2> QED BY <2>1 DEF ToSet
<1>5. ASSUME NEW i \in DOMAIN (s \o t) PROVE (s \o t)[i] \in ToSet(s) \cup ToSet(t)
  <2>1. CASE i <= Len(s)
    BY <1>1, <1>2, <2>1 DEF ToSet
  <2>2. CASE i > Len(s)
    <3>1. i - Len(s) \in DOMAIN t /\ (s \o t)[i] = t[i - Len(s)]
      BY <1>1, <1>2, <2>2
    <3> QED BY <3>1 DEF ToSet
  <2> QED BY <1>2, <2>1, <2>2
<1> QED BY <1>1, <1>3, <1>4, <1>5 DEF ToSet

LEMMA ToSetTail ==
    ASSUME NEW s \in Seq(Msg), s # <<>>
    PROVE  /\ Head(s) \in Msg /\ Head(s) \in ToSet(s)
           /\ Tail(s) \in Seq(Msg) /\ ToSet(Tail(s)) \subseteq ToSet(s)
<1>1. /\ Head(s) \in Msg /\ Tail(s) \in Seq(Msg) /\ Len(Tail(s)) = Len(s) - 1
      /\ \A i \in 1..Len(Tail(s)) : Tail(s)[i] = s[i + 1]
  BY HeadTailProperties
<1>2. DOMAIN s = 1..Len(s) /\ DOMAIN Tail(s) = 1..(Len(s) - 1) /\ Len(s) \in Nat /\ Len(s) > 0
  BY <1>1, LenProperties, EmptySeq
<1>3. ASSUME NEW i \in DOMAIN Tail(s) PROVE Tail(s)[i] \in ToSet(s)
  <2>1. i + 1 \in DOMAIN s /\ Tail(s)[i] = s[i + 1]
    BY <1>1, <1>2
  <2> QED BY <2>1 DEF ToSet
<1>4. Head(s) = s[1] /\ 1 \in DOMAIN s
  BY <1>2
<1> QED BY <1>1, <1>3, <1>4 DEF ToSet

LEMMA ToSetSmall ==
    ASSUME NEW m \in Msg
    PROVE  /\ <<m>> \in Seq(Msg) /\ ToSet(<<m>>) = {m} /\ <<m>> # <<>> /\ Head(<<m>>) = m
           /\ <<>> \in Seq(Msg) /\ ToSet(<<>>) = {}
<1>1. <<m>> \in Seq(Msg) /\ DOMAIN <<m>> = {1} /\ <<m>>[1] = m /\ Head(<<m>>) = m
  OBVIOUS
<1>2. <<>> \in Seq(Msg) /\ DOMAIN <<>> = {}
  OBVIOUS
<1> QED BY <1>1, <1>2 DEF ToSet

LEMMA HeadConcat ==
    ASSUME NEW s \in Seq(Msg), NEW t \in Seq(Msg)
    PROVE  /\ s # <<>> => s \o t # <<>> /\ Head(s \o t) = Head(s)
           /\ s = <<>> => s \o t = t
<1>1. CASE s = <<>>
  BY <1>1, ConcatEmptySeq
<1>2. CASE s # <<>>
  <2>1. Len(s) \in Nat \ {0} /\ Len(t) \in Nat
    BY <1>2, EmptySeq, LenProperties
  <2>2. s \o t \in Seq(Msg) /\ Len(s \o t) = Len(s) + Len(t) /\ (s \o t)[1] = s[1]
    BY <2>1, ConcatProperties
  <2> QED BY <1>2, <2>1, <2>2
<1> QED BY <1>1, <1>2

\* SetToSeq lists a finite set.
LEMMA SetToSeqIs ==
    ASSUME NEW S, IsFiniteSet(S)
    PROVE  SetToSeq(S) \in Seq(S) /\ ToSet(SetToSeq(S)) = S /\ IsInjective(SetToSeq(S))
<1> DEFINE n == Cardinality(S)
<1>1. n \in Nat /\ ExistsBijection(1..n, S)
  BY FS_CardinalityType
<1>2. \E f \in [1..n -> S] : IsInjective(f)
  BY <1>1 DEF ExistsBijection, Bijection, Injection
<1>3. SetToSeq(S) \in [1..n -> S] /\ IsInjective(SetToSeq(S))
  BY <1>2 DEF SetToSeq
<1>4. SetToSeq(S) \in Injection(1..n, S)
  BY <1>3 DEF Injection
<1>5. IsFiniteSet(1..n) /\ Cardinality(1..n) = n
  BY <1>1, FS_Interval
<1>6. SetToSeq(S) \in Surjection(1..n, S)
  BY <1>4, <1>5, FS_Injection
<1>7. SetToSeq(S) \in Seq(S)
  BY <1>1, <1>3, SeqDef
<1> HIDE DEF n
<1> QED BY <1>3, <1>6, <1>7 DEF Surjection, ToSet

-----------------------------------------------------------------------------
(* What is sent, taken and left unread. *)

LEMMA MessagesTyped ==
    /\ \A z \in Servers : SERVERof(z) \in Msg /\ SQUITof(z) \in Msg
                        /\ ~About(SERVERof(z)) /\ ~About(SQUITof(z))
    /\ \A u \in Users : QUITof(u) \in Msg /\ RENAMEof(u) \in Msg /\ ~About(RENAMEof(u))
    /\ \A u \in Users, r \in 0..2 : NICKof(u, r) \in Msg
BY DEF SERVERof, SQUITof, QUITof, RENAMEof, NICKof, Msg, About

LEMMA SentEffect ==
    ASSUME NEW q \in Queues, NEW x \in Servers, NEW S, NEW ms \in Seq(Msg)
    PROVE  /\ Sent(q, x, S, ms) \in Queues
           /\ \A a, b \in Servers :
                 Sent(q, x, S, ms)[a][b] =
                     IF a = x /\ b \in S /\ x \in open[b] THEN q[a][b] \o ms ELSE q[a][b]
<1>1. \A b \in Servers : q[x][b] \in Seq(Msg) /\ q[x][b] \o ms \in Seq(Msg)
  BY ToSetConcat DEF Queues
<1>2. \A a, b \in Servers :
        Sent(q, x, S, ms)[a][b] =
            IF a = x /\ b \in S /\ x \in open[b] THEN q[a][b] \o ms ELSE q[a][b]
  BY DEF Sent, Queues
<1>3. Sent(q, x, S, ms) \in Queues
  BY <1>1 DEF Sent, Queues
<1> QED BY <1>2, <1>3

LEMMA TakenEffect ==
    ASSUME queue \in Queues, NEW x \in Servers, NEW y \in Servers, queue[y][x] # <<>>
    PROVE  /\ Taken(x, y) \in Queues
           /\ \A a, b \in Servers :
                 Taken(x, y)[a][b] = IF a = y /\ b = x THEN Tail(queue[y][x]) ELSE queue[a][b]
<1>1. Tail(queue[y][x]) \in Seq(Msg)
  BY ToSetTail DEF Queues
<1> QED BY <1>1 DEF Taken, Queues

LEMMA UnreadEffect ==
    ASSUME NEW q \in Queues, NEW x \in Servers, NEW S
    PROVE  /\ Unread(q, x, S) \in Queues
           /\ \A a, b \in Servers :
                 Unread(q, x, S)[a][b] = IF a \in S /\ b = x THEN <<>> ELSE q[a][b]
<1>1. <<>> \in Seq(Msg)
  OBVIOUS
<1> QED BY <1>1 DEF Unread, Queues

\* x sends ms to some of its links.
LEMMA SentFits ==
    ASSUME NEW q \in Queues, Fits(q, parent), ServersFit(open, srv), open \in [Servers -> SUBSET Servers],
           NEW x \in Servers, NEW S, NEW ms \in Seq(Msg),
           \A b \in Servers, m \in ToSet(ms) :
               b \in S /\ x \in open[b] /\ About(m) => Toward(parent, b, x, Home[m.who])
    PROVE  Fits(Sent(q, x, S, ms), parent)
<1> DEFINE r == Sent(q, x, S, ms)
<1> SUFFICES ASSUME NEW b \in Servers, NEW a \in Servers
             PROVE  /\ r[a][b] # <<>> => Edge(parent, b, a)
                    /\ \A m \in ToSet(r[a][b]) : About(m) => Toward(parent, b, a, Home[m.who])
  BY DEF Fits
<1>0. r[a][b] = IF a = x /\ b \in S /\ x \in open[b] THEN q[a][b] \o ms ELSE q[a][b]
  BY SentEffect
<1>1. CASE a = x /\ b \in S /\ x \in open[b]
  <2>1. r[a][b] = q[a][b] \o ms
    <3> HIDE DEF r
    <3> QED BY <1>0, <1>1
  <2> q[a][b] \in Seq(Msg)
    BY DEF Queues
  <2>2. ToSet(r[a][b]) = ToSet(q[a][b]) \cup ToSet(ms)
    BY <2>1, ToSetConcat
  <2>3. Edge(parent, b, a)
    BY <1>1 DEF ServersFit
  <2> HIDE DEF r
  <2> QED BY <1>1, <2>2, <2>3 DEF Fits
<1>2. CASE ~(a = x /\ b \in S /\ x \in open[b])
  <2>1. r[a][b] = q[a][b]
    BY <1>0, <1>2
  <2> HIDE DEF r
  <2> QED BY <2>1 DEF Fits
<1> QED BY <1>1, <1>2

LEMMA TakenFits ==
    ASSUME TypeOK, Fits(queue, parent), NEW x \in Servers, NEW y \in Servers, queue[y][x] # <<>>
    PROVE  Taken(x, y) \in Queues /\ Fits(Taken(x, y), parent)
<1>1. queue \in Queues
  BY DEF TypeOK, Queues
<1>2. queue[y][x] \in Seq(Msg)
  BY <1>1 DEF Queues
<1>3. /\ Taken(x, y) \in Queues
      /\ \A a, b \in Servers :
            Taken(x, y)[a][b] = IF a = y /\ b = x THEN Tail(queue[y][x]) ELSE queue[a][b]
  BY <1>1, TakenEffect
<1>4. ToSet(Tail(queue[y][x])) \subseteq ToSet(queue[y][x])
  BY <1>2, ToSetTail
<1> QED BY <1>3, <1>4 DEF Fits

LEMMA UnreadFits ==
    ASSUME NEW q \in Queues, Fits(q, parent), NEW x \in Servers, NEW S
    PROVE  Unread(q, x, S) \in Queues /\ Fits(Unread(q, x, S), parent)
<1>1. ToSet(<<>>) = {}
  BY DEF ToSet
<1> QED BY <1>1, UnreadEffect DEF Fits

\* Who is sent something by a registered link does not start with it.
LEMMA SentFresh ==
    ASSUME NEW q \in Queues, Fresh(q, open, srv), open \in [Servers -> SUBSET Servers],
           NEW x \in Servers, NEW S, S \subseteq Direct(x), NEW ms \in Seq(Msg)
    PROVE  Fresh(Sent(q, x, S, ms), open, srv)
<1> DEFINE r == Sent(q, x, S, ms)
<1> SUFFICES ASSUME NEW b \in Servers, NEW a \in open[b], srv[b][a] # a, b \notin heirs[a]
             PROVE  /\ r[a][b] # <<>> => Head(r[a][b]) = SERVERof(a)
                    /\ r[a][b] = <<>> => parent[b] = a /\ srv[a][b] # b
  BY DEF Fresh
<1>0. a \in Servers /\ q[a][b] \in Seq(Msg)
  BY DEF Queues
<1>1. r[a][b] = IF a = x /\ b \in S /\ x \in open[b] THEN q[a][b] \o ms ELSE q[a][b]
  BY <1>0, SentEffect
<1> HIDE DEF r
<1>2. CASE q[a][b] # <<>>
  BY <1>0, <1>1, <1>2, HeadConcat DEF Fresh
<1>3. CASE q[a][b] = <<>>
  <2>1. parent[b] = a /\ srv[a][b] # b
    BY <1>0, <1>3 DEF Fresh
  <2>2. ~(a = x /\ b \in S)
    BY <2>1 DEF Direct
  <2> QED BY <1>1, <1>3, <2>1, <2>2
<1> QED BY <1>2, <1>3

\* What is taken from a registered link.
LEMMA TakenFresh ==
    ASSUME TypeOK, Fresh(queue, open, srv), NEW x \in Servers, NEW y \in Servers, NEW t, Receives(x, y, t)
    PROVE  srv[x][y] = y /\ Fresh(Taken(x, y), open, srv)
<1>1. queue \in Queues /\ queue[y][x] # <<>> /\ y \in open[x] /\ Head(queue[y][x]).type = t
      /\ open \in [Servers -> SUBSET Servers]
  BY DEF TypeOK, Queues, Receives, Arrives
<1>2. srv[x][y] = y
  BY DEF Receives
<1>3. \A a, b \in Servers : Taken(x, y)[a][b] = IF a = y /\ b = x THEN Tail(queue[y][x]) ELSE queue[a][b]
  BY <1>1, TakenEffect
<1> QED BY <1>1, <1>2, <1>3 DEF Fresh

\* Links are closed and forgotten; r is q but for them.
LEMMA ClosedFresh ==
    ASSUME NEW q, Fresh(q, open, srv), open' \in [Servers -> SUBSET Servers],
           \A b \in Servers : open'[b] \subseteq open[b],
           \A a, b \in Servers : a \in open'[b] /\ srv[b][a] = a => srv'[b][a] = a,
           \A a, b \in Servers : srv'[b][a] = a => srv[b][a] = a,
           \A a, b \in Servers : a \in open'[b] => queue'[a][b] = q[a][b]
    PROVE  Fresh(queue', open', srv')
BY DEF Fresh

-----------------------------------------------------------------------------
(* What handlers send. *)

\* The introduction says what is known.
LEMMA InfoIs ==
    ASSUME TypeOK, NEW x \in Servers, NEW y \in Servers
    PROVE  /\ ServersInfo(x, y) \in Seq(Msg) /\ \A m \in ToSet(ServersInfo(x, y)) : ~About(m)
           /\ ClientsInfo(x) \in Seq(Msg) /\ IsInjective(ClientsInfo(x))
           /\ ToSet(ClientsInfo(x)) = {NICKof(u, Reads(x, u)) : u \in {v \in Users : usr[x][v] # None}}
<1>1. /\ ServersInfo(x, y) \in Seq(Msg)
      /\ \A m \in ToSet(ServersInfo(x, y)) : ~About(m)
  <2> DEFINE S == {w \in Servers \ {y} : srv[x][w] # None}
             T == {SERVERof(z) : z \in S}
             f == [z \in S |-> SERVERof(z)]
  <2>1. IsFiniteSet(S)
    BY FiniteAssumption, FS_Subset
  <2>2. f \in Surjection(S, T)
    BY DEF Surjection
  <2>3. IsFiniteSet(T)
    <3> HIDE DEF S, T, f
    <3> QED BY <2>1, <2>2, FS_Surjection
  <2>4. SetToSeq(T) \in Seq(T) /\ ToSet(SetToSeq(T)) = T /\ IsInjective(SetToSeq(T))
    <3> HIDE DEF T
    <3> QED BY <2>3, SetToSeqIs
  <2>5. T \subseteq Msg /\ \A m \in T : ~About(m)
    BY MessagesTyped
  <2>6. SetToSeq(T) \in Seq(Msg)
    <3> HIDE DEF T
    <3> QED BY <2>4, <2>5, SeqMonotonic
  <2>7. ServersInfo(x, y) = SetToSeq(T)
    BY DEF ServersInfo
  <2> HIDE DEF T
  <2> QED BY <2>4, <2>5, <2>6, <2>7
<1>2. /\ ClientsInfo(x) \in Seq(Msg) /\ IsInjective(ClientsInfo(x))
      /\ ToSet(ClientsInfo(x)) = {NICKof(u, Reads(x, u)) : u \in {v \in Users : usr[x][v] # None}}
  <2> DEFINE S == {v \in Users : usr[x][v] # None}
             T == {NICKof(u, Reads(x, u)) : u \in S}
             f == [u \in S |-> NICKof(u, Reads(x, u))]
  <2>1. IsFiniteSet(S)
    BY FiniteAssumption, FS_Subset
  <2>2. f \in Surjection(S, T)
    BY DEF Surjection
  <2>3. IsFiniteSet(T)
    <3> HIDE DEF S, T, f
    <3> QED BY <2>1, <2>2, FS_Surjection
  <2>4. SetToSeq(T) \in Seq(T) /\ ToSet(SetToSeq(T)) = T /\ IsInjective(SetToSeq(T))
    <3> HIDE DEF T
    <3> QED BY <2>3, SetToSeqIs
  <2>5. T \subseteq Msg
    <3>1. \A u \in Users : Reads(x, u) \in 0..2
      BY DEF Reads
    <3> QED BY <3>1, MessagesTyped
  <2>6. SetToSeq(T) \in Seq(Msg)
    <3> HIDE DEF T
    <3> QED BY <2>4, <2>5, SeqMonotonic
  <2>7. ClientsInfo(x) = SetToSeq(T)
    BY DEF ClientsInfo
  <2> QED BY <2>4, <2>6, <2>7
<1> QED BY <1>1, <1>2

\* A message from y that x has handled, and sent on to others.
LEMMA Relayed ==
    ASSUME IInv, NEW x \in Servers, NEW y \in Servers, NEW t, Receives(x, y, t),
           NEW S, S \subseteq Others(x, y), NEW ms \in Seq(Msg),
           \A m \in ToSet(ms) : About(m) => Toward(parent, x, y, Home[m.who])
    PROVE  LET q == Sent(Taken(x, y), x, S, ms) IN
           q \in Queues /\ Fits(q, parent) /\ Fresh(q, open, srv)
<1>1. queue[y][x] # <<>> /\ open \in [Servers -> SUBSET Servers] /\ parent \in Forests
  BY DEF Receives, Arrives, IInv, TypeOK, Forests
<1>2. Taken(x, y) \in Queues /\ Fits(Taken(x, y), parent)
  BY <1>1, TakenFits DEF IInv
<1>3. Fresh(Taken(x, y), open, srv)
  BY TakenFresh DEF IInv
<1>4. ASSUME NEW b \in Servers, NEW m \in ToSet(ms), b \in S, x \in open[b], About(m)
      PROVE  Toward(parent, b, x, Home[m.who])
  <2>1. Edge(parent, x, b) /\ b # y
    BY <1>4 DEF IInv, ServersFit, Edge, Others
  <2>2. Home[m.who] \in Servers
    <3>1. m \in Msg
      BY LenProperties DEF ToSet
    <3> QED BY <1>4, <3>1, HomeAssumption DEF Msg, About
  <2> QED BY <1>1, <1>4, <2>1, <2>2, TowardPassedOn DEF IInv
<1>5. Fits(Sent(Taken(x, y), x, S, ms), parent)
  BY <1>1, <1>2, <1>4, SentFits DEF IInv
<1>6. Fresh(Sent(Taken(x, y), x, S, ms), open, srv)
  BY <1>1, <1>2, <1>3, SentFresh DEF Others
<1>7. Sent(Taken(x, y), x, S, ms) \in Queues
  BY <1>2, SentEffect
<1> QED BY <1>5, <1>6, <1>7

\* What x tells of its own clients, and of servers.
LEMMA Announced ==
    ASSUME IInv, NEW x \in Servers, NEW S, S \subseteq Direct(x), NEW ms \in Seq(Msg),
           \A m \in ToSet(ms) : About(m) => Home[m.who] = x
    PROVE  LET q == Sent(queue, x, S, ms) IN
           q \in Queues /\ Fits(q, parent) /\ Fresh(q, open, srv)
<1>1. open \in [Servers -> SUBSET Servers] /\ queue \in Queues /\ parent \in Forests
  BY DEF IInv, TypeOK, Queues, Forests
<1>2. ASSUME NEW b \in Servers, NEW m \in ToSet(ms), b \in S, x \in open[b], About(m)
      PROVE  Toward(parent, b, x, Home[m.who])
  <2>1. Edge(parent, x, b)
    BY <1>2 DEF IInv, ServersFit, Edge
  <2> QED BY <1>1, <1>2, <2>1, TowardHome DEF IInv
<1>3. Fits(Sent(queue, x, S, ms), parent)
  BY <1>1, <1>2, SentFits DEF IInv
<1>4. Fresh(Sent(queue, x, S, ms), open, srv)
  BY <1>1, SentFresh DEF IInv
<1>5. Sent(queue, x, S, ms) \in Queues
  BY <1>1, SentEffect
<1> QED BY <1>3, <1>4, <1>5

\* The head of a link, when there is one.
LEMMA HeadIs ==
    ASSUME IInv, NEW x \in Servers, NEW y \in Servers, NEW t, Receives(x, y, t)
    PROVE  LET m == Head(queue[y][x]) IN
           /\ m \in Msg /\ m.type = t
           /\ t \in {"SERVER", "SQUIT"} => m.who \in Servers
           /\ t \in {"NICK", "QUIT", "RENAME"} => m.who \in Users
           /\ t = "NICK" => m.reads \in 0..2
           /\ About(m) => Toward(parent, x, y, Home[m.who])
<1>1. queue[y][x] \in Seq(Msg) /\ queue[y][x] # <<>> /\ Head(queue[y][x]).type = t
  BY DEF IInv, TypeOK, Receives, Arrives
<1>2. Head(queue[y][x]) \in Msg /\ Head(queue[y][x]) \in ToSet(queue[y][x])
  BY <1>1, ToSetTail
<1>3. About(Head(queue[y][x])) => Toward(parent, x, y, Home[Head(queue[y][x]).who])
  BY <1>2 DEF IInv, Fits
<1> QED BY <1>1, <1>2, <1>3 DEF Msg

-----------------------------------------------------------------------------
(* One lemma per kind of step: the parts of the invariant that it touches. *)

\* Steps that send, and change the users of one server.
LEMMA UsersStep ==
    ASSUME IInv, queue' \in Queues, Fits(queue', parent), Fresh(queue', open, srv),
           UNCHANGED <<parent, heirs, open, srv>>,
           status' \in [Servers -> {"off", "running", "ended", "undefined"}],
           \A x \in Servers : status'[x] = "off" => status[x] = "off",
           usr' \in [Servers -> [Users -> Servers \cup Local \cup {None}]],
           UsersFit(usr', parent), LinksRegistered(usr', open, srv)
    PROVE  IInv'
<1>1. TypeOK'
  BY DEF IInv, TypeOK, Queues
<1>2. Acyclic(parent)' /\ ServersFit(open, srv)' /\ Started'
  <2>1. parent' = parent /\ open' = open /\ srv' = srv
    OBVIOUS
  <2>2. Acyclic(parent')
    BY <2>1 DEF IInv
  <2>3. ServersFit(open, srv)'
    BY <2>1 DEF IInv, ServersFit, Edge
  <2>4. \A x \in Servers : status[x] # "off" => status'[x] # "off"
    OBVIOUS
  <2>5. \A x \in Servers : parent[x] # None => parent[x] \in Servers
    BY DEF IInv, TypeOK
  <2>6. Started'
    BY <2>1, <2>4, <2>5 DEF IInv, Started
  <2> QED BY <2>2, <2>3, <2>6
<1>3. Fits(queue, parent)' /\ UsersFit(usr, parent)'
  <2>1. parent' = parent
    OBVIOUS
  <2>2. Fits(queue', parent') /\ UsersFit(usr', parent')
    BY <2>1
  <2> QED BY <2>2
<1>4. Fresh(queue, open, srv)' /\ LinksRegistered(usr, open, srv)'
  BY DEF Fresh, LinksRegistered
<1> QED BY <1>1, <1>2, <1>3, <1>4 DEF IInv

LEMMA LocalNickKeeps ==
    ASSUME IInv, NEW u \in Users, LocalNick(u)
    PROVE  IInv'
<1>1. Home[u] \in Servers
  BY HomeAssumption
<1>2. usr' = [usr EXCEPT ![Home[u]][u] = "half"] /\ UNCHANGED <<status, parent, heirs, open, srv, queue>>
  BY DEF LocalNick
<1>3. usr' \in [Servers -> [Users -> Servers \cup Local \cup {None}]]
  BY <1>1, <1>2 DEF IInv, TypeOK, Local
<1>4. UsersFit(usr', parent)
  BY <1>1, <1>2, NoneAssumption DEF IInv, TypeOK, UsersFit, Local
<1>5. LinksRegistered(usr', open, srv)
  BY <1>1, <1>2, NoneAssumption DEF IInv, TypeOK, LinksRegistered, Local
<1> QED BY <1>2, <1>3, <1>4, <1>5, UsersStep DEF IInv, TypeOK, Queues

\* USER, QUIT and NICK of a client: v is what it is now, m what is sent.
LEMMA ClientStep ==
    ASSUME IInv, NEW u \in Users, NEW v \in Local \cup {None}, NEW m \in Msg, m.who = u \/ ~About(m),
           usr' = [usr EXCEPT ![Home[u]][u] = v],
           queue' = Sent(queue, Home[u], Direct(Home[u]), <<m>>),
           UNCHANGED <<status, parent, heirs, open, srv>>
    PROVE  IInv'
<1>1. Home[u] \in Servers
  BY HomeAssumption
<1>2. usr' \in [Servers -> [Users -> Servers \cup Local \cup {None}]]
  BY <1>1 DEF IInv, TypeOK
<1>3. UsersFit(usr', parent)
  BY <1>1, <1>2, NoneAssumption DEF IInv, TypeOK, UsersFit
<1>4. LinksRegistered(usr', open, srv)
  BY <1>1, <1>2, NoneAssumption DEF IInv, TypeOK, LinksRegistered
<1>5. <<m>> \in Seq(Msg) /\ ToSet(<<m>>) = {m}
  BY ToSetSmall
<1>6. queue' \in Queues /\ Fits(queue', parent) /\ Fresh(queue', open, srv)
  BY <1>1, <1>5, Announced
<1> QED BY <1>2, <1>3, <1>4, <1>6, UsersStep DEF IInv, TypeOK

LEMMA UserStepKeeps ==
    ASSUME IInv, NEW u \in Users, UserStep(u)
    PROVE  IInv'
<1>1. CASE LocalUser(u)
  <2>1. NICKof(u, IF Words[u] > 1 THEN 2 ELSE 1) \in Msg
    BY MessagesTyped
  <2>2. NICKof(u, IF Words[u] > 1 THEN 2 ELSE 1).who = u
    BY DEF NICKof
  <2>3. "full" \in Local \cup {None}
    BY DEF Local
  <2> QED BY <1>1, <2>1, <2>2, <2>3, ClientStep DEF LocalUser
<1>2. CASE LocalQuit(u)
  <2>1. QUITof(u) \in Msg /\ QUITof(u).who = u
    BY MessagesTyped DEF QUITof
  <2> QED BY <1>2, <2>1, ClientStep DEF LocalQuit
<1>3. CASE LocalRename(u)
  <2>1. RENAMEof(u) \in Msg /\ RENAMEof(u).who = u /\ "renamed" \in Local
    BY MessagesTyped DEF RENAMEof, Local
  <2> QED BY <1>3, <2>1, ClientStep DEF LocalRename
<1> QED BY <1>1, <1>2, <1>3, LocalNickKeeps DEF UserStep

\* A NICK is new to the reader, or known by the link it has come by.
LEMMA ReceiveNickKeeps ==
    ASSUME IInv, NEW x \in Servers, NEW y \in Servers, ReceiveNick(x, y)
    PROVE  IInv'
<1> DEFINE m == Head(queue[y][x])
<1>1. Receives(x, y, "NICK") /\ y \in open[x] /\ UNCHANGED <<parent, heirs, open, srv>>
  BY DEF ReceiveNick, Receives, Arrives
<1>2. m \in Msg /\ m.type = "NICK" /\ m.who \in Users /\ m.reads \in 0..2
      /\ Toward(parent, x, y, Home[m.who])
  BY <1>1, HeadIs DEF About
<1>3. srv[x][y] = y /\ Fresh(Taken(x, y), open, srv)
  BY <1>1, TakenFresh DEF IInv
<1>4. CASE m.reads > 0 /\ queue' = Sent(Taken(x, y), x, Others(x, y), <<NICKof(m.who, m.reads - 1)>>)
           /\ usr' = (IF usr[x][m.who] = None THEN [usr EXCEPT ![x][m.who] = y] ELSE usr)
           /\ UNCHANGED status
  <2>1. NICKof(m.who, m.reads - 1) \in Msg /\ NICKof(m.who, m.reads - 1).who = m.who
    BY <1>2, <1>4 DEF NICKof, Msg
  <2>2. <<NICKof(m.who, m.reads - 1)>> \in Seq(Msg)
        /\ ToSet(<<NICKof(m.who, m.reads - 1)>>) = {NICKof(m.who, m.reads - 1)}
    BY <2>1, ToSetSmall
  <2>3. queue' \in Queues /\ Fits(queue', parent) /\ Fresh(queue', open, srv)
    BY <1>1, <1>2, <1>4, <2>1, <2>2, Relayed
  <2> HIDE DEF m
  <2>4. usr' \in [Servers -> [Users -> Servers \cup Local \cup {None}]]
    BY <1>2, <1>4 DEF IInv, TypeOK
  <2>5. UsersFit(usr', parent)
    BY <1>2, <1>4, NoneAssumption DEF IInv, TypeOK, UsersFit
  <2>6. LinksRegistered(usr', open, srv)
    BY <1>2, <1>3, <1>4 DEF IInv, TypeOK, LinksRegistered
  <2> QED BY <1>1, <1>4, <2>3, <2>4, <2>5, <2>6, UsersStep DEF IInv, TypeOK
<1>5. CASE queue' = Taken(x, y) /\ ReadsBeyond(x) /\ UNCHANGED usr
  <2>1. queue' \in Queues /\ Fits(queue', parent)
    BY <1>1, <1>5, TakenFits DEF IInv, Receives, Arrives
  <2>2. status' \in [Servers -> {"off", "running", "ended", "undefined"}]
        /\ \A z \in Servers : status'[z] = "off" => status[z] = "off"
    BY <1>5 DEF ReadsBeyond, IInv, TypeOK
  <2> QED BY <1>1, <1>3, <1>5, <2>1, <2>2, UsersStep DEF IInv, TypeOK
<1> QED BY <1>4, <1>5 DEF ReceiveNick

LEMMA ReceiveRenameKeeps ==
    ASSUME IInv, NEW x \in Servers, NEW y \in Servers, ReceiveRename(x, y)
    PROVE  IInv'
<1>1. Receives(x, y, "RENAME") /\ queue' = Taken(x, y) /\ ReadsBeyond(x)
      /\ UNCHANGED <<parent, heirs, open, srv, usr>>
  BY DEF ReceiveRename
<1>2. queue' \in Queues /\ Fits(queue', parent)
  BY <1>1, TakenFits DEF IInv, Receives, Arrives
<1>3. status' \in [Servers -> {"off", "running", "ended", "undefined"}]
      /\ \A z \in Servers : status'[z] = "off" => status[z] = "off"
  BY <1>1 DEF ReadsBeyond, IInv, TypeOK
<1>4. Fresh(queue', open, srv)
  BY <1>1, TakenFresh DEF IInv
<1> QED BY <1>1, <1>2, <1>3, <1>4, UsersStep DEF IInv, TypeOK

LEMMA ReceiveQuitKeeps ==
    ASSUME IInv, NEW x \in Servers, NEW y \in Servers, ReceiveQuit(x, y)
    PROVE  IInv'
<1> DEFINE u == Head(queue[y][x]).who
           S == IF usr[x][u] = None THEN {} ELSE Others(x, y)
<1>1. Receives(x, y, "QUIT") /\ queue' = Sent(Taken(x, y), x, S, <<QUITof(u)>>)
      /\ usr' = [usr EXCEPT ![x][u] = None] /\ UNCHANGED <<status, parent, heirs, open, srv>>
  BY DEF ReceiveQuit
<1>2. u \in Users /\ Toward(parent, x, y, Home[u])
  BY <1>1, HeadIs DEF About
<1>3. QUITof(u) \in Msg /\ QUITof(u).who = u
  BY <1>2, MessagesTyped DEF QUITof
<1>4. <<QUITof(u)>> \in Seq(Msg) /\ ToSet(<<QUITof(u)>>) = {QUITof(u)}
  BY <1>3, ToSetSmall
<1>5. queue' \in Queues /\ Fits(queue', parent) /\ Fresh(queue', open, srv)
  BY <1>1, <1>2, <1>3, <1>4, Relayed
<1> HIDE DEF u
<1>6. usr' \in [Servers -> [Users -> Servers \cup Local \cup {None}]]
  BY <1>1, <1>2 DEF IInv, TypeOK
<1>7. UsersFit(usr', parent)
  BY <1>1, <1>2, NoneAssumption DEF IInv, TypeOK, UsersFit
<1>8. open \in [Servers -> SUBSET Servers] /\ usr \in [Servers -> [Users -> Servers \cup Local \cup {None}]]
  BY DEF IInv, TypeOK
<1>9. \A a \in Servers, v \in Users : usr'[a][v] = usr[a][v] \/ usr'[a][v] = None
  BY <1>1, <1>2, <1>8
<1>10. LinksRegistered(usr', open, srv)
  BY <1>8, <1>9, NoneAssumption DEF IInv, LinksRegistered
<1> QED BY <1>1, <1>5, <1>6, <1>7, <1>10, UsersStep DEF IInv, TypeOK

\* Steps that send, and change what is known of servers.
LEMMA ServersStep ==
    ASSUME IInv, UNCHANGED <<parent, heirs, usr>>, queue' \in Queues, Fits(queue', parent),
           open' \in [Servers -> SUBSET Servers],
           srv' \in [Servers -> [Servers -> Servers \cup {None}]],
           status' \in [Servers -> {"off", "running", "ended", "undefined"}],
           \A x \in Servers : status'[x] = "off" => status[x] = "off",
           ServersFit(open', srv'), Fresh(queue', open', srv'), LinksRegistered(usr, open', srv')
    PROVE  IInv'
<1>1. TypeOK'
  BY DEF IInv, TypeOK, Queues
<1>2. parent' = parent /\ usr' = usr
  OBVIOUS
<1>3. Acyclic(parent') /\ Fits(queue', parent') /\ UsersFit(usr', parent')
  BY <1>2 DEF IInv
<1>4. ServersFit(open, srv)'
  BY DEF ServersFit, Edge
<1>5. Started' /\ Fresh(queue, open, srv)' /\ LinksRegistered(usr, open, srv)'
  BY DEF IInv, TypeOK, Started, Fresh, LinksRegistered
<1> QED BY <1>1, <1>3, <1>4, <1>5 DEF IInv

\* What is left when a link is closed and forgotten.
LEMMA LinkRemovedKeeps ==
    ASSUME IInv, NEW x \in Servers, NEW y \in Servers, LinkRemoved(x, y)
    PROVE  /\ open' \in [Servers -> SUBSET Servers]
           /\ srv' \in [Servers -> [Servers -> Servers \cup {None}]]
           /\ ServersFit(open', srv') /\ LinksRegistered(usr, open', srv')
           /\ \A b \in Servers : open'[b] \subseteq open[b]
           /\ \A a, b \in Servers : a \in open'[b] /\ srv[b][a] = a => srv'[b][a] = a
           /\ \A a, b \in Servers : srv'[b][a] = a => srv[b][a] = a
           /\ y \notin open'[x]
<1>0. open \in [Servers -> SUBSET Servers] /\ srv \in [Servers -> [Servers -> Servers \cup {None}]]
  BY DEF IInv, TypeOK
<1>1. /\ open' \in [Servers -> SUBSET Servers]
      /\ \A b \in Servers : open'[b] = IF b = x THEN open[b] \ {y} ELSE open[b]
  BY <1>0 DEF LinkRemoved
<1>2. /\ srv' \in [Servers -> [Servers -> Servers \cup {None}]]
      /\ \A b, a \in Servers : srv'[b][a] = IF b = x /\ srv[b][a] = y THEN None ELSE srv[b][a]
  BY <1>0 DEF LinkRemoved
<1>3. ServersFit(open', srv')
  BY <1>0, <1>1, <1>2, NoneAssumption DEF IInv, ServersFit
<1>4. LinksRegistered(usr, open', srv')
  BY <1>1, <1>2 DEF IInv, LinksRegistered
<1> QED BY <1>1, <1>2, <1>3, <1>4, NoneAssumption

LEMMA ServerRemovedKeeps ==
    ASSUME IInv, NEW x \in Servers, NEW z \in Servers, ServerRemoved(x, z), srv[x][z] # None
    PROVE  /\ open' \in [Servers -> SUBSET Servers]
           /\ srv' \in [Servers -> [Servers -> Servers \cup {None}]]
           /\ ServersFit(open', srv') /\ LinksRegistered(usr, open', srv')
           /\ \A b \in Servers : open'[b] \subseteq open[b]
           /\ \A a, b \in Servers : a \in open'[b] /\ srv[b][a] = a => srv'[b][a] = a
           /\ \A a, b \in Servers : srv'[b][a] = a => srv[b][a] = a
           /\ srv[x][z] = z => z \notin open'[x]
<1>1. CASE srv[x][z] = z
  BY <1>1, LinkRemovedKeeps DEF ServerRemoved
<1>2. CASE srv[x][z] # z
  <2>0. open \in [Servers -> SUBSET Servers] /\ srv \in [Servers -> [Servers -> Servers \cup {None}]]
    BY DEF IInv, TypeOK
  <2>1. open' = open /\ srv' = [srv EXCEPT ![x][z] = None]
    BY <1>2 DEF ServerRemoved
  <2>2. /\ srv' \in [Servers -> [Servers -> Servers \cup {None}]]
        /\ \A b, a \in Servers : srv'[b][a] = IF b = x /\ a = z THEN None ELSE srv[b][a]
    BY <2>0, <2>1
  <2>3. ServersFit(open', srv')
    BY <1>2, <2>0, <2>1, <2>2, NoneAssumption DEF IInv, ServersFit
  <2>4. LinksRegistered(usr, open', srv')
    BY <1>2, <2>0, <2>1, <2>2, NoneAssumption DEF IInv, LinksRegistered
  <2> QED BY <1>2, <2>0, <2>1, <2>2, <2>3, <2>4, NoneAssumption
<1> QED BY <1>1, <1>2

LEMMA HangUpKeeps ==
    ASSUME IInv, NEW x \in Servers, NEW y \in Servers, HangUp(x, y)
    PROVE  IInv'
<1> DEFINE S == IF srv[x][y] = y THEN Others(x, y) ELSE {}
           q == Unread(queue, x, {y})
           ms == <<SQUITof(y)>>
<1>1. LinkRemoved(x, y) /\ queue' = Sent(q, x, S, ms) /\ UNCHANGED <<status, parent, heirs, usr>>
  BY DEF HangUp
<1>2. /\ open \in [Servers -> SUBSET Servers] /\ queue \in Queues
      /\ open' \in [Servers -> SUBSET Servers]
      /\ srv' \in [Servers -> [Servers -> Servers \cup {None}]]
      /\ ServersFit(open', srv') /\ LinksRegistered(usr, open', srv')
      /\ \A b \in Servers : open'[b] \subseteq open[b]
      /\ \A a, b \in Servers : a \in open'[b] /\ srv[b][a] = a => srv'[b][a] = a
      /\ \A a, b \in Servers : srv'[b][a] = a => srv[b][a] = a
      /\ y \notin open'[x]
  BY <1>1, LinkRemovedKeeps DEF IInv, TypeOK, Queues
<1>3. ms \in Seq(Msg) /\ \A m \in ToSet(ms) : ~About(m)
  BY ToSetSmall, MessagesTyped
<1>4. /\ q \in Queues /\ Fits(q, parent)
      /\ \A a, b \in Servers : q[a][b] = IF a \in {y} /\ b = x THEN <<>> ELSE queue[a][b]
  BY <1>2, UnreadFits, UnreadEffect DEF IInv
<1>5. S \subseteq Direct(x)
  BY DEF Others
<1> HIDE DEF S, q, ms
<1>6. /\ queue' \in Queues
      /\ \A a, b \in Servers :
            queue'[a][b] = IF a = x /\ b \in S /\ x \in open[b] THEN q[a][b] \o ms ELSE q[a][b]
  BY <1>1, <1>3, <1>4, SentEffect
<1>7. Fits(queue', parent)
  BY <1>1, <1>2, <1>3, <1>4, SentFits DEF IInv
<1> DEFINE r == Sent(queue, x, S, ms)
<1>8. /\ Fresh(r, open, srv)
      /\ \A a, b \in Servers :
            r[a][b] = IF a = x /\ b \in S /\ x \in open[b] THEN queue[a][b] \o ms ELSE queue[a][b]
  BY <1>2, <1>3, <1>5, SentFresh, SentEffect DEF IInv
<1> HIDE DEF r
<1>9. \A a, b \in Servers : a \in open'[b] => queue'[a][b] = r[a][b]
  BY <1>2, <1>4, <1>6, <1>8
<1>10. Fresh(queue', open', srv')
  <2>1. /\ open' \in [Servers -> SUBSET Servers]
        /\ \A b \in Servers : open'[b] \subseteq open[b]
        /\ \A a, b \in Servers : a \in open'[b] /\ srv[b][a] = a => srv'[b][a] = a
        /\ \A a, b \in Servers : srv'[b][a] = a => srv[b][a] = a
    BY <1>2
  <2>2. Fresh(r, open, srv)
    BY <1>8
  <2> QED BY <1>9, <2>1, <2>2, ClosedFresh
<1> QED BY <1>1, <1>2, <1>6, <1>7, <1>10, ServersStep DEF IInv, TypeOK

\* Nobody reads what was sent to x, which ends.
LEMMA EndedKeeps ==
    ASSUME IInv, NEW x \in Servers, Ended(x), NEW q \in Queues, Fits(q, parent), Fresh(q, open, srv),
           queue' = Unread(q, x, Servers), UNCHANGED <<parent, heirs, srv, usr>>
    PROVE  IInv'
<1>0. open \in [Servers -> SUBSET Servers]
  BY DEF IInv, TypeOK
<1>1. /\ open' \in [Servers -> SUBSET Servers]
      /\ \A b \in Servers : open'[b] = IF b = x THEN {} ELSE open[b]
  BY <1>0 DEF Ended
<1>2. /\ status' \in [Servers -> {"off", "running", "ended", "undefined"}]
      /\ \A z \in Servers : status'[z] = "off" => status[z] = "off"
  BY DEF Ended, IInv, TypeOK
<1>3. queue' \in Queues /\ Fits(queue', parent)
  BY UnreadFits
<1>4. \A a, b \in Servers : a \in open'[b] => queue'[a][b] = q[a][b]
  BY <1>1, UnreadEffect
<1>5. Fresh(queue', open', srv')
  BY <1>1, <1>4, ClosedFresh
<1>6. ServersFit(open', srv') /\ LinksRegistered(usr, open', srv')
  BY <1>1 DEF IInv, ServersFit, LinksRegistered
<1>7. srv' \in [Servers -> [Servers -> Servers \cup {None}]]
  BY DEF IInv, TypeOK
<1> QED BY <1>1, <1>2, <1>3, <1>5, <1>6, <1>7, ServersStep

LEMMA CrashKeeps ==
    ASSUME IInv, NEW x \in Servers, Crash(x)
    PROVE  IInv'
<1>1. queue \in Queues
  BY DEF IInv, TypeOK, Queues
<1> QED BY <1>1, EndedKeeps DEF Crash, IInv

LEMMA SquitSelfKeeps ==
    ASSUME IInv, NEW x \in Servers, SquitSelf(x)
    PROVE  IInv'
<1>1. <<SQUITof(x)>> \in Seq(Msg) /\ \A m \in ToSet(<<SQUITof(x)>>) : ~About(m)
  BY ToSetSmall, MessagesTyped
<1> DEFINE q == Sent(queue, x, Direct(x), <<SQUITof(x)>>)
<1>2. q \in Queues /\ Fits(q, parent) /\ Fresh(q, open, srv)
  BY <1>1, Announced
<1>3. Ended(x) /\ queue' = Unread(q, x, Servers) /\ UNCHANGED <<parent, heirs, srv, usr>>
  BY DEF SquitSelf
<1> HIDE DEF q
<1> QED BY <1>2, <1>3, EndedKeeps

LEMMA ReceiveSquitSelfKeeps ==
    ASSUME IInv, NEW x \in Servers, NEW y \in Servers, ReceiveSquitSelf(x, y)
    PROVE  IInv'
<1>1. <<SQUITof(x)>> \in Seq(Msg) /\ \A m \in ToSet(<<SQUITof(x)>>) : ~About(m)
  BY ToSetSmall, MessagesTyped
<1> DEFINE q == Sent(queue, x, Others(x, y), <<SQUITof(x)>>)
<1>2. Ended(x) /\ queue' = Unread(q, x, Servers) /\ UNCHANGED <<parent, heirs, srv, usr>>
  BY DEF ReceiveSquitSelf
<1>3. q \in Queues /\ Fits(q, parent) /\ Fresh(q, open, srv)
  BY <1>1, Announced DEF Others
<1> HIDE DEF q
<1> QED BY <1>2, <1>3, EndedKeeps

\* z is removed at x, and what it had sent if it was linked; the others are told.
LEMMA RemovalKeeps ==
    ASSUME IInv, NEW x \in Servers, NEW z \in Servers, ServerRemoved(x, z), srv[x][z] # None,
           NEW q \in Queues, Fits(q, parent), Fresh(q, open, srv),
           queue' = IF srv[x][z] = z THEN Unread(q, x, {z}) ELSE q,
           UNCHANGED <<status, parent, heirs, usr>>
    PROVE  IInv'
<1>1. /\ open' \in [Servers -> SUBSET Servers]
      /\ srv' \in [Servers -> [Servers -> Servers \cup {None}]]
      /\ ServersFit(open', srv') /\ LinksRegistered(usr, open', srv')
      /\ \A b \in Servers : open'[b] \subseteq open[b]
      /\ \A a, b \in Servers : a \in open'[b] /\ srv[b][a] = a => srv'[b][a] = a
      /\ \A a, b \in Servers : srv'[b][a] = a => srv[b][a] = a
      /\ srv[x][z] = z => z \notin open'[x]
  BY ServerRemovedKeeps
<1>2. queue' \in Queues /\ Fits(queue', parent)
  BY UnreadFits
<1>3. \A a, b \in Servers : a \in open'[b] => queue'[a][b] = q[a][b]
  BY <1>1, UnreadEffect
<1>4. Fresh(queue', open', srv')
  <2>1. /\ open' \in [Servers -> SUBSET Servers]
        /\ \A b \in Servers : open'[b] \subseteq open[b]
        /\ \A a, b \in Servers : a \in open'[b] /\ srv[b][a] = a => srv'[b][a] = a
        /\ \A a, b \in Servers : srv'[b][a] = a => srv[b][a] = a
    BY <1>1
  <2> QED BY <1>3, <2>1, ClosedFresh
<1> QED BY <1>1, <1>2, <1>4, ServersStep DEF IInv, TypeOK

LEMMA SQUITKeeps ==
    ASSUME IInv, NEW x \in Servers, NEW z \in Servers, SQUIT(x, z)
    PROVE  IInv'
<1>1. <<SQUITof(z)>> \in Seq(Msg) /\ \A m \in ToSet(<<SQUITof(z)>>) : ~About(m)
  BY ToSetSmall, MessagesTyped
<1>2. srv[x][z] # None /\ srv[x][z] \in Servers /\ {srv[x][z]} \subseteq Direct(x)
  BY DEF SQUIT, IInv, TypeOK, ServersFit, Direct
<1> DEFINE q == Sent(queue, x, {srv[x][z]}, <<SQUITof(z)>>)
<1>3. q \in Queues /\ Fits(q, parent) /\ Fresh(q, open, srv)
  BY <1>1, <1>2, Announced
<1>4. /\ ServerRemoved(x, z) /\ queue' = IF srv[x][z] = z THEN Unread(q, x, {z}) ELSE q
      /\ UNCHANGED <<status, parent, heirs, usr>>
  BY DEF SQUIT
<1> HIDE DEF q
<1> QED BY <1>2, <1>3, <1>4, RemovalKeeps

LEMMA ReceiveSquitKeeps ==
    ASSUME IInv, NEW x \in Servers, NEW y \in Servers, ReceiveSquit(x, y)
    PROVE  IInv'
<1> DEFINE z == Head(queue[y][x]).who
           q == Sent(Taken(x, y), x, Others(x, y), <<SQUITof(z)>>)
<1>1. Receives(x, y, "SQUIT") /\ UNCHANGED <<status, parent, heirs, usr>> /\ z \in Servers
  BY HeadIs DEF ReceiveSquit
<1>2. CASE srv[x][z] = None
  <2>1. queue' = Taken(x, y) /\ UNCHANGED <<srv, open>>
    BY <1>2 DEF ReceiveSquit
  <2>2. queue' \in Queues /\ Fits(queue', parent) /\ Fresh(queue', open, srv)
    BY <1>1, <2>1, TakenFits, TakenFresh DEF IInv, Receives, Arrives
  <2> QED BY <1>1, <2>1, <2>2, UsersStep DEF IInv, TypeOK
<1>3. CASE srv[x][z] # None
  <2>1. /\ ServerRemoved(x, z)
        /\ queue' = IF srv[x][z] = z THEN Unread(q, x, {z}) ELSE q
    BY <1>3 DEF ReceiveSquit
  <2>2. <<SQUITof(z)>> \in Seq(Msg) /\ \A m \in ToSet(<<SQUITof(z)>>) : ~About(m)
    BY <1>1, ToSetSmall, MessagesTyped
  <2>3. q \in Queues /\ Fits(q, parent) /\ Fresh(q, open, srv)
    BY <1>1, <2>2, Relayed
  <2> HIDE DEF q, z
  <2> QED BY <1>1, <1>3, <2>1, <2>3, RemovalKeeps
<1> QED BY <1>2, <1>3

LEMMA ReceiveServerKeeps ==
    ASSUME IInv, NEW x \in Servers, NEW y \in Servers, ReceiveServer(x, y)
    PROVE  IInv'
<1> DEFINE z == Head(queue[y][x]).who
<1>1. /\ Receives(x, y, "SERVER") /\ srv[x][y] = y /\ z \in Servers
      /\ queue' = Sent(Taken(x, y), x, Others(x, y), <<SERVERof(z)>>)
      /\ srv' = IF srv[x][z] = None THEN [srv EXCEPT ![x][z] = y] ELSE srv
      /\ UNCHANGED <<status, parent, heirs, open, usr>>
  BY HeadIs DEF ReceiveServer, Receives
<1> HIDE DEF z
<1>2. <<SERVERof(z)>> \in Seq(Msg) /\ \A m \in ToSet(<<SERVERof(z)>>) : ~About(m)
  BY <1>1, ToSetSmall, MessagesTyped
<1>3. queue' \in Queues /\ Fits(queue', parent) /\ Fresh(queue', open, srv)
  BY <1>1, <1>2, Relayed
<1>4. srv \in [Servers -> [Servers -> Servers \cup {None}]] /\ open \in [Servers -> SUBSET Servers]
  BY DEF IInv, TypeOK
<1>5. /\ srv' \in [Servers -> [Servers -> Servers \cup {None}]]
      /\ \A b, a \in Servers : srv'[b][a] = IF b = x /\ a = z /\ srv[x][z] = None THEN y ELSE srv[b][a]
  BY <1>1, <1>4
<1>6. \A a, b \in Servers : srv'[b][a] = a <=> srv[b][a] = a
  BY <1>1, <1>5, NoneAssumption
<1>7. ServersFit(open, srv')
  BY <1>1, <1>4, <1>5, <1>6, NoneAssumption DEF IInv, ServersFit
<1>8. Fresh(queue', open, srv')
  BY <1>3, <1>4, <1>6 DEF Fresh
<1>9. LinksRegistered(usr, open, srv')
  BY <1>4, <1>6 DEF IInv, LinksRegistered
<1> QED BY <1>1, <1>3, <1>5, <1>7, <1>8, <1>9, ServersStep DEF IInv, TypeOK

\* Everything x knows goes to a link nobody is known by.
LEMMA IntroductionFits ==
    ASSUME TypeOK, NEW par \in Forests, Acyclic(par), UsersFit(usr, par), NEW x \in Servers, NEW y \in Servers,
           Edge(par, x, y), \A u \in Users : usr[x][u] # y
    PROVE  LET ms == <<SERVERof(x)>> \o (ServersInfo(x, y) \o ClientsInfo(x)) IN
           /\ ms \in Seq(Msg) /\ ms # <<>> /\ Head(ms) = SERVERof(x)
           /\ \A m \in ToSet(ms) : About(m) => Toward(par, y, x, Home[m.who])
<1> DEFINE si == ServersInfo(x, y)
           ci == ClientsInfo(x)
           hello == <<SERVERof(x)>>
<1>1. /\ si \in Seq(Msg) /\ \A m \in ToSet(si) : ~About(m)
      /\ ci \in Seq(Msg) /\ ToSet(ci) = {NICKof(u, Reads(x, u)) : u \in {v \in Users : usr[x][v] # None}}
  BY InfoIs
<1>2. /\ hello \in Seq(Msg) /\ hello # <<>> /\ Head(hello) = SERVERof(x)
      /\ ToSet(hello) = {SERVERof(x)} /\ ~About(SERVERof(x))
  BY ToSetSmall, MessagesTyped DEF SERVERof
<1>3. ASSUME NEW m \in ToSet(ci) PROVE Toward(par, y, x, Home[m.who])
  <2>1. PICK u \in Users : usr[x][u] # None /\ m = NICKof(u, Reads(x, u))
    BY <1>1
  <2>2. m.who = u /\ usr[x][u] \in Servers \cup Local /\ Home[u] \in Servers
    BY <2>1, HomeAssumption DEF NICKof, TypeOK
  <2>3. CASE usr[x][u] \in Local
    BY <2>2, <2>3, TowardHome DEF UsersFit
  <2>4. CASE usr[x][u] \in Servers
    <3>1. Toward(par, x, usr[x][u], Home[u]) /\ usr[x][u] # y
      BY <2>4 DEF UsersFit
    <3> QED BY <2>2, <2>4, <3>1, TowardPassedOn
  <2> QED BY <2>2, <2>3, <2>4
<1> HIDE DEF si, ci, hello
<1>4. si \o ci \in Seq(Msg) /\ ToSet(si \o ci) = ToSet(si) \cup ToSet(ci)
  BY <1>1, ToSetConcat
<1>5. /\ hello \o (si \o ci) \in Seq(Msg) /\ hello \o (si \o ci) # <<>>
      /\ Head(hello \o (si \o ci)) = SERVERof(x)
      /\ ToSet(hello \o (si \o ci)) = {SERVERof(x)} \cup ToSet(si) \cup ToSet(ci)
  <2> DEFINE rest == si \o ci
  <2>1. rest \in Seq(Msg) /\ ToSet(rest) = ToSet(si) \cup ToSet(ci)
    BY <1>4
  <2> HIDE DEF rest
  <2>2. hello \o rest \in Seq(Msg) /\ ToSet(hello \o rest) = ToSet(hello) \cup ToSet(rest)
    BY <1>2, <2>1, ToSetConcat
  <2>3. hello \o rest # <<>> /\ Head(hello \o rest) = Head(hello)
    BY <1>2, <2>1, HeadConcat
  <2> QED BY <1>2, <2>1, <2>2, <2>3 DEF rest
<1>6. \A m \in ToSet(hello \o (si \o ci)) : About(m) => Toward(par, y, x, Home[m.who])
  BY <1>1, <1>2, <1>3, <1>5
<1> QED BY <1>2, <1>5, <1>6 DEF si, ci, hello

\* Who has been taken for a parent once stays among those that have.
LEMMA HeirsStay ==
    ASSUME TypeOK, NEW x \in Servers, NEW p \in Servers, NEW ms, LinkTo(x, p, ms)
    PROVE  heirs' \in [Servers -> SUBSET Servers] /\ \A z \in Servers : heirs[z] \subseteq heirs'[z]
<1>0. heirs \in [Servers -> SUBSET Servers]
  BY DEF TypeOK
<1>1. CASE heirs' = heirs
  BY <1>0, <1>1
<1>2. CASE heirs' = [heirs EXCEPT ![p] = @ \cup {x}]
  BY <1>0, <1>2
<1> QED BY <1>1, <1>2 DEF LinkTo

\* x, which has no parent, is linked to p and sends ms after its own name.
LEMMA LinkToKeeps ==
    ASSUME IInv, NEW x \in Servers, NEW p \in Servers, NEW ms, LinkTo(x, p, ms),
           parent[x] = None, ~Under(parent, p, x), UNCHANGED <<srv, usr>>,
           <<SERVERof(x)>> \o ms \in Seq(Msg), <<SERVERof(x)>> \o ms # <<>>,
           Head(<<SERVERof(x)>> \o ms) = SERVERof(x),
           \A m \in ToSet(<<SERVERof(x)>> \o ms) : About(m) => Toward(WithEdge(parent, x, p), p, x, Home[m.who]),
           status' \in [Servers -> {"off", "running", "ended", "undefined"}],
           \A z \in Servers : status'[z] = "off" => status[z] = "off",
           status'[x] # "off", status'[p] # "off"
    PROVE  IInv'
<1> DEFINE par == WithEdge(parent, x, p)
           nms == <<SERVERof(x)>> \o ms
<1>0. parent \in Forests /\ open \in [Servers -> SUBSET Servers] /\ queue \in Queues /\ Acyclic(parent)
      /\ srv \in [Servers -> [Servers -> Servers \cup {None}]]
      /\ usr \in [Servers -> [Users -> Servers \cup Local \cup {None}]]
  BY DEF IInv, TypeOK, Forests, Queues
<1>1. parent' = par /\ par \in Forests /\ Acyclic(par)
  BY <1>0, LinkKeepsAcyclic DEF LinkTo, WithEdge
<1>14. heirs' \in [Servers -> SUBSET Servers] /\ \A z \in Servers : heirs[z] \subseteq heirs'[z]
  BY HeirsStay DEF IInv
<1>2. p # x /\ parent[p] # x /\ ~Edge(parent, x, p) /\ ~Edge(parent, p, x)
  <2>1. p # x
    BY UnderItself
  <2>2. parent[p] # x
    BY <1>0, UnderItself, UnderParent
  <2> QED BY <2>1, <2>2, NoneAssumption DEF Edge
<1>3. /\ open' \in [Servers -> SUBSET Servers]
      /\ \A a, b \in Servers : a \in open'[b] <=> a \in open[b] \/ (a = p /\ b = x) \/ (a = x /\ b = p)
  BY <1>0, <1>2 DEF LinkTo
<1>4. /\ queue' \in Queues
      /\ \A a, b \in Servers : queue'[a][b] = IF a = x /\ b = p THEN nms ELSE queue[a][b]
  BY <1>0 DEF LinkTo, Queues
<1>5. /\ \A z \in Servers : par[z] = IF z = x THEN p ELSE parent[z]
      /\ \A a, b \in Servers : Edge(parent, a, b) => Edge(par, a, b)
      /\ Edge(par, x, p) /\ Edge(par, p, x)
  BY <1>0, NoneAssumption DEF WithEdge, Forests, Edge
<1>6. \A a, b, h \in Servers : Toward(parent, a, b, h) => Toward(par, a, b, h)
  BY <1>0, LinkKeepsToward
<1> HIDE DEF par
<1>7. Started'
  <2>1. \A z \in Servers : status[z] # "off" => status'[z] # "off"
    OBVIOUS
  <2>2. \A z \in Servers \ {x} : parent'[z] = parent[z]
    BY <1>1, <1>5
  <2>3. parent'[x] = p /\ status'[x] # "off" /\ status'[p] # "off"
    BY <1>1, <1>5
  <2>4. \A z \in Servers : parent[z] # None => parent[z] \in Servers
    BY <1>0 DEF Forests
  <2>5. \A z \in Servers \ {x} : parent'[z] # None => status'[z] # "off" /\ status'[parent'[z]] # "off"
    BY <2>1, <2>2, <2>4 DEF IInv, Started
  <2> QED BY <2>3, <2>5 DEF Started
<1>8. ServersFit(open, srv)'
  <2>1. \A a, b \in Servers : Edge(parent, a, b)' <=> Edge(par, a, b)
    BY <1>1 DEF Edge
  <2>2. \A a \in Servers : \A b \in open'[a] : b \in Servers /\ Edge(par, a, b)
    BY <1>3, <1>5 DEF IInv, ServersFit
  <2>3. \A a, b \in Servers : srv[a][b] = b => Edge(par, a, b)
    BY <1>5 DEF IInv, ServersFit
  <2>4. \A a, z \in Servers : srv[a][z] # None => srv[a][srv[a][z]] = srv[a][z]
    BY DEF IInv, ServersFit
  <2> QED BY <2>1, <2>2, <2>3, <2>4 DEF ServersFit
<1>9. Fits(queue', par)
  <2> SUFFICES ASSUME NEW b \in Servers, NEW a \in Servers
               PROVE  /\ queue'[a][b] # <<>> => Edge(par, b, a)
                      /\ \A m \in ToSet(queue'[a][b]) : About(m) => Toward(par, b, a, Home[m.who])
    BY DEF Fits
  <2>1. CASE a = x /\ b = p
    <3>1. queue'[a][b] = nms
      BY <1>4, <2>1
    <3> HIDE DEF nms
    <3> QED BY <1>5, <2>1, <3>1 DEF par, nms
  <2>2. CASE ~(a = x /\ b = p)
    <3>1. queue'[a][b] = queue[a][b] /\ queue[a][b] \in Seq(Msg)
      BY <1>0, <1>4, <2>2 DEF Queues
    <3>2. \A m \in ToSet(queue[a][b]) : About(m) => Home[m.who] \in Servers
      <4>1. \A m \in ToSet(queue[a][b]) : m \in Msg
        BY <3>1, LenProperties DEF ToSet
      <4> QED BY <4>1, HomeAssumption DEF Msg, About
    <3> QED BY <1>5, <1>6, <3>1, <3>2 DEF IInv, Fits
  <2> QED BY <2>1, <2>2
<1>10. Fresh(queue, open, srv)'
  <2> SUFFICES ASSUME NEW b \in Servers, NEW a \in open'[b], srv[b][a] # a, b \notin heirs[a]
               PROVE  /\ queue'[a][b] # <<>> => Head(queue'[a][b]) = SERVERof(a)
                      /\ queue'[a][b] = <<>> => par[b] = a /\ srv[a][b] # b
    <3>1. \A a, b \in Servers : b \notin heirs'[a] => b \notin heirs[a]
      BY <1>14
    <3>2. \A b \in Servers : open'[b] \subseteq Servers
      BY <1>3
    <3> QED BY <1>1, <3>1, <3>2 DEF Fresh
  <2>0. a \in Servers
    BY <1>3
  <2>1. CASE a = x /\ b = p
    <3>1. queue'[a][b] = nms
      BY <1>4, <2>1
    <3>2. nms # <<>> /\ Head(nms) = SERVERof(x)
      OBVIOUS
    <3> HIDE DEF nms
    <3> QED BY <2>1, <3>1, <3>2
  <2>2. CASE a = p /\ b = x
    <3>1. queue'[a][b] = queue[a][b]
      BY <1>2, <1>4, <2>2
    <3>2. queue[a][b] = <<>> /\ srv[a][b] # b
      BY <1>2, <2>2 DEF IInv, Fits, ServersFit
    <3> QED BY <1>5, <2>2, <3>1, <3>2
  <2>3. CASE ~(a = x /\ b = p) /\ ~(a = p /\ b = x)
    <3>1. a \in open[b] /\ queue'[a][b] = queue[a][b]
      BY <1>3, <1>4, <2>0, <2>3
    <3> QED BY <1>5, <2>0, <3>1, NoneAssumption DEF IInv, Fresh
  <2> QED BY <2>1, <2>2, <2>3
<1>11. UsersFit(usr', par)
  BY <1>0, <1>6, HomeAssumption DEF IInv, UsersFit
<1>12. LinksRegistered(usr, open, srv)'
  <2>1. \A u \in Users : usr[x][u] # p /\ usr[p][u] # x
    BY <1>2, TowardIsEdge DEF IInv, UsersFit
  <2> QED BY <1>3, <2>1 DEF IInv, LinksRegistered
<1>13. TypeOK'
  BY <1>0, <1>1, <1>3, <1>4, <1>14 DEF TypeOK, Queues, Forests
<1> QED BY <1>1, <1>7, <1>8, <1>9, <1>10, <1>11, <1>12, <1>13 DEF IInv

LEMMA StartKeeps ==
    ASSUME IInv, NEW x \in Servers, Start(x)
    PROVE  IInv'
<1>1. /\ status[x] = "off" /\ status' = [status EXCEPT ![x] = "running"] /\ UNCHANGED <<srv, usr>>
      /\ status' \in [Servers -> {"off", "running", "ended", "undefined"}]
      /\ \A z \in Servers : status'[z] = "off" => status[z] = "off"
      /\ status'[x] # "off"
  BY DEF Start, IInv, TypeOK
<1>2. CASE UNCHANGED <<parent, heirs, open, queue>>
  BY <1>1, <1>2, UsersStep DEF IInv, TypeOK, Queues
<1>3. ASSUME NEW p \in Servers, Running(p), LinkTo(x, p, <<>>) PROVE IInv'
  <2> DEFINE nms == <<SERVERof(x)>> \o <<>>
  <2>1. parent \in Forests /\ parent[x] = None /\ p # x /\ status'[p] # "off"
    BY <1>1, <1>3 DEF IInv, TypeOK, Started, Running, Forests
  <2>2. ~Under(parent, p, x)
    <3>1. p \in Servers \ {x} /\ ClosedUp(parent, Servers \ {x})
      BY <1>1, <2>1 DEF ClosedUp, IInv, Started, Forests
    <3> QED BY <3>1 DEF Under
  <2>3. nms = <<SERVERof(x)>>
    BY ToSetSmall, MessagesTyped, ConcatEmptySeq
  <2>4. nms \in Seq(Msg) /\ nms # <<>> /\ Head(nms) = SERVERof(x) /\ \A m \in ToSet(nms) : ~About(m)
    BY <2>3, ToSetSmall, MessagesTyped DEF SERVERof
  <2> QED BY <1>1, <1>3, <2>1, <2>2, <2>4, LinkToKeeps
<1> QED BY <1>2, <1>3 DEF Start

LEMMA CONNECTKeeps ==
    ASSUME IInv, NEW x \in Servers, NEW p \in Servers, CONNECT(x, p)
    PROVE  IInv'
<1> DEFINE ms == ServersInfo(x, p) \o ClientsInfo(x)
           par == WithEdge(parent, x, p)
           nms == <<SERVERof(x)>> \o ms
<1>1. /\ LinkTo(x, p, ms) /\ parent[x] = None /\ NotUnder(p, x) /\ UNCHANGED <<status, srv, usr>>
      /\ Running(x) /\ Running(p)
  BY DEF CONNECT, Takes
<1>2. ~Under(parent, p, x)
  BY <1>1 DEF NotUnder, Under, ClosedUp
<1>3. parent \in Forests /\ Acyclic(parent) /\ TypeOK
  BY DEF IInv, TypeOK, Forests
<1>4. par \in Forests /\ Acyclic(par)
  BY <1>1, <1>2, <1>3, LinkKeepsAcyclic
<1>5. Edge(par, x, p)
  BY <1>3 DEF WithEdge, Forests, Edge
<1>6. ~Edge(parent, x, p)
  <2>1. parent[p] # x
    BY <1>2, <1>3, UnderItself, UnderParent
  <2> QED BY <1>1, <2>1, NoneAssumption DEF Edge
<1>7. \A u \in Users : usr[x][u] # p
  BY <1>6, TowardIsEdge DEF IInv, UsersFit
<1>8. UsersFit(usr, par)
  <2>1. \A a, b, h \in Servers : Toward(parent, a, b, h) => Toward(par, a, b, h)
    BY <1>1, <1>2, <1>3, LinkKeepsToward
  <2> HIDE DEF par
  <2> QED BY <2>1, HomeAssumption DEF IInv, UsersFit
<1>9. /\ nms \in Seq(Msg) /\ nms # <<>> /\ Head(nms) = SERVERof(x)
      /\ \A m \in ToSet(nms) : About(m) => Toward(par, p, x, Home[m.who])
  <2> HIDE DEF par
  <2> QED BY <1>3, <1>4, <1>5, <1>7, <1>8, IntroductionFits
<1>10. /\ status' \in [Servers -> {"off", "running", "ended", "undefined"}]
       /\ \A z \in Servers : status'[z] = "off" => status[z] = "off"
       /\ status'[x] # "off" /\ status'[p] # "off"
  BY <1>1 DEF IInv, TypeOK, Running
<1> HIDE DEF ms
<1> QED BY <1>1, <1>2, <1>9, <1>10, LinkToKeeps

\* The first message of a link: from now on it is one.
LEMMA ReceiveRegistrationKeeps ==
    ASSUME IInv, NEW x \in Servers, NEW y \in Servers, ReceiveRegistration(x, y)
    PROVE  IInv'
<1> DEFINE ms == <<SERVERof(x)>> \o (ServersInfo(x, y) \o ClientsInfo(x))
           news == <<SERVERof(y)>>
           t == Taken(x, y)
           told == Sent(t, x, {y}, ms)
<1>1. /\ Arrives(x, y) /\ Head(queue[y][x]) = SERVERof(y) /\ srv[x][y] = None
      /\ srv' = [srv EXCEPT ![x][y] = y] /\ UNCHANGED <<status, parent, heirs, open, usr>>
      /\ queue' = IF y \in ByParentFd(x) THEN t ELSE Sent(told, x, Others(x, y), news)
  <2>1. TypeOK /\ <<SERVERof(x)>> \in Seq(Msg)
    BY ToSetSmall, MessagesTyped DEF IInv
  <2>2. ServersInfo(x, y) \in Seq(Msg) /\ ClientsInfo(x) \in Seq(Msg)
    BY <2>1, InfoIs
  <2>3. ms = <<SERVERof(x)>> \o ServersInfo(x, y) \o ClientsInfo(x)
    BY <2>1, <2>2, ConcatAssociative
  <2> QED BY <2>3 DEF ReceiveRegistration
<1>2. /\ parent \in Forests /\ Acyclic(parent) /\ queue \in Queues
      /\ open \in [Servers -> SUBSET Servers] /\ TypeOK
      /\ srv \in [Servers -> [Servers -> Servers \cup {None}]]
      /\ y \in open[x] /\ queue[y][x] # <<>>
  BY <1>1 DEF IInv, TypeOK, Forests, Queues, Receives, Arrives
<1>3. Edge(parent, x, y) /\ x # y
  <2>1. Edge(parent, x, y)
    BY <1>2 DEF IInv, ServersFit
  <2>2. ~Edge(parent, x, x)
    BY <1>2, UnderItself, NoneAssumption DEF Edge, Acyclic
  <2> QED BY <2>1, <2>2
<1>4. \A u \in Users : usr[x][u] # y
  BY <1>1, <1>2, NoneAssumption DEF IInv, LinksRegistered
<1>5. /\ ms \in Seq(Msg) /\ ms # <<>> /\ Head(ms) = SERVERof(x)
      /\ \A m \in ToSet(ms) : About(m) => Toward(parent, y, x, Home[m.who])
  BY <1>2, <1>3, <1>4, IntroductionFits DEF IInv
<1>6. news \in Seq(Msg) /\ \A m \in ToSet(news) : ~About(m)
  BY ToSetSmall, MessagesTyped
<1>7. /\ t \in Queues /\ Fits(t, parent)
      /\ \A a, b \in Servers : t[a][b] = IF a = y /\ b = x THEN Tail(queue[y][x]) ELSE queue[a][b]
  BY <1>2, TakenFits, TakenEffect DEF IInv
<1> HIDE DEF ms, news, t
<1>8. /\ told \in Queues /\ Fits(told, parent)
      /\ \A a, b \in Servers : told[a][b] = IF a = x /\ b \in {y} /\ x \in open[b] THEN t[a][b] \o ms ELSE t[a][b]
  <2>1. \A b \in Servers, m \in ToSet(ms) :
           b \in {y} /\ x \in open[b] /\ About(m) => Toward(parent, b, x, Home[m.who])
    BY <1>5
  <2> QED BY <1>2, <1>5, <1>7, <2>1, SentFits, SentEffect DEF IInv
<1> HIDE DEF told
<1> DEFINE all == Sent(told, x, Others(x, y), news)
<1>9. /\ all \in Queues /\ Fits(all, parent)
      /\ \A a, b \in Servers :
            all[a][b] = IF a = x /\ b \in Others(x, y) /\ x \in open[b] THEN told[a][b] \o news ELSE told[a][b]
  <2>1. \A b \in Servers, m \in ToSet(news) :
           b \in Others(x, y) /\ x \in open[b] /\ About(m) => Toward(parent, b, x, Home[m.who])
    BY <1>6
  <2> QED BY <1>2, <1>6, <1>8, <2>1, SentFits, SentEffect DEF IInv
<1> HIDE DEF all
<1>10. queue' \in Queues /\ Fits(queue', parent)
  BY <1>1, <1>7, <1>9 DEF all
<1>11. /\ srv' \in [Servers -> [Servers -> Servers \cup {None}]]
       /\ \A a, b \in Servers : srv'[b][a] = IF b = x /\ a = y THEN y ELSE srv[b][a]
  BY <1>1, <1>2
<1>12. Fresh(queue', open', srv')
  <2> SUFFICES ASSUME NEW b \in Servers, NEW a \in open[b], srv'[b][a] # a, b \notin heirs[a]
               PROVE  /\ queue'[a][b] # <<>> => Head(queue'[a][b]) = SERVERof(a)
                      /\ queue'[a][b] = <<>> => parent[b] = a /\ srv'[a][b] # b
    BY <1>1 DEF Fresh
  <2>1. a \in Servers /\ srv[b][a] # a /\ ~(a = y /\ b = x) /\ queue[a][b] \in Seq(Msg)
    BY <1>2, <1>11 DEF Queues
  <2>2. /\ queue[a][b] # <<>> => Head(queue[a][b]) = SERVERof(a)
        /\ queue[a][b] = <<>> => parent[b] = a /\ srv[a][b] # b
    BY <2>1 DEF IInv, Fresh
  <2>3. t[a][b] = queue[a][b]
    BY <1>7, <2>1
  <2>4. CASE a = x /\ b = y
    <3>1. CASE y = parent[x]
      <4>1. queue'[a][b] = queue[a][b]
        BY <1>1, <2>3, <3>1 DEF ByParentFd
      <4>2. parent[y] # x
        BY <1>2, <3>1, UnderItself, UnderParent, NoneAssumption DEF Acyclic
      <4> QED BY <2>2, <2>4, <4>1, <4>2
    <3>2. CASE y \notin ByParentFd(x)
      <4>1. told[a][b] = queue[a][b] \o ms /\ b \notin Others(x, y)
        BY <1>8, <2>1, <2>3, <2>4 DEF Others
      <4>2. queue'[a][b] = queue[a][b] \o ms
        BY <1>1, <1>9, <2>1, <3>2, <4>1 DEF all
      <4>3. queue[a][b] # <<>> => queue'[a][b] # <<>> /\ Head(queue'[a][b]) = Head(queue[a][b])
        BY <1>5, <2>1, <4>2, HeadConcat
      <4>4. queue[a][b] = <<>> => queue'[a][b] = ms
        BY <1>5, <2>1, <4>2, HeadConcat
      <4>5. Head(queue'[a][b]) = SERVERof(a) /\ queue'[a][b] # <<>>
        BY <1>5, <2>2, <2>4, <4>3, <4>4
      <4> QED BY <4>5
    <3> QED BY <2>4, <3>1, <3>2 DEF ByParentFd
  <2>5. CASE ~(a = x /\ b = y)
    <3>1. srv'[a][b] = srv[a][b]
      BY <1>11, <2>1, <2>5
    <3>2. told[a][b] = queue[a][b]
      BY <1>8, <2>1, <2>3, <2>5
    <3>3. CASE queue'[a][b] = queue[a][b]
      BY <2>2, <3>1, <3>3
    <3>4. CASE a = x /\ b \in Direct(x) /\ queue'[a][b] = queue[a][b] \o news
      <4>1. queue[a][b] # <<>>
        BY <2>2, <3>4 DEF Direct
      <4> QED BY <1>6, <2>1, <2>2, <3>4, <4>1, HeadConcat
    <3> QED BY <1>1, <1>9, <2>1, <2>3, <3>2, <3>3, <3>4 DEF all, Others
  <2> QED BY <2>4, <2>5
<1>13. ServersFit(open', srv')
  BY <1>1, <1>2, <1>3, <1>11, NoneAssumption DEF IInv, ServersFit
<1>14. LinksRegistered(usr, open', srv')
  BY <1>1, <1>2, <1>11 DEF IInv, LinksRegistered
<1> QED BY <1>1, <1>2, <1>10, <1>11, <1>12, <1>13, <1>14, ServersStep DEF IInv, TypeOK

\* Only who is taken for the parent of the other end takes anything else.
LEMMA StrayIsHeir ==
    ASSUME IInv, NEW x \in Servers, NEW y \in Servers, ReceiveStray(x, y)
    PROVE  x \in heirs[y]
BY DEF IInv, Fresh, ReceiveStray, Arrives

LEMMA ReceiveStrayKeeps ==
    ASSUME IInv, NEW x \in Servers, NEW y \in Servers, ReceiveStray(x, y)
    PROVE  IInv'
<1>1. /\ queue[y][x] # <<>> /\ queue' = Taken(x, y) /\ UNCHANGED <<parent, heirs, open, srv, usr>>
      /\ status' = [status EXCEPT ![x] = "undefined"]
  BY DEF ReceiveStray, Arrives
<1>2. queue' \in Queues /\ Fits(queue', parent)
  BY <1>1, TakenFits DEF IInv
<1>3. status' \in [Servers -> {"off", "running", "ended", "undefined"}]
      /\ \A z \in Servers : status'[z] = "off" => status[z] = "off"
  BY <1>1 DEF IInv, TypeOK
<1>4. Fresh(queue', open, srv)
  <2>1. x \in heirs[y]
    BY StrayIsHeir
  <2>2. queue \in Queues /\ open \in [Servers -> SUBSET Servers]
    BY DEF IInv, TypeOK, Queues
  <2>3. \A a, b \in Servers : queue'[a][b] = IF a = y /\ b = x THEN Tail(queue[y][x]) ELSE queue[a][b]
    BY <1>1, <2>2, TakenEffect
  <2> QED BY <2>1, <2>2, <2>3 DEF IInv, Fresh
<1> QED BY <1>1, <1>2, <1>3, <1>4, UsersStep DEF IInv, TypeOK

-----------------------------------------------------------------------------
(* The theorems. *)

LEMMA InitInv == Init => IInv
<1> SUFFICES ASSUME Init PROVE IInv
  OBVIOUS
<1>1. <<>> \in Seq(Msg) /\ ToSet(<<>>) = {}
  BY DEF ToSet
<1>2. TypeOK
  BY <1>1 DEF Init, TypeOK
<1>3. Acyclic(parent) /\ Started
  BY DEF Init, Acyclic, Started
<1>4. Fits(queue, parent) /\ Fresh(queue, open, srv)
  BY <1>1 DEF Init, Fits, Fresh
<1>5. UsersFit(usr, parent) /\ LinksRegistered(usr, open, srv) /\ ServersFit(open, srv)
  BY NoneAssumption DEF Init, UsersFit, LinksRegistered, ServersFit
<1> QED BY <1>2, <1>3, <1>4, <1>5 DEF IInv

LEMMA NextKeeps == IInv /\ [Next]_vars => IInv'
<1> SUFFICES ASSUME IInv, [Next]_vars PROVE IInv'
  OBVIOUS
<1>1. CASE UNCHANGED vars
  BY <1>1, UsersStep DEF vars, IInv, TypeOK, Queues
<1>2. ASSUME NEW u \in Users, UserStep(u) PROVE IInv'
  BY <1>2, UserStepKeeps
<1>3. ASSUME NEW x \in Servers, ServerStep(x) PROVE IInv'
  BY <1>3, StartKeeps, CrashKeeps, SquitSelfKeeps DEF ServerStep
<1>4. ASSUME NEW x \in Servers, NEW y \in Servers, LinkStep(x, y) PROVE IInv'
  BY <1>4, CONNECTKeeps, HangUpKeeps, SQUITKeeps, ReceiveRegistrationKeeps, ReceiveStrayKeeps, ReceiveServerKeeps,
     ReceiveSquitSelfKeeps, ReceiveSquitKeeps, ReceiveNickKeeps, ReceiveRenameKeeps, ReceiveQuitKeeps
  DEF LinkStep
<1> QED BY <1>1, <1>2, <1>3, <1>4 DEF Next

THEOREM NetworkInv == Spec => []IInv
BY InitInv, NextKeeps, PTL DEF Spec

\* Every variable of every server keeps the shape the code gives it.
THEOREM TypeCorrect == Spec => []TypeOK
<1>1. IInv => TypeOK
  BY DEF IInv
<1> QED BY <1>1, NetworkInv, PTL

\* No server ever learns of its own client by a link, however the network grows
\* and breaks while messages are under way.
THEOREM OwnUsersStayLocal == Spec => []OwnUsersAreLocal
<1>1. IInv => OwnUsersAreLocal
  <2> SUFFICES ASSUME IInv, NEW u \in Users PROVE usr[Home[u]][u] \in Local \cup {None}
    BY DEF OwnUsersAreLocal
  <2>1. Home[u] \in Servers /\ parent \in Forests /\ Acyclic(parent)
    BY HomeAssumption DEF IInv, TypeOK, Forests
  <2>2. usr[Home[u]][u] \in Servers \cup Local \cup {None}
    BY <2>1 DEF IInv, TypeOK
  <2>3. usr[Home[u]][u] \notin Servers
    BY <2>1, NotTowardItself DEF IInv, UsersFit
  <2> QED BY <2>2, <2>3
<1> QED BY <1>1, NetworkInv, PTL

-----------------------------------------------------------------------------
(* What servers are told of users and of each other, for any tree of links.  *)
(* Of users: what is on its way to a server is read as one history, of which *)
(* the last word on a user counts, and compared with what the sender knows.  *)

\* Where q speaks of u.
Says(q, u) == {i \in DOMAIN q : q[i].type \in {"NICK", "QUIT"} /\ q[i].who = u}

\* Will u be known when q is handled by who knows u now, or not (known)?
Heard(q, u, known) ==
    IF Says(q, u) = {} THEN known
    ELSE \E i \in Says(q, u) : q[i].type = "NICK" /\ \A j \in Says(q, u) : j <= i

\* r knows u by its link to s, or will.
Hears(s, r, u) == Heard(queue[s][r], u, usr[r][u] = s)

\* s tells r when it registers r, or before it knows anything.
Truthful(s, r) == parent[r] = s \/ (parent[s] = r /\ "CONNECT" \notin Commands[s])

\* Nothing is told before s has registered r, and then what s knows, and a
\* parent tells all of it to who is not taken for its own parent.
InformedOf(s, r, u) ==
    /\ Hears(s, r, u) => srv[s][r] = r /\ usr[s][u] \notin {None, r}
    /\ parent[r] = s /\ srv[s][r] = r /\ r \notin heirs[s] /\ usr[s][u] \in (Servers \cup {"full"}) \ {r} => Hears(s, r, u)

Informed ==
    \A s, r \in Servers : Linked(s, r) /\ Truthful(s, r) => \A u \in Users : InformedOf(s, r, u)

TInv == IInv /\ Informed

-----------------------------------------------------------------------------
(* The history of a queue. *)

\* What comes later is read after what comes first.
LEMMA HeardConcat ==
    ASSUME NEW s \in Seq(Msg), NEW t \in Seq(Msg), NEW u, NEW k \in BOOLEAN
    PROVE  Heard(s \o t, u, k) <=> Heard(t, u, Heard(s, u, k))
<1> DEFINE n == Len(s)
           st == s \o t
<1>1. /\ st \in Seq(Msg) /\ n \in Nat /\ Len(t) \in Nat
      /\ DOMAIN s = 1..n /\ DOMAIN t = 1..Len(t) /\ DOMAIN st = 1..(n + Len(t))
      /\ \A i \in 1..(n + Len(t)) : st[i] = IF i <= n THEN s[i] ELSE t[i - n]
  BY ConcatProperties, LenProperties
<1> HIDE DEF n, st
<1>2. \A i : i \in Says(s, u) => i \in Says(st, u) /\ i \in 1..n /\ st[i] = s[i]
  BY <1>1 DEF Says
<1>3. \A i : i \in Says(t, u) => i \in Nat /\ n + i \in Says(st, u) /\ st[n + i] = t[i] /\ n + i > n
  <2> SUFFICES ASSUME NEW i \in Says(t, u)
               PROVE  i \in Nat /\ n + i \in Says(st, u) /\ st[n + i] = t[i] /\ n + i > n
    OBVIOUS
  <2>1. i \in 1..Len(t) /\ n + i \in 1..(n + Len(t)) /\ ~(n + i <= n) /\ (n + i) - n = i
    BY <1>1 DEF Says
  <2>2. st[n + i] = t[i]
    BY <1>1, <2>1
  <2> QED BY <1>1, <2>1, <2>2 DEF Says
<1>4. \A i : i \in Says(st, u) => \/ i \in Says(s, u)
                                  \/ i - n \in Says(t, u) /\ i \in Nat /\ i > n /\ st[i] = t[i - n]
  <2> SUFFICES ASSUME NEW i \in Says(st, u), i \notin Says(s, u)
               PROVE  i - n \in Says(t, u) /\ i \in Nat /\ i > n /\ st[i] = t[i - n]
    OBVIOUS
  <2>1. i \in 1..(n + Len(t)) /\ ~(i <= n)
    BY <1>1 DEF Says
  <2>2. i - n \in 1..Len(t) /\ st[i] = t[i - n]
    BY <1>1, <2>1
  <2> QED BY <1>1, <2>1, <2>2 DEF Says
<1>5. CASE Says(t, u) = {}
  <2>1. Says(st, u) = Says(s, u)
    BY <1>2, <1>4, <1>5
  <2> QED BY <1>2, <1>5, <2>1 DEF Heard, st
<1>6. CASE Says(t, u) # {}
  <2>1. Says(st, u) # {}
    BY <1>3, <1>6
  <2>2. ASSUME NEW i \in Says(t, u), t[i].type = "NICK", \A j \in Says(t, u) : j <= i
        PROVE  \E l \in Says(st, u) : st[l].type = "NICK" /\ \A j \in Says(st, u) : j <= l
    <3>1. n + i \in Says(st, u) /\ st[n + i].type = "NICK" /\ i \in Nat
      BY <1>3, <2>2
    <3>2. ASSUME NEW j \in Says(st, u) PROVE j <= n + i
      <4>1. CASE j \in Says(s, u)
        BY <1>1, <1>2, <3>1, <4>1
      <4>2. CASE j - n \in Says(t, u) /\ j \in Nat
        BY <1>1, <2>2, <3>1, <4>2
      <4> QED BY <1>4, <4>1, <4>2
    <3> QED BY <3>1, <3>2
  <2>3. ASSUME NEW l \in Says(st, u), st[l].type = "NICK", \A j \in Says(st, u) : j <= l
        PROVE  \E i \in Says(t, u) : t[i].type = "NICK" /\ \A j \in Says(t, u) : j <= i
    <3>1. PICK o \in Says(t, u) : TRUE
      BY <1>6
    <3>2. n + o <= l /\ n + o > n /\ o \in Nat
      BY <1>3, <2>3
    <3>3. l \notin Says(s, u)
      BY <1>1, <1>2, <3>2
    <3>4. l - n \in Says(t, u) /\ l \in Nat /\ t[l - n].type = "NICK"
      BY <1>4, <2>3, <3>3
    <3>5. ASSUME NEW j \in Says(t, u) PROVE j <= l - n
      <4>1. n + j <= l /\ j \in Nat
        BY <1>3, <2>3
      <4> QED BY <1>1, <3>4, <4>1
    <3> QED BY <3>4, <3>5
  <2> QED BY <1>6, <2>1, <2>2, <2>3 DEF Heard, st
<1> QED BY <1>5, <1>6

\* One message.
LEMMA HeardOne ==
    ASSUME NEW m \in Msg, NEW u, NEW k \in BOOLEAN
    PROVE  Heard(<<m>>, u, k) <=> IF About(m) /\ m.who = u THEN m.type = "NICK" ELSE k
<1>1. DOMAIN <<m>> = {1} /\ <<m>>[1] = m
  OBVIOUS
<1>2. CASE About(m) /\ m.who = u
  <2>1. Says(<<m>>, u) = {1}
    BY <1>1, <1>2 DEF Says, About
  <2> QED BY <1>1, <1>2, <2>1 DEF Heard
<1>3. CASE ~(About(m) /\ m.who = u)
  <2>1. Says(<<m>>, u) = {}
    BY <1>1, <1>3 DEF Says, About
  <2> QED BY <1>3, <2>1 DEF Heard
<1> QED BY <1>2, <1>3

\* Messages that do not speak of u.
LEMMA HeardNothing ==
    ASSUME NEW q \in Seq(Msg), NEW u, \A m \in ToSet(q) : ~(About(m) /\ m.who = u), NEW k \in BOOLEAN
    PROVE  Heard(q, u, k) <=> k
<1>1. Says(q, u) = {}
  BY DEF Says, About, ToSet
<1> QED BY <1>1 DEF Heard

\* The first message is read first.
LEMMA HeardTail ==
    ASSUME NEW q \in Seq(Msg), q # <<>>, NEW u, NEW k \in BOOLEAN
    PROVE  Heard(q, u, k) <=>
             Heard(Tail(q), u, IF About(Head(q)) /\ Head(q).who = u THEN Head(q).type = "NICK" ELSE k)
<1>1. Head(q) \in Msg /\ Tail(q) \in Seq(Msg) /\ <<Head(q)>> \in Seq(Msg)
  BY ToSetTail, ToSetSmall
<1>2. q = <<Head(q)>> \o Tail(q)
  BY HeadTailProperties
<1> DEFINE h == <<Head(q)>>
           w == Tail(q)
<1>3. Heard(q, u, k) <=> Heard(w, u, Heard(h, u, k))
  <2>1. h \in Seq(Msg) /\ w \in Seq(Msg) /\ q = h \o w
    BY <1>1, <1>2
  <2> HIDE DEF h, w
  <2> QED BY <2>1, HeardConcat
<1>4. Heard(h, u, k) <=> IF About(Head(q)) /\ Head(q).who = u THEN Head(q).type = "NICK" ELSE k
  BY <1>1, HeardOne
<1>5. Heard(h, u, k) \in BOOLEAN
  BY DEF Heard
<1> HIDE DEF h
<1> QED BY <1>3, <1>4, <1>5

\* Told of Network is what is heard.
LEMMA ToldIsHeard ==
    ASSUME NEW s \in Servers, NEW r \in Servers, NEW u \in Users
    PROVE  u \in Told(r, s) <=> Hears(s, r, u)
BY DEF Told, Hears, Heard, Says

-----------------------------------------------------------------------------
(* What handlers do to the histories. *)

\* Links between servers that stay: nothing is heard that was not, and what the
\* senders know stays the same.
LEMMA SameHeard ==
    ASSUME TInv, UNCHANGED <<parent, heirs, usr>>,
           \A s, r \in Servers : Linked(s, r)' /\ Truthful(s, r) =>
               /\ Linked(s, r)
               /\ srv'[s][r] = r <=> srv[s][r] = r
               /\ \A u \in Users : Hears(s, r, u)' <=> Hears(s, r, u)
    PROVE  Informed'
<1> SUFFICES ASSUME NEW s \in Servers, NEW r \in Servers, Linked(s, r)', Truthful(s, r)', NEW u \in Users
             PROVE  InformedOf(s, r, u)'
  BY DEF Informed
<1>1. Truthful(s, r)
  BY DEF Truthful
<1>2. InformedOf(s, r, u) /\ (srv'[s][r] = r <=> srv[s][r] = r) /\ (Hears(s, r, u)' <=> Hears(s, r, u))
  BY <1>1 DEF TInv, Informed
<1> QED BY <1>2 DEF InformedOf

\* The queues q and p say the same of every user.
SameWords(q, p) ==
    \A s, r \in Servers : \A u \in Users : \A k \in BOOLEAN :
        Heard(q[s][r], u, k) <=> Heard(p[s][r], u, k)

\* Messages ms about nobody are sent to S.
LEMMA SentUnheard ==
    ASSUME NEW q \in Queues, NEW x \in Servers, NEW S, NEW ms \in Seq(Msg), \A m \in ToSet(ms) : ~About(m)
    PROVE  SameWords(Sent(q, x, S, ms), q)
<1> SUFFICES ASSUME NEW s \in Servers, NEW r \in Servers, NEW u \in Users, NEW k \in BOOLEAN
             PROVE  Heard(Sent(q, x, S, ms)[s][r], u, k) <=> Heard(q[s][r], u, k)
  BY DEF SameWords
<1> DEFINE q1 == Sent(q, x, S, ms)[s][r]
           q0 == q[s][r]
<1>1. q1 = IF s = x /\ r \in S /\ x \in open[r] THEN q0 \o ms ELSE q0
  BY SentEffect
<1>2. q0 \in Seq(Msg)
  BY DEF Queues
<1> HIDE DEF q1, q0
<1>3. CASE q1 = q0 \o ms
  <2>1. Heard(q0, u, k) \in BOOLEAN
    BY DEF Heard
  <2>2. Heard(q1, u, k) <=> Heard(ms, u, Heard(q0, u, k))
    BY <1>2, <1>3, HeardConcat
  <2> QED BY <2>1, <2>2, HeardNothing DEF q0, q1
<1> QED BY <1>1, <1>3 DEF q0, q1

\* A message about nobody is taken.
LEMMA TakenUnheard ==
    ASSUME queue \in Queues, NEW x \in Servers, NEW y \in Servers, queue[y][x] # <<>>,
           ~About(Head(queue[y][x]))
    PROVE  SameWords(Taken(x, y), queue)
<1> SUFFICES ASSUME NEW s \in Servers, NEW r \in Servers, NEW u \in Users, NEW k \in BOOLEAN
             PROVE  Heard(Taken(x, y)[s][r], u, k) <=> Heard(queue[s][r], u, k)
  BY DEF SameWords
<1>1. Taken(x, y)[s][r] = IF s = y /\ r = x THEN Tail(queue[y][x]) ELSE queue[s][r]
  BY TakenEffect
<1>2. queue[y][x] \in Seq(Msg)
  BY DEF Queues
<1>3. Heard(queue[y][x], u, k) <=> Heard(Tail(queue[y][x]), u, k)
  BY <1>2, HeardTail
<1> QED BY <1>1, <1>3

\* Links are closed and forgotten, and the other histories stay.
LEMMA ClosedTells ==
    ASSUME TInv, UNCHANGED <<status, parent, heirs, usr>>,
           \A b \in Servers : open'[b] \subseteq open[b],
           \A a, b \in Servers : a \in open'[b] /\ srv[b][a] = a => srv'[b][a] = a,
           \A a, b \in Servers : srv'[b][a] = a => srv[b][a] = a,
           \A a, b \in Servers : a \in open'[b] =>
               \A u \in Users : \A k \in BOOLEAN : Heard(queue'[a][b], u, k) <=> Heard(queue[a][b], u, k)
    PROVE  Informed'
<1> SUFFICES ASSUME NEW s \in Servers, NEW r \in Servers, Linked(s, r)'
             PROVE  /\ Linked(s, r)
                    /\ srv'[s][r] = r <=> srv[s][r] = r
                    /\ \A u \in Users : Hears(s, r, u)' <=> Hears(s, r, u)
  BY SameHeard
<1>1. s \in open'[r] /\ r \in open'[s]
  BY DEF Linked
<1>2. Linked(s, r)
  BY <1>1 DEF Linked, Running
<1>3. srv'[s][r] = r <=> srv[s][r] = r
  BY <1>1
<1>4. ASSUME NEW u \in Users PROVE Hears(s, r, u)' <=> Hears(s, r, u)
  <2>1. (usr[r][u] = s) \in BOOLEAN
    OBVIOUS
  <2>2. Heard(queue'[s][r], u, usr[r][u] = s) <=> Heard(queue[s][r], u, usr[r][u] = s)
    BY <1>1, <2>1
  <2> QED BY <2>2 DEF Hears
<1> QED BY <1>2, <1>3, <1>4

\* No end, no link.
LEMMA EndedTells ==
    ASSUME TInv, NEW x \in Servers, Ended(x), UNCHANGED <<parent, heirs, srv, usr>>,
           \A s, r \in Servers : s # x /\ r # x => queue'[s][r] = queue[s][r]
    PROVE  Informed'
<1> SUFFICES ASSUME NEW s \in Servers, NEW r \in Servers, Linked(s, r)'
             PROVE  Linked(s, r) /\ \A u \in Users : Hears(s, r, u)' <=> Hears(s, r, u)
  BY SameHeard
<1>1. \A z \in Servers : status'[z] = IF z = x THEN "ended" ELSE status[z]
  BY DEF Ended, TInv, IInv, TypeOK
<1>2. s # x /\ r # x
  BY <1>1 DEF Linked, Running
<1>3. open'[s] = open[s] /\ open'[r] = open[r]
  BY <1>2 DEF Ended, TInv, IInv, TypeOK
<1>4. Linked(s, r)
  BY <1>1, <1>2, <1>3 DEF Linked, Running
<1>5. queue'[s][r] = queue[s][r] /\ usr' = usr
  BY <1>2
<1> QED BY <1>4, <1>5 DEF Hears

-----------------------------------------------------------------------------
(* One lemma per kind of step. *)

LEMMA EndTells ==
    ASSUME TInv, NEW x \in Servers, NEW y \in Servers,
           Crash(x) \/ SquitSelf(x) \/ ReceiveSquitSelf(x, y)
    PROVE  Informed'
<1>1. queue \in Queues
  BY DEF TInv, IInv, TypeOK, Queues
<1>2. <<SQUITof(x)>> \in Seq(Msg)
  BY ToSetSmall, MessagesTyped
<1>3. Ended(x) /\ UNCHANGED <<parent, heirs, srv, usr>>
  BY DEF Crash, SquitSelf, ReceiveSquitSelf
<1>4. ASSUME NEW s \in Servers, NEW r \in Servers, s # x, r # x PROVE queue'[s][r] = queue[s][r]
  <2>1. CASE queue' = Unread(queue, x, Servers)
    BY <1>1, <1>4, <2>1, UnreadEffect
  <2>2. ASSUME NEW S, queue' = Unread(Sent(queue, x, S, <<SQUITof(x)>>), x, Servers)
        PROVE  queue'[s][r] = queue[s][r]
    <3> DEFINE ms == <<SQUITof(x)>>
               q == Sent(queue, x, S, ms)
    <3>0. ms \in Seq(Msg)
      BY <1>2
    <3> HIDE DEF ms
    <3>1. q \in Queues /\ q[s][r] = queue[s][r]
      BY <1>1, <1>4, <3>0, SentEffect
    <3>2. queue' = Unread(q, x, Servers)
      BY <2>2 DEF ms
    <3> HIDE DEF q
    <3> QED BY <1>4, <3>1, <3>2, UnreadEffect
  <2> QED BY <2>1, <2>2 DEF Crash, SquitSelf, ReceiveSquitSelf
<1> QED BY <1>3, <1>4, EndedTells

LEMMA HangUpTells ==
    ASSUME TInv, NEW x \in Servers, NEW y \in Servers, HangUp(x, y)
    PROVE  Informed'
<1> DEFINE S == IF srv[x][y] = y THEN Others(x, y) ELSE {}
           q == Unread(queue, x, {y})
           ms == <<SQUITof(y)>>
<1>1. LinkRemoved(x, y) /\ queue' = Sent(q, x, S, ms) /\ UNCHANGED <<status, parent, heirs, usr>>
  BY DEF HangUp
<1>2. /\ \A b \in Servers : open'[b] \subseteq open[b]
      /\ \A a, b \in Servers : a \in open'[b] /\ srv[b][a] = a => srv'[b][a] = a
      /\ \A a, b \in Servers : srv'[b][a] = a => srv[b][a] = a
      /\ y \notin open'[x]
  BY <1>1, LinkRemovedKeeps DEF TInv
<1>3. ms \in Seq(Msg) /\ \A m \in ToSet(ms) : ~About(m)
  BY ToSetSmall, MessagesTyped
<1>4. q \in Queues /\ \A a, b \in Servers : q[a][b] = IF a \in {y} /\ b = x THEN <<>> ELSE queue[a][b]
  <2>1. queue \in Queues
    BY DEF TInv, IInv, TypeOK, Queues
  <2> QED BY <2>1, UnreadEffect
<1> HIDE DEF S, q, ms
<1>5. ASSUME NEW a \in Servers, NEW b \in Servers, a \in open'[b], NEW u \in Users, NEW k \in BOOLEAN
      PROVE  Heard(queue'[a][b], u, k) <=> Heard(queue[a][b], u, k)
  <2>1. q[a][b] = queue[a][b]
    BY <1>2, <1>4, <1>5
  <2>2. SameWords(Sent(q, x, S, ms), q)
    BY <1>3, <1>4, SentUnheard
  <2> QED BY <1>1, <2>1, <2>2 DEF SameWords
<1> QED BY <1>1, <1>2, <1>5, ClosedTells

\* z is removed at x, which has sent what is about nobody.
LEMMA RemovalTells ==
    ASSUME TInv, NEW x \in Servers, NEW z \in Servers, ServerRemoved(x, z), srv[x][z] # None,
           NEW q \in Queues, queue' = IF srv[x][z] = z THEN Unread(q, x, {z}) ELSE q,
           UNCHANGED <<status, parent, heirs, usr>>,
           SameWords(q, queue)
    PROVE  Informed'
<1>1. /\ \A b \in Servers : open'[b] \subseteq open[b]
      /\ \A a, b \in Servers : a \in open'[b] /\ srv[b][a] = a => srv'[b][a] = a
      /\ \A a, b \in Servers : srv'[b][a] = a => srv[b][a] = a
      /\ srv[x][z] = z => z \notin open'[x]
  BY ServerRemovedKeeps DEF TInv
<1>2. \A a, b \in Servers : a \in open'[b] => queue'[a][b] = q[a][b]
  BY <1>1, UnreadEffect
<1>3. \A a, b \in Servers : a \in open'[b] =>
          \A u \in Users : \A k \in BOOLEAN : Heard(queue'[a][b], u, k) <=> Heard(queue[a][b], u, k)
  <2> SUFFICES ASSUME NEW a \in Servers, NEW b \in Servers, a \in open'[b],
                      NEW u \in Users, NEW k \in BOOLEAN
               PROVE  Heard(queue'[a][b], u, k) <=> Heard(queue[a][b], u, k)
    OBVIOUS
  <2>1. queue'[a][b] = q[a][b]
    BY <1>2
  <2>2. Heard(q[a][b], u, k) <=> Heard(queue[a][b], u, k)
    BY DEF SameWords
  <2> QED BY <2>1, <2>2
<1>4. UNCHANGED <<status, parent, heirs, usr>>
  OBVIOUS
<1> HIDE DEF ServerRemoved
<1> QED BY <1>1, <1>3, <1>4, ClosedTells

LEMMA SquitTells ==
    ASSUME TInv, NEW x \in Servers, NEW y \in Servers, SQUIT(x, y) \/ ReceiveSquit(x, y)
    PROVE  Informed'
<1>0. queue \in Queues
  BY DEF TInv, IInv, TypeOK, Queues
<1>1. CASE SQUIT(x, y)
  <2> DEFINE S == {srv[x][y]}
             ms == <<SQUITof(y)>>
             q == Sent(queue, x, S, ms)
  <2>1. ms \in Seq(Msg) /\ \A m \in ToSet(ms) : ~About(m)
    BY ToSetSmall, MessagesTyped
  <2>2. /\ srv[x][y] # None /\ ServerRemoved(x, y)
        /\ queue' = IF srv[x][y] = y THEN Unread(q, x, {y}) ELSE q
        /\ UNCHANGED <<status, parent, heirs, usr>>
    BY <1>1 DEF SQUIT
  <2> HIDE DEF S, ms
  <2>3. /\ q \in Queues
        /\ SameWords(q, queue)
    BY <1>0, <2>1, SentEffect, SentUnheard
  <2> HIDE DEF q
  <2> QED BY <2>2, <2>3, RemovalTells
<1>2. CASE ReceiveSquit(x, y)
  <2> DEFINE z == Head(queue[y][x]).who
             S == Others(x, y)
             ms == <<SQUITof(z)>>
             t == Taken(x, y)
             q == Sent(t, x, S, ms)
  <2>1. Receives(x, y, "SQUIT") /\ UNCHANGED <<status, parent, heirs, usr>>
    BY <1>2 DEF ReceiveSquit
  <2>2. queue[y][x] # <<>> /\ ~About(Head(queue[y][x])) /\ z \in Servers
    BY <2>1, HeadIs DEF TInv, Receives, Arrives, About
  <2>3. ms \in Seq(Msg) /\ \A m \in ToSet(ms) : ~About(m)
    BY <2>2, ToSetSmall, MessagesTyped
  <2>4. /\ t \in Queues
        /\ SameWords(t, queue)
    BY <1>0, <2>2, TakenEffect, TakenUnheard
  <2> HIDE DEF S, ms, t
  <2>5. /\ q \in Queues
        /\ SameWords(q, t)
    BY <2>3, <2>4, SentEffect, SentUnheard
  <2>6. CASE srv[x][z] = None
    <3>1. queue' = t /\ UNCHANGED <<srv, open>>
      BY <1>2, <2>6 DEF ReceiveSquit, t
    <3>2. \A a, b \in Servers : \A u \in Users : \A k \in BOOLEAN :
              Heard(queue'[a][b], u, k) <=> Heard(queue[a][b], u, k)
      BY <2>4, <3>1 DEF SameWords
    <3> QED BY <2>1, <3>1, <3>2, ClosedTells
  <2>7. CASE srv[x][z] # None
    <3>1. ServerRemoved(x, z) /\ queue' = IF srv[x][z] = z THEN Unread(q, x, {z}) ELSE q
      BY <1>2, <2>7 DEF ReceiveSquit, t, S, ms
    <3>2. SameWords(q, queue)
      BY <2>4, <2>5 DEF SameWords
    <3> HIDE DEF q, z
    <3> QED BY <2>1, <2>2, <2>5, <2>7, <3>1, <3>2, RemovalTells
  <2> QED BY <2>6, <2>7
<1> QED BY <1>1, <1>2

LEMMA ReceiveServerTells ==
    ASSUME TInv, NEW x \in Servers, NEW y \in Servers, ReceiveServer(x, y)
    PROVE  Informed'
<1> DEFINE z == Head(queue[y][x]).who
           S == Others(x, y)
           ms == <<SERVERof(z)>>
           t == Taken(x, y)
<1>1. /\ Receives(x, y, "SERVER") /\ srv[x][y] = y
      /\ queue' = Sent(t, x, S, ms)
      /\ srv' = IF srv[x][z] = None THEN [srv EXCEPT ![x][z] = y] ELSE srv
      /\ UNCHANGED <<status, parent, heirs, open, usr>>
  BY DEF ReceiveServer, Receives
<1>2. queue \in Queues /\ queue[y][x] # <<>> /\ ~About(Head(queue[y][x])) /\ z \in Servers
      /\ srv \in [Servers -> [Servers -> Servers \cup {None}]]
  BY <1>1, HeadIs DEF TInv, IInv, TypeOK, Queues, Receives, Arrives, About
<1>3. ms \in Seq(Msg) /\ \A m \in ToSet(ms) : ~About(m)
  BY <1>2, ToSetSmall, MessagesTyped
<1>4. t \in Queues
  BY <1>2, TakenEffect
<1>5. SameWords(t, queue)
  BY <1>2, TakenUnheard
<1> HIDE DEF S, ms, t, z
<1>6. SameWords(queue', t)
  BY <1>1, <1>3, <1>4, SentUnheard
<1>8. \A a, b \in Servers : \A u \in Users : \A k \in BOOLEAN :
         Heard(queue'[a][b], u, k) <=> Heard(queue[a][b], u, k)
  BY <1>5, <1>6 DEF SameWords
<1>7. \A a, b \in Servers : srv'[b][a] = a <=> srv[b][a] = a
  BY <1>1, <1>2, NoneAssumption
<1> QED BY <1>1, <1>7, <1>8, ClosedTells

\* Who has read what is not there is not spoken of any more.
LEMMA BeyondTells ==
    ASSUME TInv, NEW x \in Servers, NEW y \in Servers, ReadsBeyond(x), UNCHANGED <<parent, heirs, open, srv, usr>>,
           queue[y][x] # <<>>, queue' = Taken(x, y)
    PROVE  Informed'
<1> SUFFICES ASSUME NEW s \in Servers, NEW r \in Servers, Linked(s, r)'
             PROVE  Linked(s, r) /\ \A u \in Users : Hears(s, r, u)' <=> Hears(s, r, u)
  BY SameHeard
<1>1. \A z \in Servers : status'[z] = IF z = x THEN "undefined" ELSE status[z]
  BY DEF ReadsBeyond, TInv, IInv, TypeOK
<1>2. s # x /\ r # x
  BY <1>1 DEF Linked, Running
<1>3. Linked(s, r)
  BY <1>1, <1>2 DEF Linked, Running
<1>4. queue'[s][r] = queue[s][r]
  BY <1>2, TakenEffect DEF TInv, IInv, TypeOK, Queues
<1> QED BY <1>3, <1>4 DEF Hears

-----------------------------------------------------------------------------
(* New links and introductions. *)

\* A new link begins with no word about anybody, or is not Truthful.
LEMMA LinkToTells ==
    ASSUME TInv, NEW x \in Servers, NEW p \in Servers, NEW ms, LinkTo(x, p, ms),
           parent[x] = None, ~Under(parent, p, x), UNCHANGED <<srv, usr>>,
           ms = <<>> \/ "CONNECT" \in Commands[x],
           \A z \in Servers \ {x} : status'[z] = status[z],
           Running(x) \/ status[x] = "off"
    PROVE  Informed'
<1>0. parent \in Forests /\ open \in [Servers -> SUBSET Servers] /\ queue \in Queues /\ IInv
  BY DEF TInv, IInv, TypeOK, Forests, Queues
<1>1. p # x /\ parent[p] # x /\ ~Edge(parent, x, p) /\ ~Edge(parent, p, x)
  <2>1. p # x
    BY UnderItself
  <2>2. parent[p] # x
    BY <1>0, UnderItself, UnderParent
  <2> QED BY <2>1, <2>2, NoneAssumption DEF Edge
<1>2. /\ \A z \in Servers : parent'[z] = IF z = x THEN p ELSE parent[z]
      /\ \A a, b \in Servers : a \in open'[b] <=> a \in open[b] \/ (a = p /\ b = x) \/ (a = x /\ b = p)
      /\ \A a, b \in Servers : queue'[a][b] = IF a = x /\ b = p THEN <<SERVERof(x)>> \o ms ELSE queue[a][b]
  BY <1>0, <1>1 DEF LinkTo, Forests, Queues
<1>3. queue[p][x] = <<>> /\ srv[p][x] # x /\ \A u \in Users : usr[x][u] # p /\ usr[p][u] # x
  BY <1>0, <1>1, TowardIsEdge DEF IInv, Fits, ServersFit, UsersFit
<1> SUFFICES ASSUME NEW s \in Servers, NEW r \in Servers, Linked(s, r)', Truthful(s, r)', NEW u \in Users
             PROVE  InformedOf(s, r, u)'
  BY DEF Informed
<1>4. CASE s = p /\ r = x
  <2>1. queue'[s][r] = <<>> /\ usr'[r][u] # s
    BY <1>1, <1>2, <1>3, <1>4
  <2>2. Says(<<>>, u) = {}
    BY DEF Says
  <2>3. ~Hears(s, r, u)'
    BY <2>1, <2>2 DEF Hears, Heard
  <2> QED BY <1>3, <1>4, <2>3 DEF InformedOf
<1>5. CASE s = x /\ r = p
  <2>1. parent'[r] # s /\ ms = <<>>
    BY <1>1, <1>2, <1>5 DEF Truthful
  <2>2. queue'[s][r] = <<SERVERof(x)>> /\ usr'[r][u] # s
    BY <1>2, <1>3, <1>5, <2>1, ToSetSmall, MessagesTyped, ConcatEmptySeq
  <2>3. Heard(<<SERVERof(x)>>, u, FALSE) <=> FALSE
    BY MessagesTyped, HeardOne
  <2>4. (usr'[r][u] = s) = FALSE
    BY <2>2
  <2>5. ~Hears(s, r, u)'
    BY <2>2, <2>3, <2>4 DEF Hears
  <2> QED BY <2>1, <2>5 DEF InformedOf
<1>6. CASE ~(s = p /\ r = x) /\ ~(s = x /\ r = p)
  <2>1. s \in open[r] /\ r \in open[s] /\ queue'[s][r] = queue[s][r]
    BY <1>2, <1>6 DEF Linked
  <2>2. Edge(parent, s, r)
    BY <1>0, <2>1 DEF IInv, ServersFit
  <2>3. status[s] # "off" /\ status[r] # "off"
    BY <1>0, <2>2, NoneAssumption DEF IInv, Started, Edge
  <2>4. Linked(s, r)
    BY <2>1, <2>3 DEF Linked, Running
  <2>5. Truthful(s, r) /\ (parent'[r] = s <=> parent[r] = s)
    BY <1>2, <1>6, NoneAssumption DEF Truthful
  <2>6. InformedOf(s, r, u)
    BY <2>4, <2>5 DEF TInv, Informed
  <2>7. Hears(s, r, u)' <=> Hears(s, r, u)
    BY <2>1 DEF Hears
  <2>8. r \notin heirs'[s] => r \notin heirs[s]
    BY <1>0, HeirsStay DEF IInv
  <2> QED BY <2>5, <2>6, <2>7, <2>8 DEF InformedOf
<1> QED BY <1>4, <1>5, <1>6

LEMMA StartTells ==
    ASSUME TInv, NEW x \in Servers, Start(x)
    PROVE  Informed'
<1>1. /\ status[x] = "off" /\ UNCHANGED <<srv, usr>>
      /\ \A z \in Servers \ {x} : status'[z] = status[z]
  BY DEF Start, TInv, IInv, TypeOK
<1>2. CASE UNCHANGED <<parent, heirs, open, queue>>
  <2> SUFFICES ASSUME NEW s \in Servers, NEW r \in Servers, Linked(s, r)'
               PROVE  Linked(s, r)
    BY <1>1, <1>2, SameHeard DEF Hears
  <2>1. s \in open[r] /\ r \in open[s]
    BY <1>2 DEF Linked
  <2>2. Edge(parent, s, r)
    BY <2>1 DEF TInv, IInv, ServersFit
  <2>3. status[s] # "off" /\ status[r] # "off"
    BY <2>2, NoneAssumption DEF TInv, IInv, Started, Edge
  <2> QED BY <1>1, <2>1, <2>3 DEF Linked, Running
<1>3. ASSUME NEW p \in Servers, Running(p), LinkTo(x, p, <<>>) PROVE Informed'
  <2>1. parent \in Forests /\ parent[x] = None /\ p # x
    BY <1>1, <1>3 DEF TInv, IInv, TypeOK, Started, Running, Forests
  <2>2. ~Under(parent, p, x)
    <3>1. p \in Servers \ {x} /\ ClosedUp(parent, Servers \ {x})
      BY <1>1, <2>1 DEF ClosedUp, TInv, IInv, Started, Forests
    <3> QED BY <3>1 DEF Under
  <2> QED BY <1>1, <1>3, <2>1, <2>2, LinkToTells
<1> QED BY <1>2, <1>3 DEF Start

LEMMA CONNECTTells ==
    ASSUME TInv, NEW x \in Servers, NEW p \in Servers, CONNECT(x, p)
    PROVE  Informed'
<1> DEFINE ms == ServersInfo(x, p) \o ClientsInfo(x)
<1>1. /\ LinkTo(x, p, ms) /\ parent[x] = None /\ NotUnder(p, x) /\ UNCHANGED <<status, srv, usr>>
      /\ Running(x) /\ "CONNECT" \in Commands[x]
  BY DEF CONNECT, Takes
<1>2. ~Under(parent, p, x)
  BY <1>1 DEF NotUnder, Under, ClosedUp
<1> HIDE DEF ms
<1> QED BY <1>1, <1>2, LinkToTells

\* The introduction speaks once of everybody who is known.
LEMMA ClientsInfoHeard ==
    ASSUME TypeOK, NEW x \in Servers, NEW u \in Users
    PROVE  Heard(ClientsInfo(x), u, FALSE) <=> usr[x][u] # None
<1> DEFINE ci == ClientsInfo(x)
<1>1. /\ ci \in Seq(Msg) /\ \A i, j \in DOMAIN ci : ci[i] = ci[j] => i = j
      /\ ToSet(ci) = {NICKof(v, Reads(x, v)) : v \in {w \in Users : usr[x][w] # None}}
  BY InfoIs DEF IsInjective
<1> HIDE DEF ci
<1>2. \A v \in Users : NICKof(v, Reads(x, v)).who = v /\ NICKof(v, Reads(x, v)).type = "NICK"
  BY DEF NICKof
<1>3. \A i \in DOMAIN ci : \E v \in Users : usr[x][v] # None /\ ci[i] = NICKof(v, Reads(x, v))
  <2>1. \A i \in DOMAIN ci : ci[i] \in ToSet(ci)
    BY DEF ToSet
  <2> QED BY <1>1, <2>1
<1>4. CASE usr[x][u] = None
  <2>1. Says(ci, u) = {}
    BY <1>2, <1>3, <1>4 DEF Says
  <2> QED BY <1>4, <2>1 DEF Heard, ci
<1>5. CASE usr[x][u] # None
  <2>1. PICK i \in DOMAIN ci : ci[i] = NICKof(u, Reads(x, u))
    <3>1. NICKof(u, Reads(x, u)) \in ToSet(ci)
      BY <1>1, <1>5
    <3> QED BY <3>1 DEF ToSet
  <2>2. i \in Nat /\ i \in Says(ci, u) /\ ci[i].type = "NICK"
    <3>1. i \in Nat
      BY <1>1, LenProperties
    <3> QED BY <1>2, <2>1, <3>1 DEF Says
  <2>3. ASSUME NEW j \in Says(ci, u) PROVE j = i
    <3>1. j \in DOMAIN ci /\ ci[j].who = u
      BY DEF Says
    <3>2. ci[j] = NICKof(u, Reads(x, u))
      BY <1>2, <1>3, <3>1
    <3> QED BY <1>1, <2>1, <3>1, <3>2
  <2>4. \E l \in Says(ci, u) : ci[l].type = "NICK" /\ \A j \in Says(ci, u) : j <= l
    BY <2>2, <2>3
  <2> QED BY <1>5, <2>2, <2>4 DEF Heard, ci
<1> QED BY <1>4, <1>5

LEMMA IntroductionHeard ==
    ASSUME TypeOK, NEW x \in Servers, NEW y \in Servers, NEW u \in Users
    PROVE  LET ms == <<SERVERof(x)>> \o (ServersInfo(x, y) \o ClientsInfo(x)) IN
           ms \in Seq(Msg) /\ (Heard(ms, u, FALSE) <=> usr[x][u] # None)
<1> DEFINE si == ServersInfo(x, y)
           ci == ClientsInfo(x)
           hello == <<SERVERof(x)>>
           rest == si \o ci
<1>1. /\ si \in Seq(Msg) /\ \A m \in ToSet(si) : ~About(m)
      /\ ci \in Seq(Msg) /\ hello \in Seq(Msg) /\ \A m \in ToSet(hello) : ~About(m)
      /\ Heard(ci, u, FALSE) <=> usr[x][u] # None
  BY InfoIs, ToSetSmall, MessagesTyped, ClientsInfoHeard
<1> HIDE DEF si, ci, hello
<1>2. rest \in Seq(Msg) /\ (Heard(rest, u, FALSE) <=> Heard(ci, u, Heard(si, u, FALSE)))
  BY <1>1, ToSetConcat, HeardConcat
<1>3. Heard(si, u, FALSE) = FALSE /\ Heard(hello, u, FALSE) = FALSE
  BY <1>1, HeardNothing DEF Heard
<1>4. Heard(rest, u, FALSE) <=> usr[x][u] # None
  BY <1>1, <1>2, <1>3
<1> HIDE DEF rest
<1>5. hello \o rest \in Seq(Msg) /\ (Heard(hello \o rest, u, FALSE) <=> Heard(rest, u, Heard(hello, u, FALSE)))
  BY <1>1, <1>2, ToSetConcat, HeardConcat
<1>6. Heard(hello \o rest, u, FALSE) <=> usr[x][u] # None
  BY <1>3, <1>4, <1>5
<1> QED BY <1>5, <1>6 DEF hello, rest, si, ci

LEMMA ReceiveStrayTells ==
    ASSUME TInv, NEW x \in Servers, NEW y \in Servers, ReceiveStray(x, y)
    PROVE  Informed'
BY BeyondTells DEF ReceiveStray, ReadsBeyond, Arrives

LEMMA ReceiveRegistrationTells ==
    ASSUME TInv, NEW x \in Servers, NEW y \in Servers, ReceiveRegistration(x, y)
    PROVE  Informed'
<1> DEFINE ms == <<SERVERof(x)>> \o (ServersInfo(x, y) \o ClientsInfo(x))
           news == <<SERVERof(y)>>
           t == Taken(x, y)
           S == Others(x, y)
           told == Sent(t, x, {y}, ms)
           all == Sent(told, x, S, news)
<1>0. TypeOK /\ IInv
  BY DEF TInv, IInv
<1>1. /\ Arrives(x, y) /\ Head(queue[y][x]) = SERVERof(y) /\ srv[x][y] = None
      /\ srv' = [srv EXCEPT ![x][y] = y] /\ UNCHANGED <<status, parent, heirs, open, usr>>
      /\ queue' = IF y \in ByParentFd(x) THEN t ELSE all
  <2>1. <<SERVERof(x)>> \in Seq(Msg)
    BY ToSetSmall, MessagesTyped
  <2>2. ServersInfo(x, y) \in Seq(Msg) /\ ClientsInfo(x) \in Seq(Msg)
    BY <1>0, InfoIs
  <2>3. ms = <<SERVERof(x)>> \o ServersInfo(x, y) \o ClientsInfo(x)
    BY <2>1, <2>2, ConcatAssociative
  <2> QED BY <2>3 DEF ReceiveRegistration
<1>2. /\ queue \in Queues /\ queue[y][x] # <<>> /\ ~About(Head(queue[y][x]))
      /\ \A a, b \in Servers : srv'[b][a] = IF b = x /\ a = y THEN y ELSE srv[b][a]
  BY <1>0, <1>1 DEF TypeOK, Queues, Arrives, About, SERVERof
<1>3. ms \in Seq(Msg) /\ \A u \in Users : Heard(ms, u, FALSE) <=> usr[x][u] # None
  BY <1>0, IntroductionHeard, InfoIs, ToSetConcat, ToSetSmall, MessagesTyped
<1>4. news \in Seq(Msg) /\ \A m \in ToSet(news) : ~About(m)
  BY ToSetSmall, MessagesTyped
<1>5. t \in Queues /\ SameWords(t, queue)
  BY <1>2, TakenEffect, TakenUnheard
<1>6. \A u \in Users : usr[x][u] # y
  <2>1. y \in open[x] /\ srv[x][y] # y
    BY <1>1, NoneAssumption DEF Receives, Arrives
  <2> QED BY <1>0, <2>1 DEF IInv, LinksRegistered
<1> HIDE DEF ms, news, t, S
<1>7. /\ told \in Queues
      /\ \A a, b \in Servers : told[a][b] = IF a = x /\ b \in {y} /\ x \in open[b] THEN t[a][b] \o ms ELSE t[a][b]
  BY <1>3, <1>5, SentEffect
<1> HIDE DEF told
<1>8. SameWords(all, told)
  BY <1>4, <1>7, SentUnheard
<1> HIDE DEF all
<1> SUFFICES ASSUME NEW s \in Servers, NEW r \in Servers, Linked(s, r)', Truthful(s, r)', NEW u \in Users
             PROVE  InformedOf(s, r, u)'
  BY DEF Informed
<1>9. Linked(s, r) /\ Truthful(s, r) /\ InformedOf(s, r, u) /\ s \in open[r]
  BY <1>1 DEF Linked, Running, Truthful, TInv, Informed
<1>10. CASE ~(s = x /\ r = y)
  <2>1. Heard(queue'[s][r], u, usr[r][u] = s) <=> Heard(queue[s][r], u, usr[r][u] = s)
    <3>1. told[s][r] = t[s][r]
      BY <1>7, <1>10
    <3> QED BY <1>1, <1>5, <1>8, <3>1 DEF SameWords
  <2>2. Hears(s, r, u)' <=> Hears(s, r, u)
    BY <1>1, <2>1 DEF Hears
  <2> QED BY <1>1, <1>2, <1>9, <1>10, <2>2 DEF InformedOf
<1>11. CASE s = x /\ r = y /\ y \in ByParentFd(x)
  <2>1. Heard(queue'[s][r], u, usr[r][u] = s) <=> Heard(queue[s][r], u, usr[r][u] = s)
    BY <1>1, <1>5, <1>11 DEF SameWords
  <2>2. ~Hears(s, r, u)
    BY <1>1, <1>9, <1>11, NoneAssumption DEF InformedOf
  <2>3. ~Hears(s, r, u)'
    BY <1>1, <2>1, <2>2 DEF Hears
  <2>4. parent[y] # x \/ y \in heirs[x]
    <3>1. y = parent[x] => parent[y] # x
      BY <1>0, UnderItself, UnderParent, NoneAssumption DEF IInv, TypeOK, Acyclic, Forests
    <3> QED BY <1>11, <3>1 DEF ByParentFd
  <2> QED BY <1>1, <1>11, <2>3, <2>4 DEF InformedOf
<1>12. CASE s = x /\ r = y /\ y \notin ByParentFd(x)
  <2>1. told[x][y] = t[x][y] \o ms
    BY <1>7, <1>9, <1>12
  <2>2. (usr[y][u] = x) \in BOOLEAN /\ t[x][y] \in Seq(Msg)
    BY <1>5 DEF Queues
  <2>3. Heard(t[x][y] \o ms, u, usr[y][u] = x) <=> Heard(ms, u, Heard(t[x][y], u, usr[y][u] = x))
    BY <1>3, <2>2, HeardConcat
  <2>4. ~Hears(x, y, u)
    BY <1>1, <1>9, <1>12, NoneAssumption DEF InformedOf
  <2>5. Heard(t[x][y], u, usr[y][u] = x) = FALSE
    BY <1>5, <2>2, <2>4 DEF Hears, Heard, SameWords
  <2>6. Heard(all[x][y], u, usr[y][u] = x) <=> usr[x][u] # None
    <3>1. Heard(all[x][y], u, usr[y][u] = x) <=> Heard(told[x][y], u, usr[y][u] = x)
      BY <1>8, <2>2 DEF SameWords
    <3>2. Heard(told[x][y], u, usr[y][u] = x) <=> Heard(ms, u, FALSE)
      BY <2>1, <2>3, <2>5
    <3> QED BY <1>3, <3>1, <3>2
  <2>7. Hears(s, r, u)' <=> usr[x][u] # None
    BY <1>1, <1>12, <2>6 DEF Hears
  <2>8. srv'[s][r] = r /\ usr' = usr /\ usr[x][u] # y
    BY <1>1, <1>2, <1>6, <1>12
  <2> QED BY <1>12, <2>7, <2>8, NoneAssumption DEF InformedOf, Local
<1> QED BY <1>10, <1>11, <1>12

-----------------------------------------------------------------------------
(* Users come and go. *)

\* m is sent to S.
LEMMA OneHeard ==
    ASSUME NEW q \in Queues, NEW x \in Servers, NEW S, NEW m \in Msg,
           NEW s \in Servers, NEW r \in Servers, NEW u \in Users, NEW k \in BOOLEAN
    PROVE  Heard(Sent(q, x, S, <<m>>)[s][r], u, k) <=>
             IF s = x /\ r \in S /\ x \in open[r] /\ About(m) /\ m.who = u THEN m.type = "NICK"
             ELSE Heard(q[s][r], u, k)
<1> DEFINE ms == <<m>>
           q1 == Sent(q, x, S, ms)[s][r]
           q0 == q[s][r]
<1>1. ms \in Seq(Msg) /\ q0 \in Seq(Msg)
  BY ToSetSmall DEF Queues
<1>2. Heard(q0, u, k) \in BOOLEAN
  BY DEF Heard
<1>3. Heard(ms, u, Heard(q0, u, k)) <=> IF About(m) /\ m.who = u THEN m.type = "NICK" ELSE Heard(q0, u, k)
  BY <1>2, HeardOne
<1> HIDE DEF ms
<1>4. q1 = IF s = x /\ r \in S /\ x \in open[r] THEN q0 \o ms ELSE q0
  BY <1>1, SentEffect
<1> HIDE DEF q1, q0
<1>5. Heard(q0 \o ms, u, k) <=> Heard(ms, u, Heard(q0, u, k))
  BY <1>1, HeardConcat
<1>6. Heard(q1, u, k) <=>
         IF s = x /\ r \in S /\ x \in open[r] /\ About(m) /\ m.who = u THEN m.type = "NICK"
         ELSE Heard(q0, u, k)
  <2>1. CASE s = x /\ r \in S /\ x \in open[r]
    BY <1>3, <1>4, <1>5, <2>1
  <2>2. CASE ~(s = x /\ r \in S /\ x \in open[r])
    BY <1>4, <2>2
  <2> QED BY <2>1, <2>2
<1> QED BY <1>6 DEF q1, q0, ms

\* A server has no link to itself.
LEMMA NoLoop ==
    ASSUME IInv, NEW s \in Servers, NEW r \in Servers, Linked(s, r)
    PROVE  s # r
<1>1. Edge(parent, s, r)
  BY DEF IInv, ServersFit, Linked
<1>2. ~Edge(parent, s, s)
  BY UnderItself, NoneAssumption DEF IInv, TypeOK, Edge, Acyclic
<1> QED BY <1>1, <1>2

\* USER, QUIT and NICK of a client w, that is v from now on: m says so.
LEMMA ClientTells ==
    ASSUME TInv, NEW w \in Users, NEW x \in Servers, NEW v \in Local \cup {None},
           usr[x][w] \in Local \cup {None}, NEW m \in Msg,
           \/ About(m) /\ m.who = w /\ m.type = "NICK" /\ v # None
           \/ About(m) /\ m.who = w /\ m.type = "QUIT" /\ v # "full"
           \/ ~About(m) /\ v # "full" /\ v # None,
           usr' = [usr EXCEPT ![x][w] = v],
           queue' = Sent(queue, x, Direct(x), <<m>>),
           UNCHANGED <<status, parent, heirs, open, srv>>
    PROVE  Informed'
<1>1. /\ queue \in Queues /\ IInv
      /\ \A a \in Servers : \A u \in Users : usr'[a][u] = IF a = x /\ u = w THEN v ELSE usr[a][u]
  BY DEF TInv, IInv, TypeOK, Queues
<1> SUFFICES ASSUME NEW s \in Servers, NEW r \in Servers, Linked(s, r)', Truthful(s, r)', NEW u \in Users
             PROVE  InformedOf(s, r, u)'
  BY DEF Informed
<1>2. Linked(s, r) /\ Truthful(s, r) /\ InformedOf(s, r, u) /\ s \in open[r] /\ s # r
  <2>1. Linked(s, r) /\ Truthful(s, r)
    BY DEF Linked, Running, Truthful
  <2> QED BY <1>1, <2>1, NoLoop DEF TInv, Informed, Linked
<1>3. (usr'[r][u] = s) = (usr[r][u] = s)
  BY <1>1, NoneAssumption
<1>5. Hears(s, r, u)' <=>
         IF s = x /\ r \in Direct(x) /\ x \in open[r] /\ About(m) /\ m.who = u THEN m.type = "NICK"
         ELSE Hears(s, r, u)
  <2> DEFINE k == usr[r][u] = s
  <2>0. k \in BOOLEAN
    OBVIOUS
  <2> HIDE DEF k
  <2>1. Heard(Sent(queue, x, Direct(x), <<m>>)[s][r], u, k) <=>
         IF s = x /\ r \in Direct(x) /\ x \in open[r] /\ About(m) /\ m.who = u THEN m.type = "NICK"
         ELSE Heard(queue[s][r], u, k)
    BY <1>1, <2>0, OneHeard
  <2> QED BY <1>3, <2>1 DEF Hears, k
<1>6. CASE s = x /\ u = w /\ srv[x][r] = r
  <2>1. r \in Direct(x) /\ x \in open[r]
    BY <1>2, <1>6 DEF Direct
  <2>2. usr'[s][u] = v /\ v # r /\ v \notin Servers
    BY <1>1, <1>6, NoneAssumption
  <2> QED BY <1>2, <1>5, <1>6, <2>1, <2>2 DEF InformedOf
<1>7. CASE s = x /\ u = w /\ srv[x][r] # r
  <2>1. ~Hears(s, r, u)'
    BY <1>2, <1>5, <1>7 DEF InformedOf, Direct
  <2> QED BY <1>7, <2>1 DEF InformedOf
<1>8. CASE ~(s = x /\ u = w)
  <2>1. usr'[s][u] = usr[s][u]
    BY <1>1, <1>8
  <2>2. Hears(s, r, u)' <=> Hears(s, r, u)
    BY <1>5, <1>8
  <2> QED BY <1>2, <2>1, <2>2 DEF InformedOf
<1> QED BY <1>6, <1>7, <1>8

LEMMA LocalNickTells ==
    ASSUME TInv, NEW w \in Users, LocalNick(w)
    PROVE  Informed'
<1> DEFINE x == Home[w]
<1>1. x \in Servers /\ usr[x][w] = None
  BY HomeAssumption DEF LocalNick
<1>2. /\ UNCHANGED <<status, parent, heirs, open, srv, queue>>
      /\ \A a \in Servers : \A u \in Users : usr'[a][u] = IF a = x /\ u = w THEN "half" ELSE usr[a][u]
  BY <1>1 DEF LocalNick, TInv, IInv, TypeOK
<1> HIDE DEF x
<1> SUFFICES ASSUME NEW s \in Servers, NEW r \in Servers, Linked(s, r)', Truthful(s, r)', NEW u \in Users
             PROVE  InformedOf(s, r, u)'
  BY DEF Informed
<1>3. InformedOf(s, r, u)
  <2>1. Linked(s, r) /\ Truthful(s, r)
    BY <1>2 DEF Linked, Running, Truthful
  <2> QED BY <2>1 DEF TInv, Informed
<1>4. (usr'[r][u] = s) = (usr[r][u] = s)
  BY <1>1, <1>2, NoneAssumption DEF Local
<1>5. Hears(s, r, u)' <=> Hears(s, r, u)
  BY <1>2, <1>4 DEF Hears
<1>6. "half" \notin Servers \cup {"full"}
  BY NoneAssumption DEF Local
<1> QED BY <1>1, <1>2, <1>3, <1>5, <1>6 DEF InformedOf

LEMMA UserStepTells ==
    ASSUME TInv, NEW u \in Users, UserStep(u)
    PROVE  Informed'
<1>0. Home[u] \in Servers /\ {"half", "full", "renamed"} = Local
  BY HomeAssumption DEF Local
<1>1. CASE LocalUser(u)
  <2> DEFINE m == NICKof(u, IF Words[u] > 1 THEN 2 ELSE 1)
  <2>0. m \in Msg
    BY MessagesTyped
  <2>1. m.who = u /\ m.type = "NICK" /\ About(m)
    BY DEF NICKof, About
  <2>2. "full" \in Local \cup {None} /\ "full" # None /\ usr[Home[u]][u] \in Local \cup {None}
    BY <1>1, NoneAssumption DEF Local, LocalUser
  <2>3. /\ usr' = [usr EXCEPT ![Home[u]][u] = "full"]
        /\ queue' = Sent(queue, Home[u], Direct(Home[u]), <<m>>) /\ UNCHANGED <<status, parent, heirs, open, srv>>
    BY <1>1 DEF LocalUser
  <2> HIDE DEF m
  <2> QED BY <1>0, <2>0, <2>1, <2>2, <2>3, ClientTells
<1>2. CASE LocalQuit(u)
  <2>1. QUITof(u) \in Msg /\ About(QUITof(u)) /\ QUITof(u).who = u /\ QUITof(u).type = "QUIT"
    BY MessagesTyped DEF QUITof, About
  <2>2. None \in Local \cup {None} /\ None # "full" /\ usr[Home[u]][u] \in Local \cup {None}
    BY <1>2, NoneAssumption DEF Local, LocalQuit
  <2>3. /\ usr' = [usr EXCEPT ![Home[u]][u] = None]
        /\ queue' = Sent(queue, Home[u], Direct(Home[u]), <<QUITof(u)>>) /\ UNCHANGED <<status, parent, heirs, open, srv>>
    BY <1>2 DEF LocalQuit
  <2> QED BY <1>0, <2>1, <2>2, <2>3, ClientTells
<1>3. CASE LocalRename(u)
  <2>1. RENAMEof(u) \in Msg /\ ~About(RENAMEof(u))
    BY MessagesTyped
  <2>2. /\ "renamed" \in Local \cup {None} /\ "renamed" # "full" /\ "renamed" # None
        /\ usr[Home[u]][u] \in Local \cup {None}
    BY <1>3, NoneAssumption DEF Local, LocalRename
  <2>3. /\ usr' = [usr EXCEPT ![Home[u]][u] = "renamed"]
        /\ queue' = Sent(queue, Home[u], Direct(Home[u]), <<RENAMEof(u)>>) /\ UNCHANGED <<status, parent, heirs, open, srv>>
    BY <1>3 DEF LocalRename
  <2> QED BY <1>0, <2>1, <2>2, <2>3, ClientTells
<1> QED BY <1>1, <1>2, <1>3, LocalNickTells DEF UserStep

\* x has handled a NICK or QUIT of w, that came from y, and sent m on.
LEMMA HandledTells ==
    ASSUME TInv, NEW x \in Servers, NEW y \in Servers, queue[y][x] # <<>>, y \in open[x],
           NEW w \in Users, About(Head(queue[y][x])), Head(queue[y][x]).who = w,
           NEW m \in Msg, m.type = Head(queue[y][x]).type, m.who = w, About(m),
           usr[x][w] \in {None, y},
           usr' = [usr EXCEPT ![x][w] = IF m.type = "NICK" THEN y ELSE None],
           NEW S, S = Others(x, y) \/ (S = {} /\ m.type = "QUIT" /\ usr[x][w] = None),
           queue' = Sent(Taken(x, y), x, S, <<m>>),
           UNCHANGED <<status, parent, heirs, open, srv>>
    PROVE  Informed'
<1> DEFINE v == IF m.type = "NICK" THEN y ELSE None
           t == Taken(x, y)
           h == Head(queue[y][x])
<1>1. /\ queue \in Queues /\ queue[y][x] \in Seq(Msg) /\ IInv
      /\ \A a \in Servers : \A u \in Users : usr'[a][u] = IF a = x /\ u = w THEN v ELSE usr[a][u]
  BY DEF TInv, IInv, TypeOK, Queues
<1>2. /\ t \in Queues
      /\ \A a, b \in Servers : t[a][b] = IF a = y /\ b = x THEN Tail(queue[y][x]) ELSE queue[a][b]
  BY <1>1, TakenEffect
<1> HIDE DEF t
<1> SUFFICES ASSUME NEW s \in Servers, NEW r \in Servers, Linked(s, r)', Truthful(s, r)', NEW u \in Users
             PROVE  InformedOf(s, r, u)'
  BY DEF Informed
<1>3. Linked(s, r) /\ Truthful(s, r) /\ InformedOf(s, r, u) /\ s \in open[r] /\ s # r
  <2>1. Linked(s, r) /\ Truthful(s, r)
    BY DEF Linked, Running, Truthful
  <2> QED BY <1>1, <2>1, NoLoop DEF TInv, Informed, Linked
<1>4. Hears(s, r, u)' <=>
         IF s = x /\ r \in S /\ x \in open[r] /\ u = w THEN m.type = "NICK"
         ELSE Heard(t[s][r], u, usr'[r][u] = s)
  <2> DEFINE k == usr'[r][u] = s
  <2>1. k \in BOOLEAN
    OBVIOUS
  <2> HIDE DEF k
  <2>2. Heard(Sent(t, x, S, <<m>>)[s][r], u, k) <=>
         IF s = x /\ r \in S /\ x \in open[r] /\ About(m) /\ m.who = u THEN m.type = "NICK"
         ELSE Heard(t[s][r], u, k)
    BY <1>2, <2>1, OneHeard
  <2> QED BY <2>2 DEF Hears, t, k
<1>5. Heard(t[s][r], u, usr'[r][u] = s) <=> Hears(s, r, u)
  <2>1. CASE s = y /\ r = x
    <3> DEFINE k == usr[r][u] = s
    <3>0. k \in BOOLEAN
      OBVIOUS
    <3>1. t[s][r] = Tail(queue[y][x])
      BY <1>2, <2>1
    <3> HIDE DEF k
    <3>2. Heard(queue[y][x], u, k) <=>
             Heard(Tail(queue[y][x]), u, IF About(h) /\ h.who = u THEN h.type = "NICK" ELSE k)
      BY <1>1, <3>0, HeardTail
    <3>3. Hears(s, r, u) <=> Heard(t[s][r], u, IF About(h) /\ h.who = u THEN h.type = "NICK" ELSE usr[r][u] = s)
      BY <2>1, <3>1, <3>2 DEF Hears, k
    <3>4. (IF About(h) /\ h.who = u THEN h.type = "NICK" ELSE usr[r][u] = s) = (usr'[r][u] = s)
      BY <1>1, <2>1, NoneAssumption
    <3> HIDE DEF h
    <3> QED BY <3>3, <3>4
  <2>2. CASE ~(s = y /\ r = x)
    <3>1. t[s][r] = queue[s][r]
      BY <1>2, <2>2
    <3>2. (usr'[r][u] = s) = (usr[r][u] = s)
      BY <1>1, <2>2, NoneAssumption
    <3> QED BY <3>1, <3>2 DEF Hears
  <2> QED BY <2>1, <2>2
<1>6. CASE ~(s = x /\ u = w)
  <2>1. usr'[s][u] = usr[s][u]
    BY <1>1, <1>6
  <2>2. Hears(s, r, u)' <=> Hears(s, r, u)
    BY <1>4, <1>5, <1>6
  <2> QED BY <1>3, <2>1, <2>2 DEF InformedOf
<1>7. CASE s = x /\ u = w /\ r = y
  <2>1. ~Hears(s, r, u)
    BY <1>3, <1>7 DEF InformedOf
  <2>2. r \notin S
    BY <1>7 DEF Others
  <2>3. ~Hears(s, r, u)' /\ usr'[s][u] \in {None, r}
    BY <1>1, <1>4, <1>5, <1>7, <2>1, <2>2
  <2> QED BY <2>3, NoneAssumption DEF InformedOf, Local
<1>8. CASE s = x /\ u = w /\ r # y /\ srv[x][r] # r
  <2>1. ~Hears(s, r, u) /\ r \notin S
    BY <1>3, <1>8 DEF InformedOf, Others, Direct
  <2>2. ~Hears(s, r, u)'
    BY <1>4, <1>5, <2>1
  <2> QED BY <1>8, <2>2 DEF InformedOf
<1>9. CASE s = x /\ u = w /\ r # y /\ srv[x][r] = r
  <2>1. r \in Others(x, y) /\ x \in open[r]
    BY <1>3, <1>9 DEF Others, Direct
  <2>2. CASE m.type = "NICK"
    <3>1. Hears(s, r, u)' /\ usr'[s][u] = y
      BY <1>1, <1>4, <1>9, <2>1, <2>2
    <3> QED BY <1>9, <3>1, NoneAssumption DEF InformedOf
  <2>3. CASE m.type # "NICK"
    <3>1. ~Hears(s, r, u)'
      BY <1>3, <1>4, <1>5, <1>9, <2>1, <2>3 DEF InformedOf
    <3>2. usr'[s][u] = None
      BY <1>1, <1>9, <2>3
    <3> QED BY <3>1, <3>2, NoneAssumption DEF InformedOf, Local
  <2> QED BY <2>2, <2>3
<1> QED BY <1>6, <1>7, <1>8, <1>9

\* Who is spoken of by a link is unknown, or known by that link.
LEMMA KnownByOneLink ==
    ASSUME IInv, NEW x \in Servers, NEW y \in Servers, NEW w \in Users, Toward(parent, x, y, Home[w])
    PROVE  usr[x][w] \in {None, y}
<1>1. parent \in Forests /\ Acyclic(parent) /\ Home[w] \in Servers
      /\ usr[x][w] \in Servers \cup Local \cup {None}
  BY HomeAssumption DEF IInv, TypeOK, Forests
<1>2. usr[x][w] \notin Local
  BY <1>1, NotTowardItself DEF IInv, UsersFit
<1>3. usr[x][w] \in Servers => usr[x][w] = y
  BY <1>1, TowardUnique DEF IInv, UsersFit
<1> QED BY <1>1, <1>2, <1>3

LEMMA ReceiveUserTells ==
    ASSUME TInv, NEW x \in Servers, NEW y \in Servers,
           ReceiveNick(x, y) \/ ReceiveRename(x, y) \/ ReceiveQuit(x, y)
    PROVE  Informed'
<1> DEFINE h == Head(queue[y][x])
<1>0. IInv /\ usr \in [Servers -> [Users -> Servers \cup Local \cup {None}]]
  BY DEF TInv, IInv, TypeOK
<1>1. CASE ReceiveNick(x, y)
  <2>1. Receives(x, y, "NICK") /\ UNCHANGED <<parent, heirs, open, srv>>
    BY <1>1 DEF ReceiveNick
  <2>2. queue[y][x] # <<>> /\ y \in open[x] /\ h.type = "NICK" /\ About(h) /\ h.who \in Users
        /\ h.reads \in 0..2 /\ usr[x][h.who] \in {None, y}
    BY <1>0, <2>1, HeadIs, KnownByOneLink DEF Receives, Arrives, About
  <2>3. CASE h.reads > 0 /\ queue' = Sent(Taken(x, y), x, Others(x, y), <<NICKof(h.who, h.reads - 1)>>)
             /\ usr' = (IF usr[x][h.who] = None THEN [usr EXCEPT ![x][h.who] = y] ELSE usr)
             /\ UNCHANGED status
    <3> DEFINE m == NICKof(h.who, h.reads - 1)
    <3>1. m \in Msg /\ About(m) /\ m.who = h.who /\ m.type = h.type
      BY <2>2, <2>3 DEF NICKof, Msg, About
    <3>2. usr' = [usr EXCEPT ![x][h.who] = IF m.type = "NICK" THEN y ELSE None]
      <4>1. usr' = [usr EXCEPT ![x][h.who] = y]
        BY <1>0, <2>2, <2>3
      <4> QED BY <2>2, <3>1, <4>1
    <3>3. queue' = Sent(Taken(x, y), x, Others(x, y), <<m>>) /\ UNCHANGED <<status, parent, heirs, open, srv>>
      BY <2>1, <2>3
    <3> HIDE DEF m
    <3> QED BY <2>2, <3>1, <3>2, <3>3, HandledTells
  <2>4. CASE queue' = Taken(x, y) /\ ReadsBeyond(x) /\ UNCHANGED usr
    BY <2>1, <2>2, <2>4, BeyondTells
  <2> QED BY <1>1, <2>3, <2>4 DEF ReceiveNick
<1>2. CASE ReceiveRename(x, y)
  BY <1>2, BeyondTells DEF ReceiveRename, Receives, Arrives
<1>3. CASE ReceiveQuit(x, y)
  <2> DEFINE S == IF usr[x][h.who] = None THEN {} ELSE Others(x, y)
             m == QUITof(h.who)
  <2>1. /\ Receives(x, y, "QUIT") /\ queue' = Sent(Taken(x, y), x, S, <<m>>)
        /\ usr' = [usr EXCEPT ![x][h.who] = None] /\ UNCHANGED <<status, parent, heirs, open, srv>>
    BY <1>3 DEF ReceiveQuit
  <2>2. queue[y][x] # <<>> /\ y \in open[x] /\ h.type = "QUIT" /\ About(h) /\ h.who \in Users
        /\ usr[x][h.who] \in {None, y}
    BY <1>0, <2>1, HeadIs, KnownByOneLink DEF Receives, Arrives, About
  <2>3. m \in Msg /\ About(m) /\ m.who = h.who /\ m.type = h.type /\ m.type = "QUIT"
    BY <2>2, MessagesTyped DEF QUITof, About
  <2>4. usr' = [usr EXCEPT ![x][h.who] = IF m.type = "NICK" THEN y ELSE None]
    BY <2>1, <2>3
  <2>5. S = Others(x, y) \/ (S = {} /\ m.type = "QUIT" /\ usr[x][h.who] = None)
    BY <2>3
  <2> HIDE DEF S, m
  <2> QED BY <2>1, <2>2, <2>3, <2>4, <2>5, HandledTells
<1> QED BY <1>1, <1>2, <1>3

-----------------------------------------------------------------------------
(* The theorems. *)

LEMMA InitInformed == Init => Informed
<1> SUFFICES ASSUME Init PROVE Informed
  OBVIOUS
<1>1. \A s, r \in Servers : ~Linked(s, r)
  BY DEF Init, Linked, Running
<1> QED BY <1>1 DEF Informed

LEMMA NextTells == TInv /\ [Next]_vars => Informed'
<1> SUFFICES ASSUME TInv, [Next]_vars PROVE Informed'
  OBVIOUS
<1>1. CASE UNCHANGED vars
  <2> SUFFICES ASSUME NEW s \in Servers, NEW r \in Servers, Linked(s, r)'
               PROVE  Linked(s, r) /\ \A u \in Users : Hears(s, r, u)' <=> Hears(s, r, u)
    BY <1>1, SameHeard DEF vars
  <2> QED BY <1>1 DEF vars, Linked, Running, Hears
<1>2. ASSUME NEW u \in Users, UserStep(u) PROVE Informed'
  BY <1>2, UserStepTells
<1>3. ASSUME NEW x \in Servers, ServerStep(x) PROVE Informed'
  BY <1>3, StartTells, EndTells DEF ServerStep
<1>4. ASSUME NEW x \in Servers, NEW y \in Servers, LinkStep(x, y) PROVE Informed'
  BY <1>4, CONNECTTells, HangUpTells, SquitTells, ReceiveRegistrationTells, ReceiveStrayTells, ReceiveServerTells,
     EndTells, ReceiveUserTells DEF LinkStep
<1> QED BY <1>1, <1>2, <1>3, <1>4 DEF Next

THEOREM NetworkTells == Spec => []TInv
<1>1. Init => TInv
  BY InitInv, InitInformed DEF TInv
<1>2. TInv /\ [Next]_vars => TInv'
  BY NextKeeps, NextTells DEF TInv
<1> QED BY <1>1, <1>2, PTL DEF Spec

\* In every tree of links, a child that was registered will know by the link to
\* its parent what the parent knows, and nobody else.
THEOREM ParentsTellAll == Spec => []ParentTellsAll
<1>1. TInv => ParentTellsAll
  <2> SUFFICES ASSUME TInv, NEW c \in Servers, NEW p \in Servers, parent[c] = p, Linked(p, c), srv[p][c] = c,
                      c \notin heirs[p]
               PROVE  Introduced(p, c) \subseteq Told(c, p) /\ Told(c, p) \subseteq Known(p, c)
    BY DEF ParentTellsAll
  <2>1. \A u \in Users : InformedOf(p, c, u) /\ (u \in Told(c, p) <=> Hears(p, c, u))
    BY ToldIsHeard DEF TInv, Informed, Truthful
  <2>2. Told(c, p) \subseteq Users
    BY DEF Told
  <2> QED BY <2>1, <2>2 DEF InformedOf, Introduced, Known
<1> QED BY <1>1, NetworkTells, PTL

\* In every tree of links, a parent learns from a child that was not linked by
\* CONNECT of users that the child knows, or a QUIT is on its way.
THEOREM ChildrenTellTrue == Spec => []ChildTellsTrue
<1>1. TInv => ChildTellsTrue
  <2> SUFFICES ASSUME TInv, NEW c \in Servers, NEW p \in Servers, parent[c] = p, Linked(p, c),
                      "CONNECT" \notin Commands[c]
               PROVE  Told(p, c) \subseteq Known(c, p)
    BY DEF ChildTellsTrue
  <2>0. Linked(c, p)
    BY DEF Linked
  <2>1. \A u \in Users : InformedOf(c, p, u) /\ (u \in Told(p, c) <=> Hears(c, p, u))
    BY <2>0, ToldIsHeard DEF TInv, Informed, Truthful
  <2>2. Told(p, c) \subseteq Users
    BY DEF Told
  <2> QED BY <2>1, <2>2 DEF InformedOf, Known
<1> QED BY <1>1, NetworkTells, PTL

-----------------------------------------------------------------------------
(* What servers are told of each other: a SERVER comes from the side of the  *)
(* server it names, so that children of one server learn of each other from  *)
(* it and from nobody else.                                                  *)

OfServers(m) == m.type \in {"SERVER", "SQUIT"}

\* What a message from y to x may say of a server.
Side(par, x, y, m) ==
    /\ m.type = "SERVER" => Toward(par, x, y, m.who)
    /\ m.type = "SQUIT" => Joined(par, m.who, x)

Sides(q, par) == \A x, y \in Servers : \A m \in ToSet(q[y][x]) : Side(par, x, y, m)

\* Servers are known by the link on whose side they are.
Found(sr, par) == \A x, z \in Servers : sr[x][z] # None => Toward(par, x, sr[x][z], z)

\* A server that runs has a socket to every server it has registered.
Held == \A x \in Servers : Running(x) => Direct(x) \subseteq open[x]

\* Who has told one of its links that it has lost a child has closed the socket to that.
Gone(q, op) ==
    \A x, y, z \in Servers :
        parent[y] = x /\ z # y /\ SQUITof(y) \in ToSet(q[x][z]) => y \notin op[x]

\* Two children that x has registered, neither taken for its parent, the second
\* still linked.
Siblings(x, y, z) ==
    /\ parent[y] = x /\ parent[z] = x /\ y # z /\ {y, z} \cap heirs[x] = {}
    /\ srv[x][y] = y /\ srv[x][z] = z /\ Linked(x, z)

\* The second knows of the first, or will, or is giving it up.
ToldOf(x, y, z) ==
    \/ srv[z][y] # None
    \/ SERVERof(y) \in ToSet(queue[x][z])
    \/ SQUITof(y) \in ToSet(queue[z][x])

SiblingsTold == \A x, y, z \in Servers : Siblings(x, y, z) => ToldOf(x, y, z)

SInv ==
    /\ IInv
    /\ Sides(queue, parent)
    /\ Found(srv, parent)
    /\ Held
    /\ Gone(queue, open)
    /\ SiblingsTold

-----------------------------------------------------------------------------
(* What is in a queue. *)

LEMMA Shapes ==
    ASSUME IInv
    PROVE  /\ parent \in Forests /\ Acyclic(parent)
           /\ open \in [Servers -> SUBSET Servers] /\ queue \in Queues
           /\ srv \in [Servers -> [Servers -> Servers \cup {None}]]
BY DEF IInv, TypeOK, Forests, Queues

\* What is in a queue when x has sent ms, when the first message from y is
\* taken, and when x has closed its sockets to S.
SentHas(q, x, S, ms) ==
    \A a, b \in Servers :
        ToSet(Sent(q, x, S, ms)[a][b]) =
            IF a = x /\ b \in S /\ x \in open[b] THEN ToSet(q[a][b]) \cup ToSet(ms) ELSE ToSet(q[a][b])

TakenHas(x, y) ==
    \A a, b \in Servers :
        /\ ToSet(Taken(x, y)[a][b]) \subseteq ToSet(queue[a][b])
        /\ \A m \in ToSet(queue[a][b]) :
              m \in ToSet(Taken(x, y)[a][b]) \/ (a = y /\ b = x /\ m = Head(queue[y][x]))

UnreadHas(q, x, S) ==
    \A a, b \in Servers :
        ToSet(Unread(q, x, S)[a][b]) = IF a \in S /\ b = x THEN {} ELSE ToSet(q[a][b])

LEMMA SentContent ==
    ASSUME NEW q \in Queues, NEW x \in Servers, NEW S, NEW ms \in Seq(Msg)
    PROVE  SentHas(q, x, S, ms)
<1> SUFFICES ASSUME NEW a \in Servers, NEW b \in Servers
             PROVE  ToSet(Sent(q, x, S, ms)[a][b]) =
                      IF a = x /\ b \in S /\ x \in open[b] THEN ToSet(q[a][b]) \cup ToSet(ms)
                      ELSE ToSet(q[a][b])
  BY DEF SentHas
<1>1. q[a][b] \in Seq(Msg)
  BY DEF Queues
<1>2. Sent(q, x, S, ms)[a][b] = IF a = x /\ b \in S /\ x \in open[b] THEN q[a][b] \o ms ELSE q[a][b]
  BY SentEffect
<1>3. ToSet(q[a][b] \o ms) = ToSet(q[a][b]) \cup ToSet(ms)
  BY <1>1, ToSetConcat
<1> QED BY <1>2, <1>3

LEMMA TakenContent ==
    ASSUME queue \in Queues, NEW x \in Servers, NEW y \in Servers, queue[y][x] # <<>>
    PROVE  TakenHas(x, y)
<1> DEFINE s == queue[y][x]
<1>1. s \in Seq(Msg) /\ s # <<>>
  BY DEF Queues
<1>2. \A a, b \in Servers : Taken(x, y)[a][b] = IF a = y /\ b = x THEN Tail(s) ELSE queue[a][b]
  BY TakenEffect
<1>3. ToSet(Tail(s)) \subseteq ToSet(s) /\ ToSet(s) = {Head(s)} \cup ToSet(Tail(s))
  <2> HIDE DEF s
  <2>1. Head(s) \in Msg /\ Tail(s) \in Seq(Msg) /\ <<Head(s)>> \in Seq(Msg) /\ ToSet(<<Head(s)>>) = {Head(s)}
    BY <1>1, ToSetTail, ToSetSmall
  <2>2. s = <<Head(s)>> \o Tail(s)
    BY <1>1, HeadTailProperties
  <2> DEFINE h == <<Head(s)>>
             w == Tail(s)
  <2>3. h \in Seq(Msg) /\ w \in Seq(Msg) /\ s = h \o w /\ ToSet(h) = {Head(s)}
    BY <2>1, <2>2
  <2>4. ToSet(s) = {Head(s)} \cup ToSet(w)
    <3> HIDE DEF h, w
    <3> QED BY <2>3, ToSetConcat
  <2> QED BY <2>4
<1> SUFFICES ASSUME NEW a \in Servers, NEW b \in Servers
             PROVE  /\ ToSet(Taken(x, y)[a][b]) \subseteq ToSet(queue[a][b])
                    /\ \A m \in ToSet(queue[a][b]) :
                          m \in ToSet(Taken(x, y)[a][b]) \/ (a = y /\ b = x /\ m = Head(s))
  BY DEF TakenHas
<1>4. Taken(x, y)[a][b] = (IF a = y /\ b = x THEN Tail(s) ELSE queue[a][b])
      /\ (a = y /\ b = x => queue[a][b] = s)
  BY <1>2
<1> HIDE DEF s
<1> QED BY <1>3, <1>4

LEMMA UnreadContent ==
    ASSUME NEW q \in Queues, NEW x \in Servers, NEW S
    PROVE  UnreadHas(q, x, S)
<1> SUFFICES ASSUME NEW a \in Servers, NEW b \in Servers
             PROVE  ToSet(Unread(q, x, S)[a][b]) = IF a \in S /\ b = x THEN {} ELSE ToSet(q[a][b])
  BY DEF UnreadHas
<1>1. PICK e : e = <<>>
  OBVIOUS
<1>2. ToSet(e) = {}
  BY <1>1 DEF ToSet
<1>3. Unread(q, x, S)[a][b] = IF a \in S /\ b = x THEN e ELSE q[a][b]
  BY <1>1, UnreadEffect
<1> QED BY <1>2, <1>3

LEMMA InQueues ==
    ASSUME NEW q \in Queues, NEW a \in Servers, NEW b \in Servers, NEW m \in ToSet(q[a][b])
    PROVE  m \in Msg /\ (OfServers(m) => m.who \in Servers)
<1>1. q[a][b] \in Seq(Msg)
  BY DEF Queues
<1>2. m \in Msg
  BY <1>1, LenProperties DEF ToSet
<1> QED BY <1>2 DEF Msg, OfServers

-----------------------------------------------------------------------------
(* What may be sent keeps the sides. *)

\* x may tell ms to its links of S.
MaySay(x, S, ms) ==
    \A b \in Servers : b \in S /\ Edge(parent, x, b) => \A m \in ToSet(ms) : Side(parent, b, x, m)

LEMMA SentSides ==
    ASSUME IInv, NEW q \in Queues, Sides(q, parent), NEW x \in Servers, NEW S, NEW ms \in Seq(Msg),
           MaySay(x, S, ms)
    PROVE  Sides(Sent(q, x, S, ms), parent)
<1>0. SentHas(q, x, S, ms)
  BY SentContent
<1> SUFFICES ASSUME NEW b \in Servers, NEW a \in Servers, NEW m \in ToSet(Sent(q, x, S, ms)[a][b])
             PROVE  Side(parent, b, a, m)
  BY DEF Sides
<1>1. CASE m \in ToSet(q[a][b])
  BY <1>1 DEF Sides
<1>2. CASE a = x /\ b \in S /\ x \in open[b] /\ m \in ToSet(ms)
  <2>1. Edge(parent, x, b)
    BY <1>2 DEF IInv, ServersFit, Edge
  <2> QED BY <1>2, <2>1 DEF MaySay
<1>3. m \in ToSet(q[a][b]) \/ (a = x /\ b \in S /\ x \in open[b] /\ m \in ToSet(ms))
  BY <1>0 DEF SentHas
<1> QED BY <1>1, <1>2, <1>3

LEMMA TakenSides ==
    ASSUME IInv, Sides(queue, parent), NEW x \in Servers, NEW y \in Servers, queue[y][x] # <<>>
    PROVE  Taken(x, y) \in Queues /\ Sides(Taken(x, y), parent) /\ Side(parent, x, y, Head(queue[y][x]))
<1>1. queue \in Queues /\ queue[y][x] \in Seq(Msg)
  BY Shapes DEF Queues
<1>2. Head(queue[y][x]) \in ToSet(queue[y][x])
  BY <1>1, ToSetTail
<1>3. Taken(x, y) \in Queues
  BY <1>1, TakenEffect
<1>4. TakenHas(x, y)
  BY <1>1, TakenContent
<1> QED BY <1>2, <1>3, <1>4 DEF Sides, TakenHas

LEMMA UnreadSides ==
    ASSUME NEW q \in Queues, Sides(q, parent), NEW x \in Servers, NEW S
    PROVE  Unread(q, x, S) \in Queues /\ Sides(Unread(q, x, S), parent)
<1>1. UnreadHas(q, x, S) /\ Unread(q, x, S) \in Queues
  BY UnreadContent, UnreadEffect
<1> QED BY <1>1 DEF Sides, UnreadHas

\* Who is in the tree of the sender may be given up to any of its links.
LEMMA SquitSides ==
    ASSUME IInv, NEW q \in Queues, Sides(q, parent), NEW x \in Servers, NEW S,
           NEW z \in Servers, Joined(parent, z, x)
    PROVE  /\ Sent(q, x, S, <<SQUITof(z)>>) \in Queues
           /\ Sides(Sent(q, x, S, <<SQUITof(z)>>), parent)
<1> DEFINE ms == <<SQUITof(z)>>
<1>1. ms \in Seq(Msg) /\ \A m \in ToSet(ms) : m.type = "SQUIT" /\ m.who = z
  BY ToSetSmall, MessagesTyped DEF SQUITof
<1> HIDE DEF ms
<1>2. MaySay(x, S, ms)
  BY <1>1, JoinedAlongEdge DEF Side, MaySay
<1>3. Sides(Sent(q, x, S, ms), parent) /\ Sent(q, x, S, ms) \in Queues
  BY <1>1, <1>2, SentSides, SentEffect
<1> QED BY <1>3 DEF ms

LEMMA TowardIsJoined ==
    ASSUME NEW par, NEW x \in Servers, NEW y \in Servers, NEW h \in Servers, Toward(par, x, y, h)
    PROVE  Joined(par, h, x)
BY UnderIsJoined, JoinedAlongEdge DEF Toward, Edge

-----------------------------------------------------------------------------
(* Steps that tell nothing of servers. *)

\* The queues q and p say the same of servers.
SameSides(q, p) ==
    \A a, b \in Servers : \A m : OfServers(m) => (m \in ToSet(q[a][b]) <=> m \in ToSet(p[a][b]))

LEMMA SentSame ==
    ASSUME NEW q \in Queues, NEW x \in Servers, NEW S, NEW ms \in Seq(Msg), \A m \in ToSet(ms) : ~OfServers(m)
    PROVE  SameSides(Sent(q, x, S, ms), q)
<1>1. SentHas(q, x, S, ms)
  BY SentContent
<1> QED BY <1>1 DEF SentHas, SameSides

LEMMA TakenSame ==
    ASSUME queue \in Queues, NEW x \in Servers, NEW y \in Servers, queue[y][x] # <<>>,
           ~OfServers(Head(queue[y][x]))
    PROVE  SameSides(Taken(x, y), queue)
<1>1. TakenHas(x, y)
  BY TakenContent
<1> QED BY <1>1 DEF TakenHas, SameSides

LEMMA SameSidesTwice ==
    ASSUME NEW q, NEW p, NEW o, SameSides(q, p), SameSides(p, o)
    PROVE  SameSides(q, o)
BY DEF SameSides

LEMMA QuietKeeps ==
    ASSUME SInv, IInv', UNCHANGED <<parent, heirs, open, srv>>, \A x \in Servers : Running(x)' => Running(x),
           SameSides(queue', queue)
    PROVE  SInv'
<1>1. parent' = parent /\ open' = open /\ srv' = srv
  OBVIOUS
<1>2. Sides(queue, parent)'
  BY <1>1 DEF SInv, Sides, SameSides, Side, OfServers
<1>3. Found(srv, parent)'
  BY <1>1 DEF SInv, Found
<1>4. Held'
  BY <1>1 DEF SInv, Held, Direct
<1>5. Gone(queue, open)'
  <2>1. \A z : OfServers(SQUITof(z))
    BY DEF OfServers, SQUITof
  <2> QED BY <1>1, <2>1 DEF SInv, Gone, SameSides
<1>7. SiblingsTold'
  <2> SUFFICES ASSUME NEW x \in Servers, NEW y \in Servers, NEW z \in Servers, Siblings(x, y, z)'
               PROVE  ToldOf(x, y, z)'
    BY DEF SiblingsTold
  <2>1. Siblings(x, y, z)
    BY DEF Siblings, Linked
  <2>2. ToldOf(x, y, z)
    BY <2>1 DEF SInv, SiblingsTold
  <2>3. OfServers(SERVERof(y)) /\ OfServers(SQUITof(y))
    BY DEF OfServers, SERVERof, SQUITof
  <2> QED BY <2>2, <2>3 DEF ToldOf, SameSides
<1> QED BY <1>2, <1>3, <1>4, <1>5, <1>7 DEF SInv

\* A client's step is announced to servers.
LEMMA UserStepSides ==
    ASSUME SInv, NEW u \in Users, UserStep(u)
    PROVE  SInv'
<1>0. IInv'
  BY UserStepKeeps DEF SInv
<1>1. Home[u] \in Servers /\ queue \in Queues /\ open \in [Servers -> SUBSET Servers]
  BY HomeAssumption, Shapes DEF SInv
<1>2. CASE queue' = queue
  BY <1>0, <1>2, QuietKeeps
  DEF SInv, SameSides, UserStep, LocalNick, LocalUser, LocalQuit, LocalRename, Running
<1>3. ASSUME NEW m \in Msg, ~OfServers(m), queue' = Sent(queue, Home[u], Direct(Home[u]), <<m>>),
             UNCHANGED <<status, parent, heirs, open, srv>>
      PROVE  SInv'
  <2> DEFINE ms == <<m>>
  <2>1. ms \in Seq(Msg) /\ \A n \in ToSet(ms) : ~OfServers(n)
    BY <1>3, ToSetSmall
  <2> HIDE DEF ms
  <2>2. SameSides(Sent(queue, Home[u], Direct(Home[u]), ms), queue)
    BY <1>1, <2>1, SentSame
  <2>4. queue' = Sent(queue, Home[u], Direct(Home[u]), ms) /\ \A x \in Servers : Running(x)' => Running(x)
    BY <1>3 DEF ms, Running
  <2> QED BY <1>0, <1>3, <2>2, <2>4, QuietKeeps
<1>4. CASE LocalNick(u)
  BY <1>2, <1>4 DEF LocalNick
<1>5. CASE LocalUser(u)
  <2>1. PICK r \in 1..2 : r = IF Words[u] > 1 THEN 2 ELSE 1
    OBVIOUS
  <2>2. NICKof(u, r) \in Msg /\ ~OfServers(NICKof(u, r))
    <3>1. NICKof(u, r) \in Msg
      BY MessagesTyped
    <3> QED BY <3>1 DEF NICKof, OfServers
  <2> QED BY <1>3, <1>5, <2>1, <2>2 DEF LocalUser
<1>6. CASE LocalQuit(u)
  <2>1. QUITof(u) \in Msg /\ ~OfServers(QUITof(u))
    BY MessagesTyped DEF QUITof, OfServers
  <2> QED BY <1>3, <1>6, <2>1 DEF LocalQuit
<1>7. CASE LocalRename(u)
  <2>1. RENAMEof(u) \in Msg /\ ~OfServers(RENAMEof(u))
    BY MessagesTyped DEF RENAMEof, OfServers
  <2> QED BY <1>3, <1>7, <2>1 DEF LocalRename
<1> QED BY <1>4, <1>5, <1>6, <1>7 DEF UserStep

\* A message about a client is taken, and ms about clients is sent on.
LEMMA RelaySides ==
    ASSUME SInv, IInv', NEW x \in Servers, NEW y \in Servers, NEW t \in {"NICK", "RENAME", "QUIT"},
           Receives(x, y, t), NEW S, S \subseteq Others(x, y), NEW ms \in Seq(Msg),
           \A m \in ToSet(ms) : ~OfServers(m),
           queue' = Taken(x, y) \/ queue' = Sent(Taken(x, y), x, S, ms),
           UNCHANGED <<parent, heirs, open, srv>>, \A z \in Servers : Running(z)' => Running(z)
    PROVE  SInv'
<1> DEFINE q == Taken(x, y)
<1>1. queue \in Queues /\ queue[y][x] # <<>> /\ ~OfServers(Head(queue[y][x]))
      /\ open \in [Servers -> SUBSET Servers]
  BY Shapes DEF SInv, Receives, Arrives, OfServers
<1>2. q \in Queues /\ SameSides(q, queue)
  BY <1>1, TakenEffect, TakenSame
<1> HIDE DEF q
<1>4. SameSides(Sent(q, x, S, ms), q)
  BY <1>2, SentSame
<1>6. SameSides(Sent(q, x, S, ms), queue)
  BY <1>2, <1>4, SameSidesTwice
<1>7. queue' = q \/ queue' = Sent(q, x, S, ms)
  BY DEF q
<1> QED BY <1>2, <1>6, <1>7, QuietKeeps

LEMMA ReceiveClientSides ==
    ASSUME SInv, NEW x \in Servers, NEW y \in Servers,
           ReceiveNick(x, y) \/ ReceiveRename(x, y) \/ ReceiveQuit(x, y)
    PROVE  SInv'
<1> DEFINE m == Head(queue[y][x])
<1>0. IInv'
  BY ReceiveNickKeeps, ReceiveRenameKeeps, ReceiveQuitKeeps DEF SInv
<1>1. UNCHANGED <<parent, heirs, open, srv>>
  BY DEF ReceiveNick, ReceiveRename, ReceiveQuit
<1>2. ASSUME NEW z \in Servers, Running(z)' PROVE Running(z)
  <2>1. status' = status \/ status' = [status EXCEPT ![x] = "undefined"]
    BY DEF ReceiveNick, ReceiveRename, ReceiveQuit, ReadsBeyond
  <2> QED BY <1>2, <2>1 DEF Running, SInv, IInv, TypeOK
<1>3. CASE ReceiveNick(x, y)
  <2>1. Receives(x, y, "NICK")
    BY <1>3 DEF ReceiveNick
  <2>2. m.who \in Users /\ m.reads \in 0..2
    BY <2>1, HeadIs DEF SInv
  <2>3. CASE queue' = Taken(x, y)
    <3>1. PICK e : e = <<>>
      OBVIOUS
    <3>2. e \in Seq(Msg) /\ ToSet(e) = {}
      BY <3>1 DEF ToSet
    <3>3. PICK S : S = Others(x, y)
      OBVIOUS
    <3> QED BY <1>0, <1>1, <1>2, <2>1, <2>3, <3>2, <3>3, RelaySides
  <2>4. CASE m.reads > 0 /\ queue' = Sent(Taken(x, y), x, Others(x, y), <<NICKof(m.who, m.reads - 1)>>)
    <3> DEFINE n == NICKof(m.who, m.reads - 1)
    <3>1. n \in Msg /\ m.reads - 1 \in 0..2
      BY <2>2, <2>4, MessagesTyped
    <3>2. ~OfServers(n)
      BY DEF NICKof, OfServers
    <3>3. PICK ms : ms = <<n>>
      OBVIOUS
    <3>4. PICK S : S = Others(x, y)
      OBVIOUS
    <3>5. queue' = Sent(Taken(x, y), x, S, ms)
      BY <2>4, <3>3, <3>4
    <3> HIDE DEF n
    <3>6. ms \in Seq(Msg) /\ \A k \in ToSet(ms) : ~OfServers(k)
      BY <3>1, <3>2, <3>3, ToSetSmall
    <3> QED BY <1>0, <1>1, <1>2, <2>1, <3>4, <3>5, <3>6, RelaySides
  <2> QED BY <1>3, <2>3, <2>4 DEF ReceiveNick
<1>4. CASE ReceiveRename(x, y)
  <2>1. Receives(x, y, "RENAME") /\ queue' = Taken(x, y)
    BY <1>4 DEF ReceiveRename
  <2>2. PICK e : e = <<>>
    OBVIOUS
  <2>3. e \in Seq(Msg) /\ ToSet(e) = {}
    BY <2>2 DEF ToSet
  <2>4. PICK S : S = Others(x, y)
    OBVIOUS
  <2> QED BY <1>0, <1>1, <1>2, <2>1, <2>3, <2>4, RelaySides
<1>5. CASE ReceiveQuit(x, y)
  <2>1. Receives(x, y, "QUIT")
        /\ queue' = Sent(Taken(x, y), x, IF usr[x][m.who] = None THEN {} ELSE Others(x, y), <<QUITof(m.who)>>)
    BY <1>5 DEF ReceiveQuit
  <2>2. m.who \in Users
    BY <2>1, HeadIs DEF SInv
  <2>3. QUITof(m.who) \in Msg /\ ~OfServers(QUITof(m.who))
    BY <2>2, MessagesTyped DEF QUITof, OfServers
  <2>4. PICK ms : ms = <<QUITof(m.who)>>
    OBVIOUS
  <2>5. PICK S : S = IF usr[x][m.who] = None THEN {} ELSE Others(x, y)
    OBVIOUS
  <2>6. S \subseteq Others(x, y) /\ queue' = Sent(Taken(x, y), x, S, ms)
    BY <2>1, <2>4, <2>5
  <2>7. ms \in Seq(Msg) /\ \A k \in ToSet(ms) : ~OfServers(k)
    BY <2>3, <2>4, ToSetSmall
  <2> QED BY <1>0, <1>1, <1>2, <2>1, <2>6, <2>7, RelaySides
<1> QED BY <1>3, <1>4, <1>5

-----------------------------------------------------------------------------
(* Steps that give servers up. *)

\* A child is given up to others when its socket is closed.
LEMMA SquitGone ==
    ASSUME NEW q \in Queues, NEW op, Gone(q, op), NEW x \in Servers, NEW S, NEW w \in Servers,
           parent[w] = x => w \notin op[x] \/ S \subseteq {w}
    PROVE  Gone(Sent(q, x, S, <<SQUITof(w)>>), op)
<1> DEFINE ms == <<SQUITof(w)>>
<1>1. ms \in Seq(Msg) /\ ToSet(ms) = {SQUITof(w)}
  BY ToSetSmall, MessagesTyped
<1>2. \A y \in Servers : SQUITof(y) = SQUITof(w) => y = w
  BY DEF SQUITof
<1> HIDE DEF ms
<1>3. SentHas(q, x, S, ms)
  BY <1>1, SentContent
<1>4. Gone(Sent(q, x, S, ms), op)
  <2> SUFFICES ASSUME NEW a \in Servers, NEW y \in Servers, NEW z \in Servers, parent[y] = a, z # y,
                      SQUITof(y) \in ToSet(Sent(q, x, S, ms)[a][z])
               PROVE  y \notin op[a]
    BY DEF Gone
  <2>1. SQUITof(y) \in ToSet(q[a][z]) \/ (a = x /\ z \in S /\ SQUITof(y) \in ToSet(ms))
    BY <1>3 DEF SentHas
  <2>2. CASE SQUITof(y) \in ToSet(q[a][z])
    BY <2>2 DEF Gone
  <2>3. CASE a = x /\ z \in S /\ SQUITof(y) \in ToSet(ms)
    BY <1>1, <1>2, <2>3
  <2> QED BY <2>1, <2>2, <2>3
<1> QED BY <1>4 DEF ms

LEMMA EndedSides ==
    ASSUME SInv, IInv', NEW x \in Servers, Ended(x), UNCHANGED <<parent, heirs, srv>>,
           NEW q \in Queues, Sides(q, parent), Gone(q, open),
           \A s, r \in Servers : s # x /\ r # x => q[s][r] = queue[s][r],
           queue' = Unread(q, x, Servers)
    PROVE  SInv'
<1>0. parent' = parent /\ srv' = srv
  OBVIOUS
<1>1. /\ \A b \in Servers : open'[b] = IF b = x THEN {} ELSE open[b]
      /\ \A b \in Servers : Running(b)' <=> b # x /\ Running(b)
  BY DEF Ended, Running, SInv, IInv, TypeOK
<1>2. /\ \A b \in Servers : open'[b] \subseteq open[b]
      /\ \A a, b \in Servers : a \in open'[b] => b # x /\ a \in open[b]
  BY <1>1
<1>3. UnreadHas(q, x, Servers)
      /\ \A a, b \in Servers : b # x => queue'[a][b] = q[a][b]
  BY UnreadContent, UnreadEffect
<1>4. Sides(queue, parent)'
  <2>1. Sides(queue', parent)
    BY UnreadSides
  <2> QED BY <1>0, <2>1
<1>5. Found(srv, parent)'
  BY <1>0 DEF SInv, Found
<1>6. Held'
  BY <1>0, <1>1 DEF SInv, Held, Direct
<1>7. Gone(queue, open)'
  BY <1>0, <1>2, <1>3 DEF Gone, UnreadHas
<1>9. SiblingsTold'
  <2> SUFFICES ASSUME NEW a \in Servers, NEW y \in Servers, NEW z \in Servers, Siblings(a, y, z)'
               PROVE  ToldOf(a, y, z)'
    BY DEF SiblingsTold
  <2>1. a # x /\ z # x /\ Siblings(a, y, z)
    BY <1>0, <1>1 DEF Siblings, Linked
  <2>2. queue'[a][z] = queue[a][z] /\ queue'[z][a] = queue[z][a]
    BY <1>3, <2>1
  <2>3. ToldOf(a, y, z)
    BY <2>1 DEF SInv, SiblingsTold
  <2> QED BY <1>0, <2>2, <2>3 DEF ToldOf
<1> QED BY <1>4, <1>5, <1>6, <1>7, <1>9 DEF SInv

LEMMA EndSides ==
    ASSUME SInv, NEW x \in Servers, NEW y \in Servers,
           Crash(x) \/ SquitSelf(x) \/ ReceiveSquitSelf(x, y)
    PROVE  SInv'
<1>0. IInv'
  BY CrashKeeps, SquitSelfKeeps, ReceiveSquitSelfKeeps DEF SInv
<1>1. queue \in Queues /\ open \in [Servers -> SUBSET Servers] /\ parent \in Forests /\ Acyclic(parent)
  BY Shapes DEF SInv
<1>2. Ended(x) /\ UNCHANGED <<parent, heirs, srv>>
  BY DEF Crash, SquitSelf, ReceiveSquitSelf
<1>3. CASE queue' = Unread(queue, x, Servers)
  BY <1>0, <1>1, <1>2, <1>3, EndedSides DEF SInv
<1>4. ASSUME NEW S, S \subseteq Direct(x), queue' = Unread(Sent(queue, x, S, <<SQUITof(x)>>), x, Servers)
      PROVE  SInv'
  <2> DEFINE ms == <<SQUITof(x)>>
             q == Sent(queue, x, S, ms)
  <2>1. q \in Queues /\ Sides(q, parent)
    BY <1>1, UnderItself, SquitSides DEF SInv
  <2>2. Gone(q, open)
    <3>1. parent[x] # x
      BY UnderItself, NoneAssumption, <1>1 DEF Acyclic
    <3> QED BY <1>1, <3>1, SquitGone DEF SInv
  <2>3. ms \in Seq(Msg)
    BY ToSetSmall, MessagesTyped
  <2> HIDE DEF ms
  <2>5. \A s, r \in Servers : s # x /\ r # x => q[s][r] = queue[s][r]
    BY <1>1, <2>3, SentEffect
  <2>6. queue' = Unread(q, x, Servers)
    BY <1>4 DEF ms
  <2> HIDE DEF q
  <2> QED BY <1>0, <1>2, <2>1, <2>2, <2>5, <2>6, EndedSides
<1> QED BY <1>3, <1>4 DEF Crash, SquitSelf, ReceiveSquitSelf, Others

\* A sibling lies by the link to the parent.
LEMMA SiblingToward ==
    ASSUME IInv, Found(srv, parent), NEW a \in Servers, NEW y \in Servers, NEW z \in Servers,
           parent[y] = a, parent[z] = a, y # z
    PROVE  Toward(parent, z, a, y) /\ (srv[z][y] # None => srv[z][y] = a /\ srv[z][a] = a)
<1>1. parent \in Forests /\ Acyclic(parent) /\ srv \in [Servers -> [Servers -> Servers \cup {None}]]
  BY Shapes
<1>2. Toward(parent, a, y, y)
  BY <1>1, TowardHome DEF Edge
<1>3. Toward(parent, z, a, y)
  BY <1>1, <1>2, TowardPassedOn DEF Edge
<1>4. ASSUME srv[z][y] # None PROVE srv[z][y] = a /\ srv[z][a] = a
  <2>1. srv[z][y] \in Servers /\ Toward(parent, z, srv[z][y], y) /\ srv[z][srv[z][y]] = srv[z][y]
    BY <1>1, <1>4 DEF Found, IInv, ServersFit
  <2>2. srv[z][y] = a
    BY <1>1, <1>3, <2>1, TowardUnique
  <2> QED BY <2>1, <2>2
<1> QED BY <1>3, <1>4

\* A child is known by its own link.
LEMMA ChildDirect ==
    ASSUME IInv, Found(srv, parent), NEW x \in Servers, NEW w \in Servers, parent[w] = x, srv[x][w] # None
    PROVE  srv[x][w] = w
<1>1. parent \in Forests /\ Acyclic(parent) /\ srv[x][w] \in Servers
  BY Shapes
<1>2. Toward(parent, x, w, w) /\ Toward(parent, x, srv[x][w], w)
  BY <1>1, TowardHome DEF Edge, Found
<1> QED BY <1>1, <1>2, TowardUnique

\* x forgets w alone, and tells a parent that has told it of w.
ForgottenAlone(x, w) ==
    /\ srv[x][w] # w
    /\ srv' = [srv EXCEPT ![x][w] = None] /\ open' = open
    /\ \A p \in Servers : Siblings(p, w, x) /\ srv[x][w] = p => SQUITof(w) \in ToSet(queue'[x][p])

\* No message about servers is lost on a link that stays, but one that gives up w to x.
LeftOf(x, w) ==
    \A a, b \in Servers : \A m \in ToSet(queue[a][b]) :
        a \in open'[b] /\ OfServers(m) => m \in ToSet(queue'[a][b]) \/ (b = x /\ m = SQUITof(w))

LEMMA CutSides ==
    ASSUME SInv, IInv', UNCHANGED <<status, parent, heirs>>, NEW x \in Servers, NEW w \in Servers,
           LinkRemoved(x, w) \/ ForgottenAlone(x, w), LeftOf(x, w),
           Sides(queue', parent), Gone(queue', open')
    PROVE  SInv'
<1>0. parent' = parent /\ \A b \in Servers : Running(b)' <=> Running(b)
  BY DEF Running
<1>1. /\ \A b \in Servers : open'[b] \subseteq open[b]
      /\ LinkRemoved(x, w) => w \notin open'[x] /\ \A v \in open[x] : v # w => v \in open'[x]
      /\ \A b \in Servers : b # x => open'[b] = open[b]
      /\ ForgottenAlone(x, w) => open' = open
  BY Shapes DEF SInv, LinkRemoved, ForgottenAlone
<1>2. /\ \A b, v \in Servers : srv'[b][v] = srv[b][v] \/ srv'[b][v] = None
      /\ \A b, v \in Servers : b # x => srv'[b][v] = srv[b][v]
      /\ LinkRemoved(x, w) => \A v \in Servers : srv'[x][v] = IF srv[x][v] = w THEN None ELSE srv[x][v]
      /\ ForgottenAlone(x, w) => \A v \in Servers : srv'[x][v] = IF v = w THEN None ELSE srv[x][v]
  BY Shapes DEF SInv, LinkRemoved, ForgottenAlone
<1>3. srv'[x][w] # w /\ \A b, v \in Servers : srv'[b][v] = v => srv[b][v] = v
  BY <1>2, NoneAssumption
<1>4. Sides(queue, parent)' /\ Gone(queue, open)'
  BY <1>0 DEF Gone
<1>5. Found(srv, parent)'
  BY <1>0, <1>2 DEF SInv, Found
<1>6. Held'
  <2> SUFFICES ASSUME NEW b \in Servers, Running(b)', NEW v \in Servers, srv'[b][v] = v PROVE v \in open'[b]
    BY DEF Held, Direct
  <2>1. v \in open[b]
    BY <1>0, <1>3 DEF SInv, Held, Direct
  <2> QED BY <1>1, <1>3, <2>1
<1>7. SiblingsTold'
  <2> SUFFICES ASSUME NEW a \in Servers, NEW y \in Servers, NEW z \in Servers, Siblings(a, y, z)'
               PROVE  ToldOf(a, y, z)'
    BY DEF SiblingsTold
  <2>1. parent[y] = a /\ parent[z] = a /\ y # z /\ srv'[a][y] = y /\ a \in open'[z] /\ z \in open'[a]
    BY <1>0 DEF Siblings, Linked
  <2>2. Siblings(a, y, z)
    BY <1>0, <1>1, <1>3 DEF Siblings, Linked
  <2>3. CASE srv[z][y] # None
    <3>1. srv[z][y] = a
      BY <2>1, <2>3, SiblingToward DEF SInv
    <3>2. CASE srv'[z][y] = srv[z][y]
      BY <2>3, <3>2 DEF ToldOf
    <3>3. CASE srv'[z][y] # srv[z][y]
      <4>1. z = x
        BY <1>2, <3>3
      <4>2. ForgottenAlone(x, w) /\ y = w
        BY <1>1, <1>2, <2>1, <3>1, <3>3, <4>1
      <4>3. SQUITof(y) \in ToSet(queue'[z][a])
        BY <2>2, <3>1, <4>1, <4>2 DEF ForgottenAlone
      <4> QED BY <4>3 DEF ToldOf
    <3> QED BY <3>2, <3>3
  <2>4. CASE SERVERof(y) \in ToSet(queue[a][z])
    <3>1. OfServers(SERVERof(y)) /\ SERVERof(y) # SQUITof(w)
      BY DEF OfServers, SERVERof, SQUITof
    <3> QED BY <2>1, <2>4, <3>1 DEF LeftOf, ToldOf
  <2>5. CASE SQUITof(y) \in ToSet(queue[z][a])
    <3>1. OfServers(SQUITof(y)) /\ (SQUITof(y) = SQUITof(w) => y = w)
      BY DEF OfServers, SQUITof
    <3>2. ~(a = x /\ y = w)
      BY <1>3, <2>1
    <3> QED BY <2>1, <2>5, <3>1, <3>2 DEF LeftOf, ToldOf
  <2> QED BY <2>2, <2>3, <2>4, <2>5 DEF SInv, SiblingsTold, ToldOf
<1> QED BY <1>4, <1>5, <1>6, <1>7 DEF SInv

LEMMA GoneShrinks ==
    ASSUME NEW q, Gone(q, open), \A b \in Servers : open'[b] \subseteq open[b]
    PROVE  Gone(q, open')
BY DEF Gone

LEMMA EdgeJoined ==
    ASSUME NEW x \in Servers, NEW y \in Servers, Edge(parent, x, y)
    PROVE  Joined(parent, y, x)
BY UnderItself, JoinedAlongEdge DEF Edge

LEMMA HangUpSides ==
    ASSUME SInv, NEW x \in Servers, NEW y \in Servers, HangUp(x, y)
    PROVE  SInv'
<1> DEFINE S == IF srv[x][y] = y THEN Others(x, y) ELSE {}
           ms == <<SQUITof(y)>>
           q == Unread(queue, x, {y})
           r == Sent(queue, x, S, ms)
<1>0. IInv'
  BY HangUpKeeps DEF SInv
<1>1. LinkRemoved(x, y) /\ queue' = Sent(q, x, S, ms) /\ UNCHANGED <<status, parent, heirs>> /\ y \in open[x]
  BY DEF HangUp
<1>2. queue \in Queues /\ open \in [Servers -> SUBSET Servers] /\ Edge(parent, x, y)
  BY <1>1, Shapes DEF SInv, IInv, ServersFit
<1>3. /\ \A b \in Servers : open'[b] \subseteq open[b]
      /\ \A a, b \in Servers : a \in open'[b] /\ srv[b][a] = a => srv'[b][a] = a
      /\ y \notin open'[x]
  BY <1>1, LinkRemovedKeeps DEF SInv
<1>4. q \in Queues /\ Sides(q, parent) /\ UnreadHas(queue, x, {y})
      /\ \A a, b \in Servers : a \in open'[b] => q[a][b] = queue[a][b]
  <2>1. PICK C : C = {y}
    OBVIOUS
  <2>2. Unread(queue, x, C) \in Queues /\ Sides(Unread(queue, x, C), parent) /\ UnreadHas(queue, x, C)
        /\ \A a, b \in Servers : Unread(queue, x, C)[a][b] = IF a \in C /\ b = x THEN <<>> ELSE queue[a][b]
    BY <1>2, UnreadSides, UnreadContent, UnreadEffect DEF SInv
  <2> QED BY <1>3, <2>1, <2>2
<1>5. ms \in Seq(Msg) /\ S \subseteq Direct(x)
  BY ToSetSmall, MessagesTyped DEF Others
<1>6. Gone(q, open')
  <2>1. Gone(queue, open')
    BY <1>3, GoneShrinks DEF SInv
  <2>2. \A a, b \in Servers : ToSet(q[a][b]) \subseteq ToSet(queue[a][b])
    BY <1>4 DEF UnreadHas
  <2> HIDE DEF S, ms, q
  <2> QED BY <2>1, <2>2 DEF Gone
<1> HIDE DEF S, q
<1>7. Sides(queue', parent)
  <2>1. Joined(parent, y, x)
    BY <1>2, EdgeJoined
  <2> QED BY <1>1, <1>4, <2>1, SquitSides DEF SInv
<1>8. Gone(queue', open')
  BY <1>1, <1>3, <1>4, <1>6, SquitGone
<1> HIDE DEF ms
<1>9. \A a, b \in Servers : a \in open'[b] => queue'[a][b] = r[a][b]
  <2>2. \A a, b \in Servers : r[a][b] = IF a = x /\ b \in S /\ x \in open[b] THEN queue[a][b] \o ms ELSE queue[a][b]
    BY <1>2, <1>5, SentEffect
  <2>3. \A a, b \in Servers : queue'[a][b] = IF a = x /\ b \in S /\ x \in open[b] THEN q[a][b] \o ms ELSE q[a][b]
    BY <1>1, <1>4, <1>5, SentEffect
  <2> HIDE DEF r
  <2> QED BY <1>4, <2>2, <2>3
<1> HIDE DEF r
<1>11. LeftOf(x, y)
  <2>1. SentHas(q, x, S, ms)
    BY <1>4, <1>5, SentContent
  <2> QED BY <1>1, <1>4, <2>1 DEF SentHas, LeftOf
<1> QED BY <1>0, <1>1, <1>7, <1>8, <1>11, CutSides

\* w is removed at x, which has sent q.
LEMMA RemovalSides ==
    ASSUME SInv, IInv', UNCHANGED <<status, parent, heirs>>, NEW x \in Servers, NEW w \in Servers,
           ServerRemoved(x, w), srv[x][w] # None,
           NEW q \in Queues, Sides(q, parent), Gone(q, open'),
           queue' = IF srv[x][w] = w THEN Unread(q, x, {w}) ELSE q,
           \A a, b \in Servers : \A m \in ToSet(queue[a][b]) :
               OfServers(m) => m \in ToSet(q[a][b]) \/ (b = x /\ m = SQUITof(w)),
           \A p \in Servers : Siblings(p, w, x) /\ srv[x][w] = p /\ p # w => SQUITof(w) \in ToSet(q[x][p])
    PROVE  SInv'
<1>1. /\ \A b \in Servers : open'[b] \subseteq open[b]
      /\ \A a, b \in Servers : a \in open'[b] /\ srv[b][a] = a => srv'[b][a] = a
      /\ srv[x][w] = w => w \notin open'[x]
  BY ServerRemovedKeeps DEF SInv
<1>2. PICK C : C = {w}
  OBVIOUS
<1>3. /\ Unread(q, x, C) \in Queues /\ Sides(Unread(q, x, C), parent) /\ UnreadHas(q, x, C)
      /\ \A a, b \in Servers : Unread(q, x, C)[a][b] = IF a \in C /\ b = x THEN <<>> ELSE q[a][b]
  BY UnreadSides, UnreadContent, UnreadEffect
<1>4. Gone(Unread(q, x, C), open')
  BY <1>3 DEF UnreadHas, Gone
<1>5. queue' = IF srv[x][w] = w THEN Unread(q, x, C) ELSE q
  BY <1>2
<1>6. Sides(queue', parent) /\ Gone(queue', open')
  BY <1>3, <1>4, <1>5
<1>7. ASSUME NEW a \in Servers, NEW b \in Servers, a \in open'[b] PROVE queue'[a][b] = q[a][b]
  <2>1. CASE srv[x][w] = w
    <3>1. ~(a \in C /\ b = x)
      BY <1>1, <1>2, <1>7, <2>1
    <3>2. Unread(q, x, C)[a][b] = q[a][b]
      BY <1>3, <3>1
    <3> QED BY <1>5, <2>1, <3>2
  <2>2. CASE srv[x][w] # w
    BY <1>5, <2>2
  <2> QED BY <2>1, <2>2
<1>9. LeftOf(x, w)
  BY <1>7 DEF LeftOf
<1>10. LinkRemoved(x, w) \/ ForgottenAlone(x, w)
  BY <1>5 DEF ServerRemoved, ForgottenAlone
<1> QED BY <1>6, <1>9, <1>10, CutSides

LEMMA SQUITSides ==
    ASSUME SInv, NEW x \in Servers, NEW w \in Servers, SQUIT(x, w)
    PROVE  SInv'
<1> DEFINE S == {srv[x][w]}
           ms == <<SQUITof(w)>>
           q == Sent(queue, x, S, ms)
<1>0. IInv'
  BY SQUITKeeps DEF SInv
<1>1. /\ ServerRemoved(x, w) /\ queue' = (IF srv[x][w] = w THEN Unread(q, x, {w}) ELSE q)
      /\ UNCHANGED <<status, parent, heirs>> /\ srv[x][w] # None
  BY DEF SQUIT
<1>2. queue \in Queues /\ open \in [Servers -> SUBSET Servers] /\ srv[x][w] \in Servers
  BY <1>1, Shapes DEF SInv
<1>3. S \subseteq Direct(x)
  BY <1>1, <1>2 DEF SInv, IInv, ServersFit, Direct
<1>4. ms \in Seq(Msg) /\ ToSet(ms) = {SQUITof(w)}
  BY ToSetSmall, MessagesTyped
<1>5. Joined(parent, w, x)
  BY <1>1, <1>2, TowardIsJoined DEF SInv, Found
<1>6. parent[w] = x => w \notin open'[x] \/ S \subseteq {w}
  BY <1>1, ChildDirect DEF SInv
<1>7. Gone(queue, open')
  BY <1>1, ServerRemovedKeeps, GoneShrinks DEF SInv
<1> HIDE DEF S
<1>8. q \in Queues /\ Sides(q, parent) /\ Gone(q, open')
  BY <1>2, <1>5, <1>6, <1>7, SquitSides, SquitGone DEF SInv
<1> HIDE DEF ms
<1>9. SentHas(queue, x, S, ms)
  BY <1>2, <1>3, <1>4, SentContent DEF SInv, IInv
<1>10. \A a, b \in Servers : ToSet(queue[a][b]) \subseteq ToSet(q[a][b])
  BY <1>9 DEF SentHas
<1>11. ASSUME NEW p \in Servers, Siblings(p, w, x), srv[x][w] = p PROVE SQUITof(w) \in ToSet(q[x][p])
  BY <1>4, <1>9, <1>11 DEF SentHas, S, Siblings, Linked
<1> HIDE DEF q
<1> QED BY <1>0, <1>1, <1>8, <1>9, <1>10, <1>11, RemovalSides

LEMMA ReceiveSquitSides ==
    ASSUME SInv, NEW x \in Servers, NEW y \in Servers, ReceiveSquit(x, y)
    PROVE  SInv'
<1>0. IInv'
  BY ReceiveSquitKeeps DEF SInv
<1> DEFINE m == Head(queue[y][x])
<1>1. Receives(x, y, "SQUIT") /\ UNCHANGED <<status, parent, heirs>>
  BY DEF ReceiveSquit
<1>2. PICK w \in Servers : w = m.who
  BY <1>1, HeadIs DEF SInv
<1>3. m = SQUITof(w)
  <2>1. m \in Msg /\ m.type = "SQUIT"
    BY <1>1, HeadIs DEF SInv
  <2> QED BY <1>2, <2>1 DEF Msg, SQUITof
<1>4. queue \in Queues /\ open \in [Servers -> SUBSET Servers] /\ queue[y][x] # <<>>
  BY <1>1, Shapes DEF SInv, Receives, Arrives
<1> DEFINE t == Taken(x, y)
<1>5. /\ t \in Queues /\ Sides(t, parent) /\ Joined(parent, w, x)
      /\ TakenHas(x, y) /\ srv[x][y] = y
  <2>1. t \in Queues /\ Sides(t, parent) /\ Side(parent, x, y, m) /\ TakenHas(x, y)
    BY <1>4, TakenSides, TakenContent DEF SInv
  <2>2. Joined(parent, w, x)
    BY <1>3, <2>1 DEF Side, SQUITof
  <2> QED BY <1>1, <2>1, <2>2 DEF Receives
<1>6. Gone(t, open)
  BY <1>5 DEF SInv, Gone, TakenHas
<1>7. \A a, b \in Servers : \A n \in ToSet(queue[a][b]) : n \in ToSet(t[a][b]) \/ (b = x /\ n = SQUITof(w))
  BY <1>3, <1>5 DEF TakenHas
<1> HIDE DEF t
<1>8. CASE srv[x][w] = None
  <2>1. queue' = t /\ srv' = srv /\ open' = open
    BY <1>2, <1>8 DEF ReceiveSquit, t
  <2>2. ForgottenAlone(x, w)
    <3>1. srv = [srv EXCEPT ![x][w] = None]
      BY <1>8, Shapes DEF SInv
    <3> QED BY <1>8, <2>1, <3>1, NoneAssumption DEF ForgottenAlone
  <2>3. LeftOf(x, w)
    BY <1>7, <2>1 DEF LeftOf
  <2>4. Sides(queue', parent) /\ Gone(queue', open')
    BY <1>5, <1>6, <2>1
  <2> QED BY <1>0, <1>1, <2>2, <2>3, <2>4, CutSides
<1>9. CASE srv[x][w] # None
  <2> DEFINE S == Others(x, y)
             ms == <<SQUITof(w)>>
             q == Sent(t, x, S, ms)
  <2>1. ServerRemoved(x, w) /\ queue' = IF srv[x][w] = w THEN Unread(q, x, {w}) ELSE q
    BY <1>2, <1>9 DEF ReceiveSquit, t
  <2>2. ms \in Seq(Msg) /\ ToSet(ms) = {SQUITof(w)} /\ S \subseteq Direct(x)
    BY ToSetSmall, MessagesTyped DEF Others
  <2>3. parent[w] = x => w \notin open'[x] \/ S \subseteq {w}
    BY <1>9, <2>1, ChildDirect, ServerRemovedKeeps DEF SInv
  <2>4. Gone(t, open')
    BY <1>6, <1>9, <2>1, ServerRemovedKeeps, GoneShrinks DEF SInv
  <2> HIDE DEF S
  <2>5. q \in Queues /\ Sides(q, parent) /\ Gone(q, open')
    BY <1>5, <2>3, <2>4, SquitSides, SquitGone DEF SInv
  <2> HIDE DEF ms
  <2>6. SentHas(t, x, S, ms)
    BY <1>4, <1>5, <2>2, SentContent
  <2>7. \A a, b \in Servers : ToSet(t[a][b]) \subseteq ToSet(q[a][b])
    BY <2>6 DEF SentHas
  <2>8. \A a, b \in Servers : \A n \in ToSet(queue[a][b]) :
            OfServers(n) => n \in ToSet(q[a][b]) \/ (b = x /\ n = SQUITof(w))
    BY <1>7, <2>7
  <2>9. ASSUME NEW p \in Servers, Siblings(p, w, x), srv[x][w] = p PROVE SQUITof(w) \in ToSet(q[x][p])
    <3>1. parent[w] = p /\ parent[x] = p /\ w # x /\ srv[p][w] = w /\ Linked(p, x)
      BY <2>9 DEF Siblings
    <3>2. srv[x][p] = p
      BY <1>9, <3>1, SiblingToward DEF SInv
    <3>3. p # y
      <4>1. SUFFICES ASSUME p = y PROVE FALSE
        OBVIOUS
      <4>2. SQUITof(w) \in ToSet(queue[p][x])
        <5>1. queue[y][x] \in Seq(Msg)
          BY <1>4 DEF Queues
        <5> QED BY <1>3, <1>4, <4>1, <5>1, ToSetTail
      <4>3. w \notin open[p]
        BY <3>1, <4>2 DEF SInv, Gone
      <4>4. w \in open[p]
        BY <3>1 DEF SInv, Held, Direct, Linked
      <4> QED BY <4>3, <4>4
    <3>4. p \in S /\ x \in open[p]
      BY <3>1, <3>2, <3>3 DEF S, Others, Direct, Linked
    <3> QED BY <2>2, <2>6, <3>4 DEF SentHas
  <2> HIDE DEF q
  <2> QED BY <1>0, <1>1, <1>9, <2>1, <2>5, <2>6, <2>8, <2>9, RemovalSides
<1> QED BY <1>8, <1>9

-----------------------------------------------------------------------------
(* New links. *)

\* A server that was not started has no links.
LEMMA OffAlone ==
    ASSUME IInv, NEW x \in Servers, status[x] = "off"
    PROVE  parent[x] = None /\ \A z \in Servers : parent[z] # x /\ srv[x][z] # z
BY Shapes, NoneAssumption DEF IInv, Started, ServersFit, Edge

\* What is told of servers when a link is registered, or made by CONNECT.
LEMMA IntroductionIs ==
    ASSUME IInv, NEW x \in Servers, NEW y \in Servers
    PROVE  LET ms == <<SERVERof(x)>> \o (ServersInfo(x, y) \o ClientsInfo(x)) IN
           /\ ms \in Seq(Msg) /\ ms # <<>> /\ Head(ms) = SERVERof(x)
           /\ \A m \in ToSet(ms) :
                 OfServers(m) => \E h \in Servers :
                     m = SERVERof(h) /\ (h = x \/ (h # y /\ srv[x][h] # None))
           /\ \A h \in Servers \ {y} : srv[x][h] # None => SERVERof(h) \in ToSet(ms)
<1> DEFINE S == {w \in Servers \ {y} : srv[x][w] # None}
           T == {SERVERof(z) : z \in S}
           f == [z \in S |-> SERVERof(z)]
           si == ServersInfo(x, y)
           ci == ClientsInfo(x)
           hello == <<SERVERof(x)>>
<1>1. si \in Seq(Msg) /\ ToSet(si) = T
  <2>1. IsFiniteSet(S)
    BY FiniteAssumption, FS_Subset
  <2>2. f \in Surjection(S, T)
    BY DEF Surjection
  <2>3. IsFiniteSet(T)
    <3> HIDE DEF S, T, f
    <3> QED BY <2>1, <2>2, FS_Surjection
  <2>4. ToSet(SetToSeq(T)) = T
    <3> HIDE DEF T
    <3> QED BY <2>3, SetToSeqIs
  <2>5. si = SetToSeq(T)
    BY DEF ServersInfo
  <2>6. si \in Seq(Msg)
    BY InfoIs DEF IInv
  <2> HIDE DEF T, si
  <2> QED BY <2>4, <2>5, <2>6
<1>2. ci \in Seq(Msg) /\ \A m \in ToSet(ci) : ~OfServers(m)
  <2>1. ci \in Seq(Msg) /\ ToSet(ci) = {NICKof(u, Reads(x, u)) : u \in {v \in Users : usr[x][v] # None}}
    BY InfoIs DEF IInv
  <2>2. \A u, r : ~OfServers(NICKof(u, r))
    BY DEF NICKof, OfServers
  <2> HIDE DEF ci
  <2> QED BY <2>1, <2>2
<1>3. /\ hello \in Seq(Msg) /\ hello # <<>> /\ Head(hello) = SERVERof(x)
      /\ ToSet(hello) = {SERVERof(x)}
  BY ToSetSmall, MessagesTyped
<1> HIDE DEF si, ci, hello, T
<1> DEFINE rest == si \o ci
<1>4. rest \in Seq(Msg) /\ ToSet(rest) = ToSet(si) \cup ToSet(ci)
  BY <1>1, <1>2, ToSetConcat
<1> HIDE DEF rest
<1>5. /\ hello \o rest \in Seq(Msg) /\ hello \o rest # <<>> /\ Head(hello \o rest) = SERVERof(x)
      /\ ToSet(hello \o rest) = ToSet(hello) \cup ToSet(rest)
  BY <1>3, <1>4, ToSetConcat, HeadConcat
<1>6. ASSUME NEW m \in ToSet(hello \o rest), OfServers(m)
      PROVE  \E h \in Servers : m = SERVERof(h) /\ (h = x \/ (h # y /\ srv[x][h] # None))
  BY <1>1, <1>2, <1>3, <1>4, <1>5, <1>6 DEF T
<1>7. \A h \in Servers \ {y} : srv[x][h] # None => SERVERof(h) \in ToSet(hello \o rest)
  BY <1>1, <1>4, <1>5 DEF T
<1> QED BY <1>5, <1>6, <1>7 DEF hello, rest, si, ci

\* Who tells y of a server lies between.
LEMMA IntroductionSides ==
    ASSUME NEW par \in Forests, Acyclic(par), Found(srv, par), NEW x \in Servers, NEW y \in Servers,
           srv \in [Servers -> [Servers -> Servers \cup {None}]],
           Edge(par, x, y), \A z \in Servers : srv[x][z] # y,
           NEW h \in Servers, h = x \/ srv[x][h] # None
    PROVE  Toward(par, y, x, h)
<1>1. CASE h = x
  BY <1>1, TowardHome
<1>2. CASE srv[x][h] # None
  <2>1. srv[x][h] \in Servers /\ Toward(par, x, srv[x][h], h) /\ srv[x][h] # y
    BY <1>2 DEF Found
  <2> QED BY <2>1, TowardPassedOn
<1> QED BY <1>1, <1>2

LEMMA LinkSides ==
    ASSUME SInv, IInv', NEW x \in Servers, NEW p \in Servers, NEW ms, LinkTo(x, p, ms),
           parent[x] = None, ~Under(parent, p, x), UNCHANGED srv,
           \A b \in Servers : Running(b)' => Running(b) \/ status[b] = "off",
           <<SERVERof(x)>> \o ms \in Seq(Msg),
           \A m \in ToSet(<<SERVERof(x)>> \o ms) : Side(WithEdge(parent, x, p), p, x, m) /\ m.type # "SQUIT"
    PROVE  SInv'
<1> DEFINE par == WithEdge(parent, x, p)
           nms == <<SERVERof(x)>> \o ms
<1>0. /\ parent \in Forests /\ Acyclic(parent)
      /\ open \in [Servers -> SUBSET Servers] /\ queue \in Queues
      /\ srv \in [Servers -> [Servers -> Servers \cup {None}]] /\ srv' = srv
  BY Shapes DEF SInv
<1>1. parent' = par /\ par \in Forests /\ Acyclic(par)
  BY <1>0, LinkKeepsAcyclic DEF LinkTo, WithEdge
<1>2. p # x /\ parent[p] # x /\ ~Edge(parent, x, p) /\ ~Edge(parent, p, x)
  <2>1. p # x
    BY UnderItself
  <2>2. parent[p] # x
    BY <1>0, UnderItself, UnderParent
  <2> QED BY <2>1, <2>2, NoneAssumption DEF Edge
<1>3. \A a, b \in Servers : a \in open'[b] <=> a \in open[b] \/ (a = p /\ b = x) \/ (a = x /\ b = p)
  BY <1>0, <1>2 DEF LinkTo
<1>4. \A a, b \in Servers : queue'[a][b] = IF a = x /\ b = p THEN nms ELSE queue[a][b]
  BY <1>0 DEF LinkTo, Queues
<1>5. /\ \A z \in Servers : par[z] = IF z = x THEN p ELSE parent[z]
  BY <1>0 DEF WithEdge, Forests
<1>6. \A a, b, h \in Servers : Toward(parent, a, b, h) => Toward(par, a, b, h)
  BY <1>0, LinkKeepsToward
<1>7. \A h, v \in Servers : Joined(parent, h, v) => Joined(par, h, v)
  BY <1>0, LinkKeepsJoined
<1> HIDE DEF par, nms
<1>8. Sides(queue, parent)'
  <2> SUFFICES ASSUME NEW a \in Servers, NEW b \in Servers, NEW m \in ToSet(queue'[b][a])
               PROVE  Side(par, a, b, m)
    BY <1>1 DEF Sides
  <2>1. CASE b = x /\ a = p
    BY <1>4, <2>1 DEF par, nms
  <2>2. CASE ~(b = x /\ a = p)
    <3>1. m \in ToSet(queue[b][a])
      BY <1>4, <2>2
    <3>2. Side(parent, a, b, m) /\ (OfServers(m) => m.who \in Servers)
      BY <1>0, <3>1, InQueues DEF SInv, Sides
    <3> QED BY <1>6, <1>7, <3>2 DEF Side, OfServers
  <2> QED BY <2>1, <2>2
<1>9. Found(srv, parent)'
  BY <1>0, <1>1, <1>6 DEF SInv, Found
<1>10. Held'
  <2> SUFFICES ASSUME NEW b \in Servers, Running(b)', NEW v \in Servers, srv[b][v] = v PROVE v \in open'[b]
    BY <1>0 DEF Held, Direct
  <2>1. Running(b)
    BY OffAlone DEF SInv
  <2> QED BY <1>3, <2>1 DEF SInv, Held, Direct
<1>11. Gone(queue, open)'
  <2> SUFFICES ASSUME NEW a \in Servers, NEW y \in Servers, NEW z \in Servers,
                      par[y] = a, z # y, SQUITof(y) \in ToSet(queue'[a][z])
               PROVE  y \notin open'[a]
    BY <1>1 DEF Gone
  <2>1. ~(a = x /\ z = p)
    BY <1>4 DEF nms, SQUITof
  <2>2. SQUITof(y) \in ToSet(queue[a][z]) /\ queue[a][z] # <<>>
    <3>1. SQUITof(y) \in ToSet(queue[a][z])
      BY <1>4, <2>1
    <3>2. PICK e : e = <<>>
      OBVIOUS
    <3>3. ToSet(e) = {}
      BY <3>2 DEF ToSet
    <3> QED BY <3>1, <3>2, <3>3
  <2>3. y # x
    <3>1. SUFFICES ASSUME y = x PROVE FALSE
      OBVIOUS
    <3>2. a = p /\ Edge(parent, z, p)
      BY <1>5, <2>2, <3>1 DEF SInv, IInv, Fits
    <3>3. Joined(parent, x, z)
      BY <2>2, <3>1 DEF SInv, Sides, Side, SQUITof
    <3>4. Joined(parent, x, p)
      BY <3>2, <3>3, JoinedAlongEdge
    <3> QED BY <1>0, <3>4, UnderItself, RootIsAbove
  <2>4. parent[y] = a /\ y \notin open[a]
    BY <1>5, <2>2, <2>3 DEF SInv, Gone
  <2> QED BY <1>2, <1>3, <2>3, <2>4
<1>13. SiblingsTold'
  <2> SUFFICES ASSUME NEW a \in Servers, NEW y \in Servers, NEW z \in Servers, Siblings(a, y, z)'
               PROVE  ToldOf(a, y, z)'
    BY DEF SiblingsTold
  <2>1. par[y] = a /\ par[z] = a /\ y # z /\ srv[a][y] = y /\ srv[a][z] = z /\ Linked(a, z)'
    BY <1>0, <1>1 DEF Siblings
  <2>2. srv[p][x] # x
    BY <1>2 DEF SInv, IInv, ServersFit
  <2>3. y # x /\ z # x
    BY <1>5, <2>1, <2>2
  <2>4. parent[y] = a /\ parent[z] = a
    BY <1>5, <2>1, <2>3
  <2>5. Running(a) /\ Running(z)
    BY <2>1, <2>4, OffAlone, NoneAssumption DEF Linked, SInv
  <2>6. ~(z = p /\ a = x)
    BY <1>2, <2>4
  <2>7. a \in open[z] /\ z \in open[a]
    BY <1>3, <2>1, <2>3, <2>6 DEF Linked
  <2>8. Siblings(a, y, z)
    <3>1. TypeOK /\ {y, z} \cap heirs'[a] = {}
      BY DEF SInv, IInv, Siblings
    <3>2. heirs[a] \subseteq heirs'[a]
      BY <3>1, HeirsStay
    <3> QED BY <2>1, <2>4, <2>5, <2>7, <3>1, <3>2 DEF Siblings, Linked
  <2>9. queue'[a][z] = queue[a][z] /\ queue'[z][a] = queue[z][a]
    BY <1>4, <2>3, <2>6
  <2> QED BY <1>0, <2>8, <2>9 DEF SInv, SiblingsTold, ToldOf
<1> QED BY <1>8, <1>9, <1>10, <1>11, <1>13 DEF SInv

LEMMA StartSides ==
    ASSUME SInv, NEW x \in Servers, Start(x)
    PROVE  SInv'
<1>0. IInv'
  BY StartKeeps DEF SInv
<1>1. /\ status[x] = "off" /\ status' = [status EXCEPT ![x] = "running"] /\ srv' = srv
      /\ parent[x] = None /\ \A z \in Servers : parent[z] # x /\ srv[x][z] # z
  BY OffAlone DEF Start, SInv
<1>2. \A b \in Servers : Running(b)' => Running(b) \/ status[b] = "off"
  BY <1>1 DEF Running, SInv, IInv, TypeOK
<1>3. CASE UNCHANGED <<parent, heirs, open, queue>>
  <2>1. parent' = parent /\ heirs' = heirs /\ open' = open /\ queue' = queue /\ srv' = srv
    BY <1>1, <1>3
  <2>2. Sides(queue, parent)' /\ Found(srv, parent)' /\ Gone(queue, open)'
    BY <2>1 DEF SInv, Sides, Found, Gone
  <2>3. Held'
    BY <1>2, <2>1, OffAlone DEF SInv, Held, Direct
  <2>4. SiblingsTold'
    <3> SUFFICES ASSUME NEW a \in Servers, NEW y \in Servers, NEW z \in Servers, Siblings(a, y, z)'
                 PROVE  ToldOf(a, y, z)'
      BY DEF SiblingsTold
    <3>1. Running(a) /\ Running(z)
      BY <1>2, <2>1, OffAlone, NoneAssumption DEF Siblings, Linked, SInv
    <3>2. Siblings(a, y, z)
      BY <2>1, <3>1 DEF Siblings, Linked
    <3> QED BY <2>1, <3>2 DEF SInv, SiblingsTold, ToldOf
  <2> QED BY <1>0, <2>2, <2>3, <2>4 DEF SInv
<1>4. ASSUME NEW p \in Servers, Running(p), LinkTo(x, p, <<>>) PROVE SInv'
  <2> DEFINE ms == <<>>
             nms == <<SERVERof(x)>> \o ms
             par == WithEdge(parent, x, p)
  <2>1. parent \in Forests /\ Acyclic(parent) /\ p # x
    BY <1>1, <1>4, Shapes DEF SInv, Running
  <2>2. ~Under(parent, p, x)
    <3>1. p \in Servers \ {x} /\ ClosedUp(parent, Servers \ {x})
      BY <1>1, <2>1 DEF ClosedUp, Forests
    <3> QED BY <3>1 DEF Under
  <2>3. nms \in Seq(Msg) /\ ToSet(nms) = {SERVERof(x)}
    <3>1. nms = <<SERVERof(x)>>
      BY ToSetSmall, MessagesTyped, ConcatEmptySeq
    <3> QED BY <3>1, ToSetSmall, MessagesTyped
  <2>4. Toward(par, p, x, x)
    <3>1. par \in Forests /\ Acyclic(par) /\ Edge(par, x, p)
      BY <1>1, <2>1, <2>2, LinkKeepsAcyclic DEF WithEdge, Forests, Edge
    <3> HIDE DEF par
    <3> QED BY <3>1, TowardHome
  <2>5. Side(par, p, x, SERVERof(x)) /\ SERVERof(x).type # "SQUIT"
    BY <2>4 DEF Side, SERVERof
  <2>6. LinkTo(x, p, ms)
    BY <1>4
  <2>7. nms \in Seq(Msg) /\ \A m \in ToSet(nms) : Side(par, p, x, m) /\ m.type # "SQUIT"
    BY <2>3, <2>5
  <2> HIDE DEF ms
  <2> QED BY <1>0, <1>1, <1>2, <2>2, <2>6, <2>7, LinkSides
<1> QED BY <1>3, <1>4 DEF Start

LEMMA CONNECTSides ==
    ASSUME SInv, NEW x \in Servers, NEW p \in Servers, CONNECT(x, p)
    PROVE  SInv'
<1> DEFINE ms == ServersInfo(x, p) \o ClientsInfo(x)
           par == WithEdge(parent, x, p)
           nms == <<SERVERof(x)>> \o ms
<1>0. IInv'
  BY CONNECTKeeps DEF SInv
<1>1. /\ LinkTo(x, p, ms) /\ parent[x] = None /\ NotUnder(p, x) /\ UNCHANGED <<status, srv>>
  BY DEF CONNECT
<1>2. ~Under(parent, p, x)
  BY <1>1 DEF NotUnder, Under, ClosedUp
<1>3. parent \in Forests /\ Acyclic(parent) /\ srv \in [Servers -> [Servers -> Servers \cup {None}]]
  BY Shapes DEF SInv
<1>4. par \in Forests /\ Acyclic(par) /\ Edge(par, x, p)
  BY <1>1, <1>2, <1>3, LinkKeepsAcyclic DEF WithEdge, Forests, Edge
<1>5. Found(srv, par)
  <2>1. \A a, b, h \in Servers : Toward(parent, a, b, h) => Toward(par, a, b, h)
    BY <1>1, <1>2, <1>3, LinkKeepsToward
  <2> HIDE DEF par
  <2> QED BY <1>3, <2>1 DEF SInv, Found
<1>6. \A z \in Servers : srv[x][z] # p
  <2>1. ~Edge(parent, x, p)
    <3>1. parent[p] # x
      BY <1>2, <1>3, UnderItself, UnderParent
    <3> QED BY <1>1, <3>1, NoneAssumption DEF Edge
  <2> QED BY <2>1, TowardIsEdge, NoneAssumption DEF SInv, Found
<1>7. /\ nms \in Seq(Msg)
      /\ \A m \in ToSet(nms) : OfServers(m) =>
            \E h \in Servers : m = SERVERof(h) /\ (h = x \/ (h # p /\ srv[x][h] # None))
  BY IntroductionIs DEF SInv
<1> HIDE DEF par, nms, ms
<1>8. ASSUME NEW m \in ToSet(nms) PROVE Side(par, p, x, m) /\ m.type # "SQUIT"
  <2>1. CASE ~OfServers(m)
    BY <2>1 DEF Side, OfServers
  <2>2. CASE OfServers(m)
    <3>1. PICK h \in Servers : m = SERVERof(h) /\ (h = x \/ srv[x][h] # None)
      BY <1>7, <2>2
    <3>2. Toward(par, p, x, h)
      BY <1>3, <1>4, <1>5, <1>6, <3>1, IntroductionSides
    <3> QED BY <3>1, <3>2 DEF Side, SERVERof
  <2> QED BY <2>1, <2>2
<1>9. \A b \in Servers : Running(b)' => Running(b) \/ status[b] = "off"
  BY <1>1 DEF Running
<1> QED BY <1>0, <1>1, <1>2, <1>7, <1>8, <1>9, LinkSides DEF nms, par

LEMMA ReceiveServerSides ==
    ASSUME SInv, NEW x \in Servers, NEW y \in Servers, ReceiveServer(x, y)
    PROVE  SInv'
<1> DEFINE m == Head(queue[y][x])
<1>0. IInv'
  BY ReceiveServerKeeps DEF SInv
<1>1. Receives(x, y, "SERVER") /\ srv[x][y] = y /\ UNCHANGED <<status, parent, heirs, open>>
      /\ parent' = parent /\ open' = open
  BY DEF ReceiveServer, Receives
<1>2. PICK z \in Servers : z = m.who
  BY <1>1, HeadIs DEF SInv
<1>3. m = SERVERof(z)
  <2>1. m \in Msg /\ m.type = "SERVER"
    BY <1>1, HeadIs DEF SInv
  <2> QED BY <1>2, <2>1 DEF Msg, SERVERof
<1> DEFINE t == Taken(x, y)
           S == Others(x, y)
           ms == <<SERVERof(z)>>
           q == Sent(t, x, S, ms)
<1>4. queue' = q /\ srv' = IF srv[x][z] = None THEN [srv EXCEPT ![x][z] = y] ELSE srv
  BY <1>2 DEF ReceiveServer
<1>5. /\ queue \in Queues /\ open \in [Servers -> SUBSET Servers] /\ queue[y][x] # <<>>
      /\ parent \in Forests /\ Acyclic(parent)
      /\ srv \in [Servers -> [Servers -> Servers \cup {None}]]
  BY <1>1, Shapes DEF SInv, Receives, Arrives
<1>6. /\ t \in Queues /\ Sides(t, parent) /\ TakenHas(x, y) /\ Toward(parent, x, y, z)
  <2>1. t \in Queues /\ Sides(t, parent) /\ Side(parent, x, y, m) /\ TakenHas(x, y)
    BY <1>5, TakenSides, TakenContent DEF SInv
  <2>2. Toward(parent, x, y, z)
    BY <1>3, <2>1 DEF Side, SERVERof
  <2> QED BY <1>1, <2>1, <2>2 DEF Receives
<1>7. ms \in Seq(Msg) /\ ToSet(ms) = {SERVERof(z)} /\ S \subseteq Direct(x)
  BY ToSetSmall, MessagesTyped DEF Others
<1>8. MaySay(x, S, ms)
  <2> SUFFICES ASSUME NEW b \in Servers, b \in S, Edge(parent, x, b) PROVE Side(parent, b, x, SERVERof(z))
    BY <1>7 DEF MaySay
  <2>1. Toward(parent, b, x, z)
    BY <1>5, <1>6, TowardPassedOn DEF Others
  <2> QED BY <2>1 DEF Side, SERVERof
<1> HIDE DEF S, ms
<1>9. q \in Queues /\ Sides(q, parent) /\ SentHas(t, x, S, ms)
  BY <1>6, <1>7, <1>8, SentSides, SentEffect, SentContent DEF SInv
<1> HIDE DEF q
<1>11. \A a, b \in Servers : \A n :
          /\ n \in ToSet(q[a][b]) => n \in ToSet(queue[a][b]) \/ n = SERVERof(z)
          /\ n \in ToSet(queue[a][b]) => n \in ToSet(q[a][b]) \/ (a = y /\ b = x /\ n = SERVERof(z))
  <2> SUFFICES ASSUME NEW a \in Servers, NEW b \in Servers
               PROVE  \A n :
                        /\ n \in ToSet(q[a][b]) => n \in ToSet(queue[a][b]) \/ n = SERVERof(z)
                        /\ n \in ToSet(queue[a][b]) =>
                              n \in ToSet(q[a][b]) \/ (a = y /\ b = x /\ n = SERVERof(z))
    OBVIOUS
  <2>1. ToSet(q[a][b]) = ToSet(t[a][b]) \/ ToSet(q[a][b]) = ToSet(t[a][b]) \cup ToSet(ms)
    BY <1>9 DEF SentHas, q
  <2>2. /\ ToSet(t[a][b]) \subseteq ToSet(queue[a][b])
        /\ \A n \in ToSet(queue[a][b]) : n \in ToSet(t[a][b]) \/ (a = y /\ b = x /\ n = SERVERof(z))
    BY <1>3, <1>6 DEF TakenHas
  <2> HIDE DEF t
  <2> QED BY <1>7, <2>1, <2>2
<1> HIDE DEF t
<1>12. \A a, b \in Servers : srv'[b][a] = IF b = x /\ a = z /\ srv[x][z] = None THEN y ELSE srv[b][a]
  BY <1>4, <1>5
<1>13. \A a, b \in Servers : srv'[b][a] = a <=> srv[b][a] = a
  BY <1>1, <1>12, NoneAssumption
<1>14. Sides(queue, parent)' /\ Found(srv, parent)'
  BY <1>1, <1>4, <1>6, <1>9, <1>12 DEF SInv, Found
<1>15. Held'
  BY <1>1, <1>13 DEF SInv, Held, Direct, Running
<1>16. Gone(queue, open)'
  <2>1. \A v : SQUITof(v) # SERVERof(z)
    BY DEF SQUITof, SERVERof
  <2> QED BY <1>1, <1>4, <1>11, <2>1 DEF SInv, Gone
<1>18. SiblingsTold'
  <2> SUFFICES ASSUME NEW a \in Servers, NEW v \in Servers, NEW w \in Servers, Siblings(a, v, w)'
               PROVE  ToldOf(a, v, w)'
    BY DEF SiblingsTold
  <2>1. Siblings(a, v, w)
    BY <1>1, <1>13 DEF Siblings, Linked, Running
  <2>2. ToldOf(a, v, w)
    BY <2>1 DEF SInv, SiblingsTold
  <2>3. srv[w][v] # None => srv'[w][v] # None
    BY <1>12, NoneAssumption
  <2>4. SERVERof(v) \in ToSet(queue[a][w]) => SERVERof(v) \in ToSet(queue'[a][w]) \/ srv'[w][v] # None
    <3>1. SERVERof(v) = SERVERof(z) => v = z
      BY DEF SERVERof
    <3> QED BY <1>4, <1>11, <1>12, <3>1, NoneAssumption
  <2>5. SQUITof(v) \in ToSet(queue[w][a]) => SQUITof(v) \in ToSet(queue'[w][a])
    <3>1. SQUITof(v) # SERVERof(z)
      BY DEF SERVERof, SQUITof
    <3> QED BY <1>4, <1>11, <3>1
  <2> QED BY <2>2, <2>3, <2>4, <2>5 DEF ToldOf
<1> QED BY <1>0, <1>14, <1>15, <1>16, <1>18 DEF SInv

\* The first message of a link: children are told of it, and it of them.
LEMMA ReceiveRegistrationSides ==
    ASSUME SInv, NEW x \in Servers, NEW y \in Servers, ReceiveRegistration(x, y)
    PROVE  SInv'
<1> DEFINE m == Head(queue[y][x])
           ms == <<SERVERof(x)>> \o (ServersInfo(x, y) \o ClientsInfo(x))
           news == <<SERVERof(y)>>
           t == Taken(x, y)
           C == {y}
           O == Others(x, y)
           told == Sent(t, x, C, ms)
           all == Sent(told, x, O, news)
<1>0. IInv'
  BY ReceiveRegistrationKeeps DEF SInv
<1>1. /\ Arrives(x, y) /\ Head(queue[y][x]) = SERVERof(y) /\ srv[x][y] = None /\ srv' = [srv EXCEPT ![x][y] = y]
      /\ queue' = (IF y \in ByParentFd(x) THEN t ELSE all)
      /\ parent' = parent /\ heirs' = heirs /\ open' = open /\ status' = status
  <2>1. TypeOK /\ <<SERVERof(x)>> \in Seq(Msg)
    BY ToSetSmall, MessagesTyped DEF SInv, IInv
  <2>2. ServersInfo(x, y) \in Seq(Msg) /\ ClientsInfo(x) \in Seq(Msg)
    BY <2>1, InfoIs
  <2>3. ms = <<SERVERof(x)>> \o ServersInfo(x, y) \o ClientsInfo(x)
    BY <2>1, <2>2, ConcatAssociative
  <2> QED BY <2>3 DEF ReceiveRegistration
<1>2. /\ parent \in Forests /\ Acyclic(parent) /\ queue \in Queues
      /\ open \in [Servers -> SUBSET Servers]
      /\ srv \in [Servers -> [Servers -> Servers \cup {None}]]
      /\ y \in open[x] /\ queue[y][x] # <<>>
  BY <1>1, Shapes DEF SInv, Receives, Arrives
<1>3. Edge(parent, x, y)
  BY <1>2 DEF SInv, IInv, ServersFit
<1>4. \A z \in Servers : srv[x][z] # y
  BY <1>1, NoneAssumption DEF SInv, IInv, ServersFit
<1>5. /\ ms \in Seq(Msg) /\ ms # <<>> /\ Head(ms) = SERVERof(x)
      /\ \A n \in ToSet(ms) : OfServers(n) =>
            \E h \in Servers : n = SERVERof(h) /\ (h = x \/ (h # y /\ srv[x][h] # None))
      /\ \A h \in Servers \ {y} : srv[x][h] # None => SERVERof(h) \in ToSet(ms)
  BY IntroductionIs DEF SInv
<1>6. news \in Seq(Msg) /\ ToSet(news) = {SERVERof(y)}
  BY ToSetSmall, MessagesTyped
<1>7. /\ t \in Queues /\ Sides(t, parent) /\ TakenHas(x, y)
      /\ \A a, b \in Servers : t[a][b] = IF a = y /\ b = x THEN Tail(queue[y][x]) ELSE queue[a][b]
  BY <1>2, TakenSides, TakenContent, TakenEffect DEF SInv
<1> HIDE DEF ms, news, t
<1>8. MaySay(x, C, ms) /\ MaySay(x, O, news)
  <2>1. ASSUME NEW n \in ToSet(ms) PROVE Side(parent, y, x, n)
    <3>1. CASE ~OfServers(n)
      BY <3>1 DEF Side, OfServers
    <3>2. CASE OfServers(n)
      <4>1. PICK h \in Servers : n = SERVERof(h) /\ (h = x \/ srv[x][h] # None)
        BY <1>5, <3>2
      <4>2. Toward(parent, y, x, h)
        BY <1>2, <1>3, <1>4, <4>1, IntroductionSides DEF SInv
      <4> QED BY <4>1, <4>2 DEF Side, SERVERof
    <3> QED BY <3>1, <3>2
  <2>2. ASSUME NEW b \in Servers, b \in O, Edge(parent, x, b) PROVE Side(parent, b, x, SERVERof(y))
    <3>1. Toward(parent, x, y, y)
      BY <1>2, <1>3, TowardHome DEF Edge
    <3>2. Toward(parent, b, x, y)
      BY <1>2, <2>2, <3>1, TowardPassedOn DEF Others
    <3> QED BY <3>2 DEF Side, SERVERof
  <2> QED BY <1>6, <2>1, <2>2 DEF MaySay
<1> HIDE DEF C, O
<1>9. /\ told \in Queues /\ Sides(told, parent) /\ SentHas(t, x, C, ms)
      /\ \A a, b \in Servers : told[a][b] = IF a = x /\ b \in C /\ x \in open[b] THEN t[a][b] \o ms ELSE t[a][b]
  BY <1>5, <1>7, <1>8, SentSides, SentEffect, SentContent DEF SInv
<1> HIDE DEF told
<1>10. /\ all \in Queues /\ Sides(all, parent) /\ SentHas(told, x, O, news)
       /\ \A a, b \in Servers :
             all[a][b] = IF a = x /\ b \in O /\ x \in open[b] THEN told[a][b] \o news ELSE told[a][b]
  BY <1>6, <1>8, <1>9, SentSides, SentEffect, SentContent DEF SInv
<1> HIDE DEF all
<1>11. \A a, b \in Servers :
          /\ ToSet(all[a][b]) =
                IF a = x /\ b \in O /\ x \in open[b] THEN ToSet(told[a][b]) \cup {SERVERof(y)} ELSE ToSet(told[a][b])
          /\ ToSet(told[a][b]) =
                IF a = x /\ b \in C /\ x \in open[b] THEN ToSet(t[a][b]) \cup ToSet(ms) ELSE ToSet(t[a][b])
  <2>1. \A a, b \in Servers : ToSet(told[a][b]) =
            IF a = x /\ b \in C /\ x \in open[b] THEN ToSet(t[a][b]) \cup ToSet(ms) ELSE ToSet(t[a][b])
    BY <1>9 DEF SentHas, told
  <2>2. \A a, b \in Servers : ToSet(all[a][b]) =
            IF a = x /\ b \in O /\ x \in open[b] THEN ToSet(told[a][b]) \cup ToSet(news) ELSE ToSet(told[a][b])
    BY <1>10 DEF SentHas, all
  <2> QED BY <1>6, <2>1, <2>2
<1>12. /\ \A a, b \in Servers : srv'[b][a] = IF b = x /\ a = y THEN y ELSE srv[b][a]
       /\ \A a, b \in Servers : srv[b][a] # None => srv'[b][a] = srv[b][a]
  BY <1>1, <1>2
<1>13. Sides(queue, parent)'
  BY <1>1, <1>7, <1>10
<1>14. Found(srv, parent)'
  <2>1. Toward(parent, x, y, y)
    BY <1>2, <1>3, TowardHome DEF Edge
  <2> QED BY <1>1, <1>12, <2>1 DEF SInv, Found
<1>15. Held'
  BY <1>1, <1>2, <1>12 DEF SInv, Held, Direct, Running
<1>16. Gone(queue, open)'
  <2> SUFFICES ASSUME NEW a \in Servers, NEW v \in Servers, NEW w \in Servers,
                      parent[v] = a, w # v, SQUITof(v) \in ToSet(queue'[a][w])
               PROVE  v \notin open[a]
    BY <1>1 DEF Gone
  <2>1. SQUITof(v) # SERVERof(y) /\ OfServers(SQUITof(v)) /\ \A h : SQUITof(v) # SERVERof(h)
    BY DEF SQUITof, SERVERof, OfServers
  <2>2. SQUITof(v) \in ToSet(t[a][w])
    <3>1. SQUITof(v) \notin ToSet(ms)
      BY <1>5, <2>1
    <3>2. SQUITof(v) \in ToSet(all[a][w]) => SQUITof(v) \in ToSet(t[a][w])
      <4>1. PICK n : n = SQUITof(v)
        OBVIOUS
      <4>2. n # SERVERof(y) /\ n \notin ToSet(ms)
        BY <2>1, <3>1, <4>1
      <4>3. /\ n \in ToSet(all[a][w]) => n \in ToSet(told[a][w])
            /\ n \in ToSet(told[a][w]) => n \in ToSet(t[a][w])
        <5>1. ToSet(all[a][w]) = ToSet(told[a][w]) \/ ToSet(all[a][w]) = ToSet(told[a][w]) \cup {SERVERof(y)}
          BY <1>11
        <5>2. ToSet(told[a][w]) = ToSet(t[a][w]) \/ ToSet(told[a][w]) = ToSet(t[a][w]) \cup ToSet(ms)
          BY <1>11
        <5> QED BY <4>2, <5>1, <5>2
      <4> QED BY <4>1, <4>3
    <3> QED BY <1>1, <3>2
  <2>3. ToSet(t[a][w]) \subseteq ToSet(queue[a][w])
    BY <1>7 DEF TakenHas, t
  <2>4. SQUITof(v) \in ToSet(queue[a][w])
    BY <2>2, <2>3
  <2> QED BY <2>4 DEF SInv, Gone
<1>18. SiblingsTold'
  <2> SUFFICES ASSUME NEW a \in Servers, NEW v \in Servers, NEW w \in Servers, Siblings(a, v, w)'
               PROVE  ToldOf(a, v, w)'
    BY DEF SiblingsTold
  <2>1. /\ parent[v] = a /\ parent[w] = a /\ v # w /\ {v, w} \cap heirs[a] = {}
        /\ srv'[a][v] = v /\ srv'[a][w] = w /\ Linked(a, w)
    BY <1>1 DEF Siblings, Linked, Running
  <2>2. ASSUME NEW b \in Servers, NEW c \in Servers PROVE ToSet(t[b][c]) \subseteq ToSet(queue'[b][c])
    BY <1>1, <1>11
  <2>3. CASE a = x /\ v = y
    <3>1. queue' = all
      <4>1. parent[x] # y
        BY <1>2, <2>1, <2>3, UnderItself, UnderParent, NoneAssumption DEF Acyclic
      <4> QED BY <1>1, <2>1, <2>3, <4>1 DEF ByParentFd
    <3>2. w \in O /\ x \in open[w]
      BY <1>12, <2>1, <2>3 DEF O, Others, Direct, Linked
    <3> QED BY <1>11, <2>3, <3>1, <3>2 DEF ToldOf
  <2>4. CASE a = x /\ w = y
    <3>1. queue' = all
      <4>1. parent[x] # y
        BY <1>2, <2>1, <2>4, UnderItself, UnderParent, NoneAssumption DEF Acyclic
      <4> QED BY <1>1, <2>1, <2>4, <4>1 DEF ByParentFd
    <3>2. w \in C /\ x \in open[w] /\ srv[x][v] # None /\ v # y
      BY <1>12, <2>1, <2>4, NoneAssumption DEF C, Linked
    <3>3. SERVERof(v) \in ToSet(ms)
      BY <1>5, <3>2
    <3>4. SERVERof(v) \in ToSet(all[a][w])
      BY <1>11, <2>4, <3>2, <3>3
    <3> QED BY <3>1, <3>4 DEF ToldOf
  <2>5. CASE ~(a = x /\ v = y) /\ ~(a = x /\ w = y)
    <3>1. Siblings(a, v, w)
      BY <1>12, <2>1, <2>5 DEF Siblings
    <3>2. CASE srv[w][v] # None
      BY <1>12, <3>2 DEF ToldOf
    <3>3. CASE SERVERof(v) \in ToSet(queue[a][w])
      <4>1. SERVERof(v) \in ToSet(t[a][w])
        <5>1. SUFFICES ASSUME a = y, w = x, SERVERof(v) = m PROVE FALSE
          BY <1>7, <3>3 DEF TakenHas, t
        <5>2. m = SERVERof(y)
          BY <1>1, <5>1
        <5>3. v = y
          BY <5>1, <5>2 DEF SERVERof
        <5> QED BY <1>2, <2>1, <5>1, <5>3, UnderItself, NoneAssumption DEF Acyclic
      <4> QED BY <2>2, <4>1 DEF ToldOf
    <3>4. CASE SQUITof(v) \in ToSet(queue[w][a])
      <4>1. SQUITof(v) # m
        BY <1>1 DEF SERVERof, SQUITof
      <4>2. SQUITof(v) \in ToSet(t[w][a])
        BY <1>7, <3>4, <4>1 DEF TakenHas, t
      <4> QED BY <2>2, <4>2 DEF ToldOf
    <3> QED BY <3>1, <3>2, <3>3, <3>4 DEF SInv, SiblingsTold, ToldOf
  <2> QED BY <2>3, <2>4, <2>5
<1> QED BY <1>0, <1>13, <1>14, <1>15, <1>16, <1>18 DEF SInv

\* x, which was taken for y's parent, takes what it cannot have, and is given up.
LEMMA ReceiveStraySides ==
    ASSUME SInv, NEW x \in Servers, NEW y \in Servers, ReceiveStray(x, y)
    PROVE  SInv'
<1>0. IInv'
  BY ReceiveStrayKeeps DEF SInv
<1>1. /\ queue[y][x] # <<>> /\ queue' = Taken(x, y)
      /\ parent' = parent /\ heirs' = heirs /\ open' = open /\ srv' = srv
      /\ \A b \in Servers : Running(b)' <=> b # x /\ Running(b)
  BY DEF ReceiveStray, Arrives, Running, SInv, IInv, TypeOK
<1>2. queue \in Queues
  BY Shapes DEF SInv
<1>3. Sides(queue', parent) /\ TakenHas(x, y)
  BY <1>1, <1>2, TakenSides, TakenContent DEF SInv
<1>4. \A a, b \in Servers : /\ ToSet(queue'[a][b]) \subseteq ToSet(queue[a][b])
                            /\ b # x => ToSet(queue[a][b]) \subseteq ToSet(queue'[a][b])
  BY <1>1, <1>3 DEF TakenHas
<1>5. Sides(queue, parent)' /\ Found(srv, parent)'
  BY <1>1, <1>3 DEF SInv, Found
<1>6. Held'
  BY <1>1 DEF SInv, Held, Direct
<1>7. Gone(queue, open)'
  BY <1>1, <1>4 DEF SInv, Gone
<1>8. SiblingsTold'
  <2> SUFFICES ASSUME NEW a \in Servers, NEW v \in Servers, NEW w \in Servers, Siblings(a, v, w)'
               PROVE  ToldOf(a, v, w)'
    BY DEF SiblingsTold
  <2>1. a # x /\ w # x /\ Siblings(a, v, w)
    BY <1>1 DEF Siblings, Linked
  <2>2. ToldOf(a, v, w)
    BY <2>1 DEF SInv, SiblingsTold
  <2> QED BY <1>1, <1>4, <2>1, <2>2 DEF ToldOf
<1> QED BY <1>0, <1>5, <1>6, <1>7, <1>8 DEF SInv

-----------------------------------------------------------------------------
(* The theorem. *)

LEMMA InitSides == Init => SInv
<1> SUFFICES ASSUME Init PROVE SInv
  OBVIOUS
<1>1. IInv
  BY InitInv
<1>2. PICK e : e = <<>>
  OBVIOUS
<1>3. ToSet(e) = {}
  BY <1>2 DEF ToSet
<1>4. \A x, y \in Servers : queue[x][y] = e
  BY <1>2 DEF Init
<1>5. Sides(queue, parent) /\ Gone(queue, open)
  BY <1>2, <1>3, <1>4 DEF Sides, Gone
<1>6. Found(srv, parent) /\ Held
  BY DEF Init, Found, Held, Running
<1>7. SiblingsTold
  BY DEF Init, SiblingsTold, Siblings, Linked, Running
<1> QED BY <1>1, <1>5, <1>6, <1>7 DEF SInv

LEMMA NextSides == SInv /\ [Next]_vars => SInv'
<1> SUFFICES ASSUME SInv, [Next]_vars PROVE SInv'
  OBVIOUS
<1>1. CASE UNCHANGED vars
  <2>1. IInv'
    BY <1>1, NextKeeps DEF SInv
  <2>2. /\ UNCHANGED <<parent, heirs, open, srv>> /\ queue' = queue /\ status' = status
    BY <1>1 DEF vars
  <2>3. SameSides(queue', queue) /\ \A x \in Servers : Running(x)' => Running(x)
    BY <2>2 DEF SInv, SameSides, Running
  <2> QED BY <2>1, <2>2, <2>3, QuietKeeps
<1>2. ASSUME NEW u \in Users, UserStep(u) PROVE SInv'
  BY <1>2, UserStepSides
<1>3. ASSUME NEW x \in Servers, ServerStep(x) PROVE SInv'
  BY <1>3, StartSides, EndSides DEF ServerStep
<1>4. ASSUME NEW x \in Servers, NEW y \in Servers, LinkStep(x, y) PROVE SInv'
  BY <1>4, CONNECTSides, HangUpSides, SQUITSides, ReceiveRegistrationSides, ReceiveStraySides,
     ReceiveServerSides, EndSides, ReceiveSquitSides, ReceiveClientSides
  DEF LinkStep
<1> QED BY <1>1, <1>2, <1>3, <1>4 DEF Next

\* Two registered children of a server know of each other, or will when the
\* queue is handled, or the second is giving the first up: for any tree, while
\* links and servers come and go, but for children that are taken for the parent.
THEOREM SiblingsKnown == Spec => []SiblingsAreAnnounced
<1>1. SInv => SiblingsAreAnnounced
  <2> SUFFICES ASSUME SInv, NEW x \in Servers, NEW y \in Direct(x), NEW z \in Direct(x),
                      y # z, parent[y] = x, parent[z] = x, Linked(x, z), {y, z} \cap heirs[x] = {}
               PROVE  HearsOf(x, y, z)
    BY DEF SiblingsAreAnnounced
  <2>1. ToldOf(x, y, z)
    BY DEF SInv, SiblingsTold, Siblings, Direct
  <2> QED BY <2>1 DEF ToldOf, HearsOf, ToSet
<1>2. Spec => []SInv
  BY InitSides, NextSides, PTL DEF Spec
<1> QED BY <1>1, <1>2, PTL
=============================================================================
