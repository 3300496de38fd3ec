--------------------------- MODULE TimeoutsProofs ---------------------------
(***************************************************************************)
(* Proofs about module Timeouts, for any descriptors, any timeouts that    *)
(* check_timeout_values lets through and any victims of KILL, which leaves *)
(* forms behind.  (What that does to the next owners of a victim's         *)
(* descriptor see MCTimeouts_killed.cfg.)                                  *)
(***************************************************************************)
EXTENDS Timeouts, SequenceTheorems, TLAPS

\* The timeval and the clock of the ping round.  Until select has used up its
\* timeval once, what is left of it bounds the time since the last round.
Clocks ==
    /\ stage # "select" => waited = 0
    /\ waited <= Patience
    /\ remaining <= RegT /\ remaining <= PingT
    /\ remaining > 0 => since_ping + remaining - waited <= PingT

\* The age of a form, where the loop is, unless a KILL may have left it.
FormAges ==
    \A s \in Socks \ Victims : \A i \in DOMAIN forms[s] :
        /\ forms[s][i] <= RegT
        /\ remaining > 0 => forms[s][i] + remaining - waited <= RegT
        /\ stage = "select" /\ remaining = 0 => forms[s][i] < RegT + waited
        /\ stage \in {"ping", "dispatch"} => forms[s][i] < RegT

\* The silence of a connection, measured by the clock of the ping round.
Silence ==
    \A s \in Connected :
        /\ idle[s] < ConnT + since_ping
        /\ s \notin asked => idle[s] < PingT + since_ping
        /\ s \notin Victims /\ conn[s] = "half" => idle[s] <= forms[s][1]

\* When the round is overdue there were no connections at the last wake, and
\* every connection is younger than that.
Overdue ==
    \A s \in Connected :
        /\ stage = "select" /\ since_ping >= PingT + waited => idle[s] <= waited
        /\ stage \in {"checks", "ping"} /\ since_ping > PingT => idle[s] <= 1
        /\ stage = "dispatch" /\ since_ping >= PingT => idle[s] = 0

IInv == TypeOK /\ FormsArePending /\ Clocks /\ FormAges /\ Silence /\ Overdue

-----------------------------------------------------------------------------
(* Constants, ages and forms. *)

LEMMA Constants ==
    /\ PingT \in Nat /\ ConnT \in Nat /\ RegT \in Nat /\ MaxAge \in Nat
    /\ PingT >= 1 /\ ConnT >= 1 /\ RegT >= 1
    /\ PingT <= ConnT /\ RegT <= ConnT
    /\ MaxAge > ConnT + PingT + RegT
BY ConfigAssumption, BoundAssumption

\* A capped age grows by one at most and never shrinks.
LEMMA OlderAge ==
    ASSUME NEW n \in Age
    PROVE  /\ Older(n) \in Age
           /\ n <= Older(n) /\ Older(n) <= n + 1
           /\ n < MaxAge => Older(n) = n + 1
           /\ n = MaxAge => Older(n) = MaxAge
BY BoundAssumption DEF Age, Older

\* A socket of which nobody was killed has no form or one.
LEMMA OneForm ==
    ASSUME TypeOK, FormsArePending, NEW s \in Socks \ Victims
    PROVE  /\ forms[s] \in Seq(Age)
           /\ DOMAIN forms[s] \subseteq {1}
           /\ Pending(s) <=> DOMAIN forms[s] = {1}
           /\ Pending(s) <=> s \in open /\ conn[s] # "full"
           /\ Pending(s) => forms[s][1] \in Age /\ Tail(forms[s]) = <<>>
<1>1. forms[s] \in Seq(Age) /\ Len(forms[s]) <= 1
  BY DEF TypeOK, FormsArePending
<1>2. Len(forms[s]) \in Nat /\ DOMAIN forms[s] = 1..Len(forms[s])
  BY <1>1, LenProperties
<1>3. Pending(s) => Len(forms[s]) = 1
  <2>1. forms[s] # <<>> => Len(forms[s]) \in Nat \ {0}
    BY <1>1, EmptySeq, Zenon
  <2>2. \A n \in Nat \ {0} : n <= 1 => n = 1
    OBVIOUS
  <2> QED BY <1>1, <2>1, <2>2, Zenon DEF Pending
<1>4. ~Pending(s) => Len(forms[s]) = 0
  BY EmptySeq DEF Pending
<1>5. Pending(s) => forms[s][1] \in Age
  BY <1>1, <1>3, ElementOfSeq
<1>6. Pending(s) => Tail(forms[s]) = <<>>
  <2> SUFFICES ASSUME Pending(s) PROVE Tail(forms[s]) = <<>>
    OBVIOUS
  <2>1. Tail(forms[s]) \in Seq(Age) /\ Len(Tail(forms[s])) = 0
    BY <1>1, <1>3, HeadTailProperties DEF Pending
  <2> QED BY <2>1, EmptySeq
<1>7. Pending(s) <=> s \in open /\ conn[s] # "full"
  BY DEF FormsArePending
<1> QED BY <1>1, <1>2, <1>3, <1>4, <1>5, <1>6, <1>7

\* What a step of the dispatch can do to the forms of a socket.
FormStep(s) ==
    \/ forms'[s] = forms[s]
    \/ forms'[s] = <<>>
    \/ forms'[s] \in Seq(Age) /\ DOMAIN forms'[s] = {1} /\ forms'[s][1] = 0

\* What a step of the dispatch can do to the silence of a socket's connection.
SilenceStep(s) ==
    \/ conn'[s] = "none"
    \/ idle'[s] = 0
    \/ /\ conn'[s] = conn[s] /\ idle'[s] = idle[s] /\ forms'[s] = forms[s]
       /\ s \in asked' <=> s \in asked

\* A step of the dispatch resets ages or leaves them, and so keeps the bounds.
LEMMA DispatchKeepsIInv ==
    ASSUME IInv, stage = "dispatch", UNCHANGED loopVars,
           TypeOK', FormsArePending',
           \A s \in Socks \ Victims : FormStep(s),
           \A s \in Socks : SilenceStep(s)
    PROVE  IInv'
<1>1. /\ stage' = "dispatch" /\ waited' = waited /\ remaining' = remaining
      /\ since_ping' = since_ping
  BY DEF loopVars
<1>2. /\ waited = 0 /\ remaining \in Nat /\ since_ping \in Nat
      /\ remaining <= RegT /\ remaining <= PingT
  BY DEF IInv, Clocks, TypeOK, Age
<1>3. Clocks'
  BY <1>1 DEF IInv, Clocks, Patience
<1>4. FormAges'
  <2> SUFFICES ASSUME NEW s \in Socks \ Victims, NEW i \in DOMAIN forms'[s]
               PROVE  forms'[s][i] < RegT /\ forms'[s][i] <= RegT
                      /\ (remaining > 0 => forms'[s][i] + remaining <= RegT)
    BY <1>1, <1>2 DEF FormAges
  <2>1. CASE forms'[s] = forms[s]
    <3>1. forms[s][i] \in Nat
      BY <2>1, OneForm DEF IInv, Age, Pending
    <3> QED BY <1>2, <2>1, <3>1 DEF IInv, FormAges
  <2>2. CASE forms'[s] = <<>>
    BY <2>2
  <2>3. CASE DOMAIN forms'[s] = {1} /\ forms'[s][1] = 0
    BY <1>2, <2>3, ConfigAssumption
  <2> QED BY <2>1, <2>2, <2>3 DEF FormStep
<1>5. ASSUME NEW s \in Connected'
      PROVE  \/ idle'[s] = 0
             \/ s \in Connected /\ idle'[s] = idle[s] /\ conn'[s] = conn[s]
                /\ forms'[s] = forms[s] /\ (s \in asked' <=> s \in asked)
  BY <1>5 DEF Connected, SilenceStep
<1>6. Silence'
  <2> SUFFICES ASSUME NEW s \in Connected'
               PROVE  /\ idle'[s] < ConnT + since_ping'
                      /\ s \notin asked' => idle'[s] < PingT + since_ping'
                      /\ s \notin Victims /\ conn'[s] = "half" => idle'[s] <= forms'[s][1]
    BY DEF Silence
  <2>1. CASE idle'[s] = 0
    <3>1. s \notin Victims /\ conn'[s] = "half" => forms'[s][1] \in Age
      <4> SUFFICES ASSUME s \notin Victims PROVE conn'[s] = "half" => forms'[s][1] \in Age
        OBVIOUS
      <4>1. s \in Socks \ Victims /\ (conn'[s] # "none" => s \in open')
        BY DEF Connected, TypeOK
      <4>2. forms'[s] \in Seq(Age) /\ Len(forms'[s]) <= 1
        BY <4>1 DEF TypeOK, FormsArePending
      <4>3. conn'[s] = "half" => forms'[s] # <<>>
        BY <4>1 DEF FormsArePending, Pending
      <4>4. conn'[s] = "half" => Len(forms'[s]) \in Nat \ {0}
        BY <4>2, <4>3, EmptySeq, Zenon
      <4>5. \A n \in Nat \ {0} : 1 \in 1..n
        OBVIOUS
      <4> QED BY <4>2, <4>4, <4>5, ElementOfSeq, Zenon
    <3> QED BY <1>1, <1>2, <2>1, <3>1, ConfigAssumption DEF Age
  <2>2. CASE s \in Connected /\ idle'[s] = idle[s] /\ conn'[s] = conn[s]
             /\ forms'[s] = forms[s] /\ (s \in asked' <=> s \in asked)
    BY <1>1, <2>2 DEF IInv, Silence
  <2> QED BY <1>5, <2>1, <2>2
<1>7. Overdue'
  BY <1>1, <1>5 DEF IInv, Overdue
<1> QED BY <1>3, <1>4, <1>6, <1>7 DEF IInv

\* The forms of a socket that is heard: as many, and the first may be new.
LEMMA HeardForms ==
    ASSUME TypeOK, NEW s \in Socks
    PROVE  /\ Heard(s) \in Seq(Age) /\ Len(Heard(s)) = Len(forms[s])
           /\ Heard(s) # <<>> <=> forms[s] # <<>>
<1>0. forms[s] \in Seq(Age)
  BY DEF TypeOK
<1>1. CASE Pending(s) /\ conn[s] = "none"
  <2>1. 0 \in Age
    BY BoundAssumption DEF Age
  <2>2. Len(forms[s]) \in Nat \ {0}
    BY <1>0, <1>1, EmptySeq, Zenon DEF Pending
  <2>3. \A n \in Nat \ {0} : 1 \in 1..n
    OBVIOUS
  <2>4. 1 \in 1..Len(forms[s])
    BY <2>2, <2>3
  <2>5. Heard(s) = [forms[s] EXCEPT ![1] = 0]
    BY <1>1 DEF Heard
  <2>6. Heard(s) \in Seq(Age) /\ Len(Heard(s)) = Len(forms[s])
    BY <1>0, <2>1, <2>4, <2>5, ExceptSeq
  <2>7. Heard(s) # <<>>
    BY <2>2, <2>6, EmptySeq
  <2> QED BY <1>1, <2>6, <2>7 DEF Pending
<1>2. CASE ~(Pending(s) /\ conn[s] = "none")
  BY <1>0, <1>2 DEF Heard
<1> QED BY <1>1, <1>2

\* The only form is new.
LEMMA HeardForm ==
    ASSUME TypeOK, FormsArePending, NEW s \in Socks \ Victims
    PROVE  /\ \/ Heard(s) = forms[s]
              \/ DOMAIN Heard(s) = {1} /\ Heard(s)[1] = 0
           /\ conn[s] = "none" /\ Pending(s) => Heard(s)[1] = 0
<1>1. CASE Pending(s) /\ conn[s] = "none"
  <2>1. DOMAIN forms[s] = {1}
    BY <1>1, OneForm
  <2>2. Heard(s) = [forms[s] EXCEPT ![1] = 0]
    BY <1>1 DEF Heard
  <2> QED BY <2>1, <2>2
<1>2. CASE ~(Pending(s) /\ conn[s] = "none")
  BY <1>2 DEF Heard
<1> QED BY <1>1, <1>2

\* One action of the dispatch each.
LEMMA ReceiveKeepsIInv ==
    ASSUME IInv, NEW s \in Socks, Receive(s)
    PROVE  IInv'
<1> USE DEF Receive, Serves, IsLowest
<1>1. TypeOK'
  BY HeardForms, BoundAssumption DEF IInv, TypeOK, Age, loopVars
<1>2. FormsArePending'
  BY HeardForms DEF IInv, TypeOK, FormsArePending, Pending
<1>3. \A t \in Socks \ Victims : FormStep(t)
  BY HeardForms, HeardForm DEF IInv, TypeOK, FormStep
<1>4. \A t \in Socks : SilenceStep(t)
  BY DEF IInv, TypeOK, SilenceStep
<1> QED BY <1>1, <1>2, <1>3, <1>4, DispatchKeepsIInv

LEMMA ReceiveNickKeepsIInv ==
    ASSUME IInv, NEW s \in Socks, ReceiveNick(s)
    PROVE  IInv'
<1> USE DEF ReceiveNick, Serves, IsLowest
<1>1. TypeOK'
  BY HeardForms, BoundAssumption DEF IInv, TypeOK, Age, loopVars
<1>2. FormsArePending'
  BY HeardForms DEF IInv, TypeOK, FormsArePending, Pending
<1>3. \A t \in Socks \ Victims : FormStep(t)
  BY HeardForms, HeardForm DEF IInv, TypeOK, FormStep
<1>4. \A t \in Socks : SilenceStep(t)
  BY DEF IInv, TypeOK, SilenceStep
<1> QED BY <1>1, <1>2, <1>3, <1>4, DispatchKeepsIInv

LEMMA ReceiveRegistrationKeepsIInv ==
    ASSUME IInv, NEW s \in Socks, ReceiveRegistration(s)
    PROVE  IInv'
<1> USE DEF ReceiveRegistration, Serves, IsLowest
<1>1. forms' = [forms EXCEPT ![s] = Tail(@)] /\ Tail(forms[s]) \in Seq(Age)
  <2>1. forms[s] \in Seq(Age) /\ forms[s] # <<>>
    BY DEF IInv, TypeOK, Pending
  <2> QED BY <2>1, HeadTailProperties
<1>2. s \notin Victims => Tail(forms[s]) = <<>>
  BY OneForm DEF IInv
<1>3. TypeOK'
  <2>1. forms' \in [Socks -> Seq(Age)]
    <3>1. forms \in [Socks -> Seq(Age)]
      BY DEF IInv, TypeOK
    <3> QED BY <1>1, <3>1
  <2>2. 0 \in Age
    BY BoundAssumption DEF Age
  <2> QED BY <2>1, <2>2 DEF IInv, TypeOK, loopVars
<1>4. FormsArePending'
  BY <1>1, <1>2, EmptySeq DEF IInv, TypeOK, FormsArePending, Pending
<1>5. \A t \in Socks \ Victims : FormStep(t)
  BY <1>1, <1>2 DEF IInv, TypeOK, FormStep
<1>6. \A t \in Socks : SilenceStep(t)
  BY <1>1 DEF IInv, TypeOK, SilenceStep
<1> QED BY <1>3, <1>4, <1>5, <1>6, DispatchKeepsIInv

LEMMA ReceiveQuitKeepsIInv ==
    ASSUME IInv, NEW s \in Socks, ReceiveQuit(s)
    PROVE  IInv'
<1> USE DEF ReceiveQuit, Close, Serves, IsLowest
<1>1. TypeOK'
  BY BoundAssumption DEF IInv, TypeOK, Age, loopVars
<1>2. FormsArePending'
  BY DEF IInv, TypeOK, FormsArePending, Pending
<1>3. \A t \in Socks : FormStep(t) /\ SilenceStep(t)
  BY DEF IInv, TypeOK, FormStep, SilenceStep
<1> QED BY <1>1, <1>2, <1>3, DispatchKeepsIInv

\* KILL of v leaves the forms of v alone, and whoever is no victim.
LEMMA ReceiveKillKeepsIInv ==
    ASSUME IInv, NEW s \in Socks, NEW v \in Socks, ReceiveKill(s, v)
    PROVE  IInv'
<1> USE DEF ReceiveKill, Serves, IsLowest
<1>1. TypeOK'
  <2>1. 0 \in Age
    BY BoundAssumption DEF Age
  <2>2. conn' \in [Socks -> {"none", "half", "full"}] /\ idle' \in [Socks -> Age]
    BY <2>1 DEF IInv, TypeOK
  <2>3. /\ open' \subseteq Socks /\ ready' \subseteq open'
        /\ mute' \subseteq open' /\ asked' \subseteq open'
    BY DEF IInv, TypeOK
  <2>4. ASSUME NEW t \in Socks, conn'[t] # "none" PROVE t \in open'
    BY <2>4 DEF IInv, TypeOK
  <2> QED BY <2>2, <2>3, <2>4 DEF IInv, TypeOK, loopVars
<1>2. FormsArePending'
  BY DEF IInv, TypeOK, FormsArePending, Pending
<1>3. \A t \in Socks : FormStep(t) /\ SilenceStep(t)
  BY DEF IInv, TypeOK, FormStep, SilenceStep
<1> QED BY <1>1, <1>2, <1>3, DispatchKeepsIInv

LEMMA ReceiveHangupKeepsIInv ==
    ASSUME IInv, NEW s \in Socks, ReceiveHangup(s)
    PROVE  IInv'
<1> USE DEF ReceiveHangup, Close, Serves, IsLowest
<1> DEFINE left == IF Len(forms[s]) > 1 THEN [Tail(forms[s]) EXCEPT ![1] = 0] ELSE <<>>
<1>1. 0 \in Age
  BY BoundAssumption DEF Age
<1>2. forms' = [forms EXCEPT ![s] = left] /\ left \in Seq(Age)
  <2>1. forms[s] \in Seq(Age) /\ Len(forms[s]) \in Nat
    BY LenProperties DEF IInv, TypeOK
  <2>2. CASE Len(forms[s]) > 1
    <3>1. forms[s] # <<>>
      BY <2>2
    <3>2. Tail(forms[s]) \in Seq(Age) /\ Len(Tail(forms[s])) = Len(forms[s]) - 1
      BY <2>1, <3>1, HeadTailProperties
    <3>3. 1 \in 1..Len(Tail(forms[s]))
      BY <2>1, <2>2, <3>2
    <3>4. left \in Seq(Age)
      BY <1>1, <2>2, <3>2, <3>3, ExceptSeq
    <3> QED BY <3>4
  <2>3. CASE ~(Len(forms[s]) > 1)
    BY <2>3, EmptySeq
  <2> QED BY <2>2, <2>3
<1>3. s \notin Victims => left = <<>>
  <2>1. s \notin Victims => Len(forms[s]) <= 1 /\ Len(forms[s]) \in Nat
    BY LenProperties DEF IInv, TypeOK, FormsArePending
  <2>2. \A n \in Nat : n <= 1 => ~(n > 1)
    OBVIOUS
  <2> QED BY <2>1, <2>2, Zenon
<1> HIDE DEF left
<1>4. TypeOK'
  <2>1. forms' \in [Socks -> Seq(Age)]
    <3>1. forms \in [Socks -> Seq(Age)]
      BY DEF IInv, TypeOK
    <3> QED BY <1>2, <3>1
  <2> QED BY <1>1, <2>1 DEF IInv, TypeOK, loopVars
<1>5. FormsArePending'
  BY <1>2, <1>3, EmptySeq DEF IInv, TypeOK, FormsArePending, Pending
<1>6. \A t \in Socks \ Victims : FormStep(t)
  BY <1>2, <1>3 DEF IInv, TypeOK, FormStep
<1>7. \A t \in Socks : SilenceStep(t)
  BY <1>2 DEF IInv, TypeOK, SilenceStep
<1> QED BY <1>4, <1>5, <1>6, <1>7, DispatchKeepsIInv

LEMMA AcceptKeepsIInv ==
    ASSUME IInv, NEW s \in Socks, Accept(s)
    PROVE  IInv'
<1> USE DEF Accept, IsLowest
<1> DEFINE new == IF Len(forms[s]) < MaxForms THEN Append(forms[s], 0) ELSE forms[s]
<1>1. /\ forms' = [forms EXCEPT ![s] = new]
      /\ open' = IF Len(forms[s]) < MaxForms THEN open \cup {s} ELSE open
      /\ UNCHANGED <<loopVars, ready, mute, conn, idle, asked>> /\ knock' = FALSE
      /\ stage = "dispatch" /\ s \notin open
  BY DEF IInv, TypeOK
<1>2. new \in Seq(Age)
  <2>1. forms[s] \in Seq(Age) /\ 0 \in Age
    BY BoundAssumption DEF IInv, TypeOK, Age
  <2> QED BY <2>1, AppendProperties
<1>3. s \notin Victims => new = <<0>> /\ open' = open \cup {s}
  <2> SUFFICES ASSUME s \notin Victims PROVE new = <<0>> /\ open' = open \cup {s}
    OBVIOUS
  <2>1. forms[s] = <<>>
    BY <1>1 DEF IInv, FormsArePending, Pending
  <2>2. Len(forms[s]) < MaxForms
    BY <2>1, BoundAssumption
  <2>3. Append(forms[s], 0) = <<0>>
    BY <2>1
  <2> QED BY <1>1, <2>2, <2>3
<1>4. /\ <<0>> \in Seq(Age) /\ <<0>> # <<>> /\ Len(<<0>>) = 1
      /\ DOMAIN <<0>> = {1} /\ <<0>>[1] = 0
  BY BoundAssumption DEF Age
<1> HIDE DEF new, Accept
<1>5. TypeOK'
  <2>1. forms' \in [Socks -> Seq(Age)]
    BY <1>1, <1>2 DEF IInv, TypeOK
  <2> QED BY <1>1, <2>1 DEF IInv, TypeOK, loopVars
<1>6. conn[s] = "none"
  BY <1>1 DEF IInv, TypeOK
<1>7. ASSUME NEW t \in Socks \ Victims
      PROVE  /\ Len(forms'[t]) <= 1 /\ FormStep(t)
             /\ forms'[t] # <<>> <=> t \in open' /\ conn'[t] # "full"
  <2>1. CASE t = s
    <3>1. forms'[t] = <<0>> /\ t \in open' /\ conn'[t] = "none"
      BY <1>1, <1>3, <1>6, <2>1 DEF IInv, TypeOK
    <3>2. <<0>> \in Seq(Age)
      BY <1>4
    <3> QED BY <1>4, <3>1, <3>2 DEF FormStep
  <2>2. CASE t # s
    <3>1. forms'[t] = forms[t] /\ conn'[t] = conn[t] /\ (t \in open' <=> t \in open)
      BY <1>1, <2>2 DEF IInv, TypeOK
    <3> QED BY <3>1 DEF IInv, FormsArePending, Pending, FormStep
  <2> QED BY <2>1, <2>2
<1>8. FormsArePending'
  BY <1>7 DEF FormsArePending, Pending
<1>9. \A t \in Socks : SilenceStep(t)
  BY <1>1, <1>6 DEF IInv, TypeOK, SilenceStep
<1> QED BY <1>1, <1>5, <1>7, <1>8, <1>9, DispatchKeepsIInv

-----------------------------------------------------------------------------
(* The other actions. *)

\* The age of the form of a socket is a number of seconds.
LEMMA FormAge ==
    ASSUME TypeOK, NEW s \in Socks, NEW i \in DOMAIN forms[s]
    PROVE  forms[s][i] \in Age
BY LenProperties, ElementOfSeq DEF TypeOK

LEMMA TickKeepsIInv ==
    ASSUME IInv, Tick
    PROVE  IInv'
<1> USE DEF Tick
<1>1. /\ waited \in Nat /\ waited' = waited + 1 /\ remaining' = remaining
      /\ remaining \in Nat /\ since_ping \in Age /\ since_ping' = Older(since_ping)
      /\ stage = "select" /\ stage' = "select" /\ waited < Patience
      /\ waited' <= MaxAge
  BY ConfigAssumption, BoundAssumption DEF IInv, TypeOK, Age, Patience
<1>2. ASSUME NEW s \in Socks
      PROVE  /\ forms'[s] \in Seq(Age) /\ Len(forms'[s]) = Len(forms[s])
             /\ DOMAIN forms'[s] = DOMAIN forms[s]
             /\ \A i \in DOMAIN forms[s] : forms'[s][i] = Older(forms[s][i])
  <2>1. forms[s] \in Seq(Age) /\ DOMAIN forms[s] = 1..Len(forms[s]) /\ Len(forms[s]) \in Nat
    BY LenProperties DEF IInv, TypeOK
  <2>2. forms'[s] = [i \in DOMAIN forms[s] |-> Older(forms[s][i])]
    OBVIOUS
  <2>3. \A i \in DOMAIN forms[s] : Older(forms[s][i]) \in Age
    BY FormAge, OlderAge DEF IInv
  <2>4. forms'[s] \in [1..Len(forms[s]) -> Age]
    BY <2>1, <2>2, <2>3
  <2>5. forms'[s] \in Seq(Age) /\ Len(forms'[s]) = Len(forms[s])
    <3> DEFINE g == forms'[s]
               n == Len(forms[s])
    <3>1. n \in Nat /\ g \in [1..n -> Age]
      BY <2>1, <2>4
    <3> HIDE DEF g, n
    <3>2. g \in Seq(Age) /\ Len(g) = n
      BY <3>1
    <3> QED BY <3>2 DEF g, n
  <2>6. DOMAIN forms'[s] = DOMAIN forms[s] /\ \A i \in DOMAIN forms[s] : forms'[s][i] = Older(forms[s][i])
    BY <2>2
  <2> QED BY <2>5, <2>6
<1>3. TypeOK'
  <2>1. forms' \in [Socks -> Seq(Age)]
    BY <1>2
  <2>2. idle' \in [Socks -> Age] /\ since_ping' \in Age
    <3>1. \A s \in Socks : idle[s] \in Age /\ Older(idle[s]) \in Age
      BY OlderAge DEF IInv, TypeOK
    <3>2. idle' \in [Socks -> Age]
      <4>1. 0 \in Age
        BY BoundAssumption DEF Age
      <4>2. idle' = [s \in Socks |-> IF conn[s] # "none" THEN Older(idle[s]) ELSE 0]
        OBVIOUS
      <4> QED BY <3>1, <4>1, <4>2
    <3>3. since_ping' \in Age
      BY <1>1, OlderAge
    <3> QED BY <3>2, <3>3
  <2>3. waited' \in Age
    BY <1>1, BoundAssumption DEF Age
  <2> QED BY <1>1, <2>1, <2>2, <2>3 DEF IInv, TypeOK
<1>4. FormsArePending'
  <2>1. ASSUME NEW s \in Socks PROVE forms'[s] = <<>> <=> forms[s] = <<>>
    BY <1>2, EmptySeq DEF IInv, TypeOK
  <2> QED BY <1>2, <2>1 DEF IInv, FormsArePending, Pending
<1>5. Clocks'
  <2>1. since_ping \in Nat /\ since_ping' \in Nat /\ since_ping' <= since_ping + 1
    BY <1>1, OlderAge DEF Age
  <2>2. /\ remaining <= RegT /\ remaining <= PingT
        /\ remaining > 0 => since_ping + remaining - waited <= PingT
    BY DEF IInv, Clocks
  <2>3. waited + 1 <= Patience
    BY <1>1 DEF Patience
  <2>4. remaining > 0 => since_ping' + remaining - (waited + 1) <= PingT
    BY <1>1, <2>1, <2>2, Constants
  <2> QED BY <1>1, <2>2, <2>3, <2>4 DEF Clocks, Patience
<1>6. FormAges'
  <2>1. ASSUME NEW s \in Socks \ Victims, NEW i \in DOMAIN forms'[s]
        PROVE  /\ forms'[s][i] <= RegT
               /\ remaining > 0 => forms'[s][i] + remaining - (waited + 1) <= RegT
               /\ remaining = 0 => forms'[s][i] < RegT + (waited + 1)
    <3>1. i \in DOMAIN forms[s] /\ forms'[s][i] = Older(forms[s][i])
      BY <1>2, <2>1
    <3>2. forms[s][i] \in Age
      BY <3>1, FormAge DEF IInv
    <3>3. forms'[s][i] \in Nat /\ forms[s][i] \in Nat /\ forms'[s][i] <= forms[s][i] + 1
      BY <3>1, <3>2, OlderAge DEF Age
    <3>4. /\ remaining > 0 => forms[s][i] + remaining - waited <= RegT
          /\ remaining = 0 => forms[s][i] < RegT + waited
      BY <1>1, <3>1 DEF IInv, FormAges
    <3> QED BY <1>1, <3>3, <3>4, Constants DEF Patience
  <2>2. stage' \notin {"ping", "dispatch"}
    BY <1>1
  <2> QED BY <1>1, <2>1, <2>2, Zenon DEF FormAges
<1>7. Connected' = Connected /\ conn' = conn /\ asked' = asked
  BY DEF Connected
<1>8. ASSUME NEW s \in Connected
      PROVE  /\ idle[s] \in Nat /\ idle'[s] \in Nat
             /\ idle'[s] <= MaxAge /\ idle'[s] <= idle[s] + 1
             /\ idle[s] = MaxAge => idle'[s] = MaxAge
             /\ idle'[s] = Older(idle[s])
  <2>1. idle'[s] = Older(idle[s]) /\ idle[s] \in Age
    BY <1>8 DEF IInv, TypeOK, Connected
  <2> QED BY <2>1, OlderAge, Constants DEF Age
<1>9. /\ since_ping \in Nat /\ since_ping <= MaxAge /\ since_ping' \in Nat
      /\ since_ping < MaxAge => since_ping' = since_ping + 1
      /\ since_ping = MaxAge => since_ping' = MaxAge
  BY <1>1, OlderAge, Constants DEF Age
<1> HIDE DEF Tick
<1>10. Silence'
  <2> SUFFICES ASSUME NEW s \in Connected
               PROVE  /\ idle'[s] < ConnT + since_ping'
                      /\ s \notin asked => idle'[s] < PingT + since_ping'
                      /\ s \notin Victims /\ conn[s] = "half" => idle'[s] <= forms'[s][1]
    BY <1>7 DEF Silence
  <2>1. idle'[s] < ConnT + since_ping'
    <3>1. idle[s] < ConnT + since_ping
      BY DEF IInv, Silence
    <3>2. idle'[s] \in Nat /\ idle[s] \in Nat /\ idle'[s] <= MaxAge /\ idle'[s] <= idle[s] + 1
      BY <1>8
    <3> QED BY <1>9, <3>1, <3>2, Constants
  <2>2. s \notin asked => idle'[s] < PingT + since_ping'
    <3>1. s \notin asked => idle[s] < PingT + since_ping
      BY DEF IInv, Silence
    <3>2. idle'[s] \in Nat /\ idle[s] \in Nat /\ idle'[s] <= MaxAge /\ idle'[s] <= idle[s] + 1
      BY <1>8
    <3> QED BY <1>9, <3>1, <3>2, Constants
  <2>3. ASSUME s \notin Victims, conn[s] = "half" PROVE idle'[s] <= forms'[s][1]
    <3>1. s \in Socks \ Victims /\ idle[s] <= forms[s][1]
      BY <2>3 DEF IInv, Silence, Connected
    <3>2. s \in open
      BY <2>3, <3>1 DEF IInv, TypeOK
    <3>3. 1 \in DOMAIN forms[s] /\ forms[s][1] \in Age
      BY <2>3, <3>1, <3>2, OneForm DEF IInv
    <3>4. forms'[s][1] = Older(forms[s][1])
      BY <1>2, <3>1, <3>3
    <3>5. \A m, n \in Age : m <= n => Older(m) <= Older(n)
      BY Constants DEF Age, Older
    <3>6. idle[s] \in Age
      BY <3>1 DEF IInv, TypeOK
    <3> QED BY <1>8, <3>1, <3>3, <3>4, <3>5, <3>6
  <2> QED BY <2>1, <2>2, <2>3
<1>11. Overdue'
  <2>1. ASSUME NEW s \in Connected, since_ping' >= PingT + (waited + 1)
        PROVE  idle'[s] <= waited + 1
    <3>1. waited <= PingT
      BY <1>1, Constants DEF IInv, Clocks, Patience
    <3>2. since_ping >= PingT + waited
      BY <1>1, <1>9, <2>1, <3>1, Constants
    <3>3. idle[s] <= waited
      BY <1>1, <2>1, <3>2 DEF IInv, Overdue
    <3>4. idle'[s] \in Nat /\ idle[s] \in Nat /\ idle'[s] <= idle[s] + 1
      BY <1>8, <2>1
    <3> QED BY <1>1, <3>3, <3>4
  <2>2. stage' \notin {"checks", "ping"} /\ stage' # "dispatch"
    BY <1>1
  <2> QED BY <1>1, <1>7, <2>1, <2>2, Zenon DEF Overdue
<1> QED BY <1>3, <1>4, <1>5, <1>6, <1>10, <1>11 DEF IInv

LEMMA WakeKeepsIInv ==
    ASSUME IInv, Wake
    PROVE  IInv'
<1> USE DEF Wake
<1>1. /\ waited \in Nat /\ remaining \in Nat /\ since_ping \in Nat
      /\ waited' = 0 /\ since_ping' = since_ping
      /\ stage = "select" /\ stage' = "checks"
      /\ remaining' = IF waited >= remaining THEN 0 ELSE remaining - waited
      /\ remaining' \in Nat /\ remaining' <= remaining
  BY DEF IInv, TypeOK, Age
<1>2. TypeOK'
  <2>1. remaining' \in Age /\ waited' \in Age
    BY <1>1, Constants DEF IInv, TypeOK, Age
  <2>2. ready' \subseteq open /\ knock' \in BOOLEAN
    BY DEF IInv, TypeOK
  <2> QED BY <1>1, <2>1, <2>2 DEF IInv, TypeOK
<1>3. FormsArePending'
  BY DEF IInv, FormsArePending, Pending
<1>4. Clocks'
  <2>1. /\ remaining <= RegT /\ remaining <= PingT
        /\ remaining > 0 => since_ping + remaining - waited <= PingT
    BY DEF IInv, Clocks
  <2>2. remaining' > 0 => since_ping + remaining' <= PingT
    BY <1>1, <2>1, Constants
  <2>3. remaining' <= RegT /\ remaining' <= PingT
    BY <1>1, <2>1, Constants
  <2> QED BY <1>1, <2>2, <2>3 DEF Clocks, Patience
<1>5. FormAges'
  <2> SUFFICES ASSUME NEW s \in Socks \ Victims, NEW i \in DOMAIN forms[s]
               PROVE  /\ forms[s][i] <= RegT
                      /\ remaining' > 0 => forms[s][i] + remaining' <= RegT
    BY <1>1 DEF FormAges
  <2>1. forms[s][i] \in Nat
    BY FormAge DEF IInv, Age
  <2> QED BY <1>1, <2>1 DEF IInv, FormAges
<1>6. Silence'
  BY DEF IInv, Silence, Connected
<1>7. Overdue'
  <2> SUFFICES ASSUME NEW s \in Connected, since_ping > PingT
               PROVE  idle[s] <= 1
    BY <1>1 DEF Overdue, Connected
  <2>1. waited <= 1
    BY <1>1, ConfigAssumption DEF IInv, Clocks, Patience
  <2>2. idle[s] \in Nat
    BY DEF IInv, TypeOK, Age, Connected
  <2>3. idle[s] <= waited
    BY <1>1, <2>1, ConfigAssumption DEF IInv, Overdue
  <2> QED BY <1>1, <2>1, <2>2, <2>3
<1> QED BY <1>2, <1>3, <1>4, <1>5, <1>6, <1>7 DEF IInv

LEMMA GoSilentKeepsIInv ==
    ASSUME IInv, NEW s \in Socks, GoSilent(s)
    PROVE  IInv'
<1> USE DEF GoSilent, loopVars
<1>1. TypeOK'
  BY DEF IInv, TypeOK
<1>2. FormsArePending' /\ Clocks' /\ FormAges' /\ Silence' /\ Overdue'
  BY DEF IInv, FormsArePending, Pending, Clocks, Patience, FormAges, Silence, Overdue, Connected
<1> QED BY <1>1, <1>2 DEF IInv

LEMMA CheckRegTimeoutsKeepsIInv ==
    ASSUME IInv, CheckRegTimeouts
    PROVE  IInv'
<1> DEFINE S == {s \in Socks : Late(s) # {}}
<1>1. /\ stage = "checks" /\ stage' = "ping" /\ waited' = waited /\ remaining' = remaining
      /\ since_ping' = since_ping /\ knock' = knock
      /\ open' = open \ S /\ ready' = ready \ S /\ mute' = mute \ S /\ asked' = asked \ S
      /\ conn' = [s \in Socks |-> IF s \in S THEN "none" ELSE conn[s]]
      /\ idle' = [s \in Socks |-> IF s \in S THEN 0 ELSE idle[s]]
      /\ forms' = [s \in Socks |-> FirstsGone(s)]
  BY DEF CheckRegTimeouts, Close
<1>2. waited = 0 /\ remaining \in Nat /\ since_ping \in Nat
  BY <1>1 DEF IInv, Clocks, TypeOK, Age
<1>3. ASSUME NEW s \in Socks
      PROVE  /\ forms'[s] \in Seq(Age)
             /\ s \notin S => forms'[s] = forms[s]
             /\ s \in S /\ s \notin Victims => forms'[s] = <<>>
  <2>1. forms'[s] = FirstsGone(s)
    BY <1>1
  <2>2. CASE s \in S
    <3>1. Late(s) # {} /\ Late(s) \subseteq DOMAIN forms[s]
      BY <2>2 DEF Late
    <3>2. s \notin Victims => Late(s) = DOMAIN forms[s]
      <4>1. s \notin Victims => DOMAIN forms[s] \subseteq {1}
        BY OneForm DEF IInv
      <4> QED BY <3>1, <4>1
    <3>3. forms[s] \in Seq(Age) /\ forms[s] # <<>>
      BY <3>1 DEF IInv, TypeOK
    <3>4. Tail(forms[s]) \in Seq(Age) /\ <<>> \in Seq(Age)
      BY <3>3, HeadTailProperties, EmptySeq
    <3> QED BY <2>1, <2>2, <3>1, <3>2, <3>4 DEF FirstsGone
  <2>3. CASE s \notin S
    BY <2>1, <2>3 DEF FirstsGone, IInv, TypeOK
  <2> QED BY <2>2, <2>3
<1>4. ASSUME NEW s \in Socks \ S, NEW i \in DOMAIN forms[s]
      PROVE  forms[s][i] < RegT
  <2>1. forms[s][i] \in Nat
    BY <1>4, FormAge DEF IInv, Age
  <2>2. ~(forms[s][i] >= RegT)
    BY <1>4 DEF Late
  <2> QED BY <2>1, <2>2, Constants
<1> HIDE DEF S
<1>5. TypeOK'
  <2>1. forms' \in [Socks -> Seq(Age)]
    BY <1>1, <1>3
  <2>2. 0 \in Age
    BY Constants DEF Age
  <2> QED BY <1>1, <2>1, <2>2 DEF IInv, TypeOK
<1>6. FormsArePending'
  <2> SUFFICES ASSUME NEW s \in Socks \ Victims
               PROVE  /\ Len(forms'[s]) <= 1
                      /\ forms'[s] # <<>> <=> s \in open' /\ conn'[s] # "full"
    BY DEF FormsArePending, Pending
  <2>1. CASE s \in S
    BY <1>1, <1>3, <2>1, EmptySeq
  <2>2. CASE s \notin S
    BY <1>1, <1>3, <2>2 DEF IInv, FormsArePending, Pending
  <2> QED BY <2>1, <2>2
<1>7. Clocks'
  BY <1>1, <1>2 DEF IInv, Clocks, Patience
<1>8. FormAges'
  <2>1. ASSUME NEW s \in Socks \ Victims, NEW i \in DOMAIN forms'[s]
        PROVE  /\ forms'[s][i] < RegT /\ forms'[s][i] <= RegT
               /\ remaining > 0 => forms'[s][i] + remaining <= RegT
    <3>1. s \notin S /\ forms'[s] = forms[s]
      BY <1>3, <2>1
    <3>2. forms[s][i] \in Nat
      BY <2>1, <3>1, FormAge DEF IInv, Age
    <3> QED BY <1>1, <1>2, <1>4, <2>1, <3>1, <3>2, Constants DEF IInv, FormAges
  <2> QED BY <1>1, <1>2, <2>1 DEF FormAges
<1>9. ASSUME NEW s \in Connected'
      PROVE  /\ s \in Connected /\ s \in Socks /\ s \notin S /\ conn'[s] = conn[s] /\ idle'[s] = idle[s]
             /\ forms'[s] = forms[s] /\ (s \in asked' <=> s \in asked)
  BY <1>1, <1>3, <1>9 DEF Connected
<1>10. Silence'
  BY <1>1, <1>9 DEF IInv, Silence
<1>11. Overdue'
  BY <1>1, <1>9 DEF IInv, Overdue
<1> QED BY <1>5, <1>6, <1>7, <1>8, <1>10, <1>11 DEF IInv

LEMMA PingConnectionsKeepsIInv ==
    ASSUME IInv, PingConnections
    PROVE  IInv'
<1>1. /\ stage = "ping" /\ stage' = "dispatch" /\ waited' = waited /\ remaining' = remaining
      /\ since_ping >= PingT /\ knock' = knock /\ forms' = forms
      /\ open' = open \ TimedOut /\ ready' = ready \ TimedOut /\ mute' = mute \ TimedOut
      /\ asked' = (asked \cup Quiet) \ TimedOut
      /\ conn' = [s \in Socks |-> IF s \in TimedOut THEN "none" ELSE conn[s]]
      /\ idle' = [s \in Socks |-> IF s \in TimedOut THEN 0 ELSE idle[s]]
      /\ since_ping' \in {0, since_ping}
      /\ Connected # {} => since_ping' = 0
  BY DEF PingConnections
<1>2. /\ waited = 0 /\ remaining \in Nat /\ since_ping \in Nat
      /\ remaining > 0 => since_ping + remaining <= PingT
  BY <1>1 DEF IInv, Clocks, TypeOK, Age
<1>3. ASSUME NEW s \in TimedOut, s \notin Victims
      PROVE  s \in Socks /\ conn[s] = "full"
  <2>1. s \in Socks \ Victims /\ conn[s] \in {"half", "full"} /\ idle[s] \in Nat /\ idle[s] >= ConnT
    BY <1>3 DEF TimedOut, Quiet, Connected, IInv, TypeOK, Age
  <2>2. CASE conn[s] = "half"
    <3>1. s \in open
      BY <2>1, <2>2 DEF IInv, TypeOK
    <3>2. 1 \in DOMAIN forms[s] /\ forms[s][1] \in Nat
      BY <2>1, <2>2, <3>1, OneForm DEF IInv, Age
    <3>3. forms[s][1] < RegT
      BY <1>1, <2>1, <3>2 DEF IInv, FormAges
    <3>4. idle[s] <= forms[s][1]
      BY <2>1, <2>2 DEF IInv, Silence, Connected
    <3> QED BY <2>1, <3>2, <3>3, <3>4, Constants
  <2> QED BY <2>1, <2>2
<1>4. TypeOK'
  <2>1. Quiet \subseteq open
    BY DEF Quiet, Connected, IInv, TypeOK
  <2>2. 0 \in Age
    BY Constants DEF Age
  <2> QED BY <1>1, <2>1, <2>2 DEF IInv, TypeOK
<1>5. FormsArePending'
  BY <1>1, <1>3 DEF IInv, FormsArePending, Pending, TypeOK
<1>6. Clocks'
  <2>1. remaining <= RegT /\ remaining <= PingT
    BY DEF IInv, Clocks
  <2>2. remaining > 0 => since_ping' + remaining <= PingT
    BY <1>1, <1>2, <2>1, Constants
  <2>3. since_ping' \in Nat
    BY <1>1, <1>2
  <2>4. remaining' > 0 => since_ping' + remaining' - waited' <= PingT
    <3>1. \A n \in Nat : n - 0 = n
      OBVIOUS
    <3> QED BY <1>1, <1>2, <2>2, <2>3, <3>1
  <2>5. waited' <= Patience' /\ waited' = 0
    BY <1>1, <1>2 DEF Patience
  <2> QED BY <1>1, <2>1, <2>4, <2>5 DEF Clocks
<1>7. FormAges'
  BY <1>1, <1>2 DEF IInv, FormAges
<1>8. ASSUME NEW s \in Connected'
      PROVE  /\ s \in Connected /\ s \notin TimedOut /\ since_ping' = 0
             /\ conn'[s] = conn[s] /\ idle'[s] = idle[s]
             /\ (s \in asked' <=> s \in asked \cup Quiet)
             /\ idle[s] \in Nat
  BY <1>1, <1>8 DEF Connected, IInv, TypeOK, Age
<1>9. Silence'
  <2> SUFFICES ASSUME NEW s \in Connected'
               PROVE  /\ idle'[s] < ConnT + since_ping'
                      /\ s \notin asked' => idle'[s] < PingT + since_ping'
                      /\ s \notin Victims /\ conn'[s] = "half" => idle'[s] <= forms'[s][1]
    BY DEF Silence
  <2>1. s \notin Quiet => idle[s] < PingT
    BY <1>8, Constants DEF Quiet
  <2>2. idle[s] < ConnT
    <3>1. s \in Quiet => idle[s] < ConnT
      BY <1>8, Constants DEF TimedOut
    <3> QED BY <1>8, <2>1, <3>1, Constants
  <2>3. s \notin Victims /\ conn[s] = "half" => idle[s] <= forms[s][1]
    BY <1>8 DEF IInv, Silence
  <2>4. since_ping' = 0
    BY <1>8
  <2> QED BY <1>1, <1>8, <2>1, <2>2, <2>3, <2>4, Constants
<1>10. Overdue'
  BY <1>1, <1>8, Constants DEF Overdue
<1> QED BY <1>4, <1>5, <1>6, <1>7, <1>9, <1>10 DEF IInv

LEMMA QuietStageKeepsIInv ==
    ASSUME IInv, NoPingYet \/ EndDispatch
    PROVE  IInv'
<1> USE DEF NoPingYet, EndDispatch
<1>1. waited = 0 /\ since_ping \in Nat
  BY DEF IInv, Clocks, TypeOK, Age
<1>2. TypeOK' /\ FormsArePending'
  BY DEF IInv, TypeOK, FormsArePending, Pending
<1>3. Clocks'
  BY <1>1 DEF IInv, Clocks, Patience
<1>4. FormAges'
  <2> SUFFICES ASSUME NEW s \in Socks \ Victims, NEW i \in DOMAIN forms[s]
               PROVE  /\ forms[s][i] <= RegT /\ forms[s][i] < RegT + waited
                      /\ remaining > 0 => forms[s][i] + remaining - waited <= RegT
                      /\ forms[s][i] < RegT
    BY DEF FormAges
  <2>1. forms[s][i] \in Nat
    BY FormAge DEF IInv, Age
  <2> QED BY <1>1, <2>1, Constants DEF IInv, FormAges
<1>5. Silence'
  BY DEF IInv, Silence, Connected
<1>6. Overdue'
  <2>1. ASSUME NEW s \in Connected, stage = "dispatch", since_ping >= PingT + waited
        PROVE  idle[s] <= waited
    BY <1>1, <2>1, Constants DEF IInv, Overdue
  <2>2. NoPingYet => since_ping < PingT
    OBVIOUS
  <2> QED BY <1>1, <2>1, <2>2, Constants DEF IInv, Overdue, Connected
<1> QED BY <1>2, <1>3, <1>4, <1>5, <1>6 DEF IInv

-----------------------------------------------------------------------------
(* The theorems. *)

LEMMA InitIInv == Init => IInv
<1> SUFFICES ASSUME Init PROVE IInv
  OBVIOUS
<1> USE DEF Init
<1>1. \A s \in Socks : forms[s] = <<>>
  OBVIOUS
<1>2. TypeOK
  <2>1. forms \in [Socks -> Seq(Age)]
    BY EmptySeq
  <2>2. 0 \in Age /\ remaining \in Age
    BY Constants DEF Age
  <2> QED BY <2>1, <2>2 DEF TypeOK
<1>3. FormsArePending
  <2>1. Len(<<>>) <= 1
    OBVIOUS
  <2>2. \A s \in Socks : Len(forms[s]) <= 1
    BY <1>1, <2>1, Zenon
  <2> QED BY <1>1, <2>2 DEF FormsArePending, Pending
<1>4. Clocks
  BY Constants DEF Clocks, Patience
<1>5. FormAges
  BY <1>1 DEF FormAges
<1>6. Silence /\ Overdue
  BY DEF Silence, Overdue, Connected
<1> QED BY <1>2, <1>3, <1>4, <1>5, <1>6 DEF IInv

LEMMA NextIInv ==
    ASSUME IInv, [Next]_vars
    PROVE  IInv'
<1>1. CASE UNCHANGED vars
  BY <1>1 DEF vars, IInv, TypeOK, FormsArePending, Pending, Clocks, Patience, FormAges,
              Silence, Overdue, Connected
<1>2. CASE Tick
  BY <1>2, TickKeepsIInv
<1>3. CASE \E s \in Socks : GoSilent(s)
  BY <1>3, GoSilentKeepsIInv
<1>4. CASE Loop
  <2>1. CASE Wake
    BY <2>1, WakeKeepsIInv
  <2>2. CASE CheckRegTimeouts
    BY <2>2, CheckRegTimeoutsKeepsIInv
  <2>3. CASE PingConnections
    BY <2>3, PingConnectionsKeepsIInv
  <2>4. CASE NoPingYet \/ EndDispatch
    BY <2>4, QuietStageKeepsIInv
  <2>5. ASSUME NEW s \in Socks,
               \/ Accept(s) \/ Receive(s) \/ ReceiveNick(s) \/ ReceiveRegistration(s)
               \/ ReceiveQuit(s) \/ ReceiveHangup(s)
        PROVE  IInv'
    BY <2>5, AcceptKeepsIInv, ReceiveKeepsIInv, ReceiveNickKeepsIInv,
       ReceiveRegistrationKeepsIInv, ReceiveQuitKeepsIInv, ReceiveHangupKeepsIInv
  <2>6. ASSUME NEW s \in Socks, NEW v \in Socks, ReceiveKill(s, v) PROVE IInv'
    BY <2>6, ReceiveKillKeepsIInv
  <2> QED BY <1>4, <2>1, <2>2, <2>3, <2>4, <2>5, <2>6 DEF Loop, Dispatch
<1> QED BY <1>1, <1>2, <1>3, <1>4 DEF Next

\* The inductive invariant holds in every reachable state.
THEOREM Invariant == Spec => []IInv
<1>1. IInv /\ [Next]_vars => IInv'
  BY NextIInv
<1> QED BY InitIInv, <1>1, PTL DEF Spec

\* Every variable of the loop keeps its shape.
THEOREM TypeCorrect == Spec => []TypeOK
<1>1. IInv => TypeOK
  BY DEF IInv
<1> QED BY Invariant, <1>1, PTL

\* reg_expect holds exactly the open sockets that are not registered.
THEOREM FormsArePendingAlways == Spec => []FormsArePending
<1>1. IInv => FormsArePending
  BY DEF IInv, FormsArePending
<1> QED BY Invariant, <1>1, PTL

\* No form gets older than reg_timeout_.
THEOREM RegistrationBounded == Spec => []RegBound
<1>1. IInv => RegBound
  BY DEF IInv, FormAges, RegBound
<1> QED BY Invariant, <1>1, PTL

\* No connection is kept that has been silent for the connection timeout plus
\* one ping period.
THEOREM IdleBounded == Spec => []IdleBound
<1>1. ASSUME IInv PROVE IdleBound
  <2> SUFFICES ASSUME NEW s \in Connected PROVE idle[s] < ConnT + PingT
    BY DEF IdleBound
  <2>1. /\ idle[s] \in Nat /\ since_ping \in Nat /\ waited \in Nat /\ remaining \in Nat
        /\ stage \in {"select", "checks", "ping", "dispatch"}
    BY <1>1 DEF IInv, TypeOK, Age, Connected
  <2>2. idle[s] < ConnT + since_ping
    BY <1>1 DEF IInv, Silence
  <2>3. CASE since_ping <= PingT
    BY <2>1, <2>2, <2>3, Constants
  <2>4. CASE since_ping > PingT
    <3>1. waited <= 1
      BY <1>1, <2>1, <2>4, Constants DEF IInv, Clocks, Patience
    <3>2. CASE stage = "select"
      BY <1>1, <2>1, <2>4, <3>1, <3>2, Constants DEF IInv, Overdue
    <3>3. CASE stage \in {"checks", "ping"}
      BY <1>1, <2>1, <2>4, <3>3, Constants DEF IInv, Overdue
    <3>4. CASE stage = "dispatch"
      BY <1>1, <2>1, <2>4, <3>4, Constants DEF IInv, Overdue
    <3> QED BY <2>1, <3>2, <3>3, <3>4
  <2> QED BY <2>1, <2>3, <2>4, Constants
<1> QED BY Invariant, <1>1, PTL

\* The checks and the ping round take a connection out of connections_ in two
\* places only.
LEMMA ClosedByChecks ==
    ASSUME IInv, [Next]_vars, NEW s \in Socks,
           stage \in {"checks", "ping"}, conn[s] # "none", conn'[s] = "none"
    PROVE  \/ stage = "checks" /\ CheckRegTimeouts /\ Late(s) # {}
           \/ stage = "ping" /\ PingConnections /\ s \in TimedOut
<1>1. CASE CheckRegTimeouts
  BY <1>1 DEF CheckRegTimeouts, Close
<1>2. CASE PingConnections
  BY <1>2 DEF PingConnections
<1>3. CASE UNCHANGED conn
  BY <1>3
<1>4. NoPingYet \/ Wake \/ Tick \/ (\E t \in Socks : GoSilent(t)) \/ UNCHANGED vars => UNCHANGED conn
  BY DEF NoPingYet, Wake, Tick, GoSilent, vars
<1>5. ~Dispatch
  BY DEF Dispatch, Accept, EndDispatch, Receive, ReceiveNick, ReceiveRegistration, ReceiveQuit,
         ReceiveKill, ReceiveHangup, Serves
<1> QED BY <1>1, <1>2, <1>3, <1>4, <1>5 DEF Next, Loop

\* Whatever the checks close that was registered has been silent for the
\* connection timeout.
THEOREM TalkersAreKept == Spec => TalkersStay
<1> DEFINE A == \A s \in Socks \ Victims : stage \in {"checks", "ping"} /\ conn[s] = "full" /\ conn'[s] = "none"
                                    => idle[s] >= ConnT
<1>1. ASSUME IInv, [Next]_vars PROVE A
  <2> SUFFICES ASSUME NEW s \in Socks \ Victims, stage \in {"checks", "ping"}, conn[s] = "full", conn'[s] = "none"
               PROVE  idle[s] >= ConnT
    OBVIOUS
  <2>1. CASE Late(s) # {}
    <3>1. ~Pending(s)
      BY <1>1 DEF IInv, FormsArePending
    <3> QED BY <2>1, <3>1 DEF Late, Pending
  <2>2. CASE s \in TimedOut
    BY <2>2 DEF TimedOut
  <2> QED BY <1>1, <2>1, <2>2, ClosedByChecks
<1>2. IInv /\ [Next]_vars => [A]_vars
  BY <1>1
<1> QED BY Invariant, <1>2, PTL DEF Spec, TalkersStay

\* Two ping periods in the connection timeout are enough for everybody who is
\* closed by the ping round to have been sent a PING.
THEOREM NobodyClosedUnasked ==
    ASSUME 2 * PingT <= ConnT
    PROVE  Spec => AskedFirst
<1> DEFINE A == \A s \in Socks : stage = "ping" /\ conn[s] # "none" /\ conn'[s] = "none" => s \in asked
<1>1. ASSUME IInv, [Next]_vars PROVE A
  <2> SUFFICES ASSUME NEW s \in Socks, stage = "ping", conn[s] # "none", conn'[s] = "none", s \notin asked
               PROVE  FALSE
    OBVIOUS
  <2>1. s \in Connected /\ idle[s] >= ConnT
    BY <1>1, ClosedByChecks DEF TimedOut, Quiet
  <2>2. idle[s] \in Nat /\ since_ping \in Nat
    BY <1>1 DEF IInv, TypeOK, Age
  <2>3. idle[s] < PingT + since_ping
    BY <1>1, <2>1 DEF IInv, Silence
  <2>4. since_ping > PingT => idle[s] <= 1
    BY <1>1, <2>1 DEF IInv, Overdue
  <2> QED BY <2>1, <2>2, <2>3, <2>4, Constants
<1>2. IInv /\ [Next]_vars => [A]_vars
  BY <1>1
<1> QED BY Invariant, <1>2, PTL DEF Spec, AskedFirst
=============================================================================
