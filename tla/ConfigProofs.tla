---------------------------- MODULE ConfigProofs ----------------------------
(* Proofs about module Config, for any file. *)
EXTENDS Config, TLAPS

\* Whatever it is given, check_timeout_values returns timeouts in the allowed
\* range that fit together.
LEMMA CheckedTimeouts ==
    ASSUME NEW p, NEW c, NEW r
    PROVE  /\ Checked(p, c, r).ping \in Allowed /\ Checked(p, c, r).conn \in Allowed
           /\ Checked(p, c, r).reg \in Allowed
           /\ Checked(p, c, r).ping <= Checked(p, c, r).conn
           /\ Checked(p, c, r).reg <= Checked(p, c, r).conn
<1> DEFINE P == OrDefault(p, 20)
           C == OrDefault(c, 120)
           R == OrDefault(r, 20)
<1>1. P \in Allowed /\ C \in Allowed /\ R \in Allowed
  BY DEF Allowed, OrDefault
<1>2. CASE P > C \/ R > C
  BY <1>2 DEF Checked, Allowed
<1>3. CASE ~(P > C) /\ ~(R > C)
  <2>1. Checked(p, c, r) = [ping |-> P, conn |-> C, reg |-> R]
    BY <1>3 DEF Checked
  <2> HIDE DEF P, C, R
  <2>2. P <= C /\ R <= C
    BY <1>1, <1>3 DEF Allowed
  <2> QED BY <1>1, <2>1, <2>2
<1> QED BY <1>2, <1>3

\* The configuration assumption of module Timeouts holds whatever irisha.conf
\* says, and whatever an int that was never assigned happens to hold.
THEOREM TimeoutsAreSane == Spec => []Sane
<1>1. Init => Sane
  BY DEF Init, Sane
<1>2. Sane /\ [Next]_vars => Sane'
  BY CheckedTimeouts DEF Sane, Next, ApplyConfig, vars
<1> QED BY <1>1, <1>2, PTL DEF Spec

\* The first line about a setting is the one its number is read from.
LEMMA ReadFirstMatch ==
    ASSUME file \in Files, NEW s, NEW i \in DOMAIN file, GivenBy(i, s), file[i].number \in Allowed
    PROVE  Read(s) = {file[i].number}
<1>1. DOMAIN file \subseteq Int
  BY FilesAssumption
<1>2. file[i].number # NotANumber
  <2>1. Allowed \subseteq Int
    BY DEF Allowed
  <2> QED BY <2>1, NotANumberAssumption
<1>3. IsFirstMatch(i, s)
  BY DEF GivenBy, IsFirstMatch, Matches
<1>4. ASSUME NEW j \in DOMAIN file, IsFirstMatch(j, s)
      PROVE  j = i
  <2>1. ~(j < i) /\ ~(i < j)
    BY <1>3, <1>4 DEF IsFirstMatch
  <2> QED BY <1>1, <2>1
<1>5. {j \in DOMAIN file : IsFirstMatch(j, s)} = {i}
  BY <1>3, <1>4
<1>6. \E j \in DOMAIN file : Matches(j, s)
  BY <1>3 DEF IsFirstMatch
<1>7. Read(s) = {IF file[j].number = NotANumber THEN 0 ELSE file[j].number :
                    j \in {k \in DOMAIN file : IsFirstMatch(k, s)}}
  BY <1>6 DEF Read
<1>8. Read(s) = {IF file[j].number = NotANumber THEN 0 ELSE file[j].number : j \in {i}}
  BY <1>5, <1>7
<1> QED BY <1>2, <1>8

\* check_timeout_values returns timeouts that fit as they are.
LEMMA ValidUnchanged ==
    ASSUME NEW p \in Allowed, NEW c \in Allowed, NEW r \in Allowed, p < c, r < c
    PROVE  Checked(p, c, r) = [ping |-> p, conn |-> c, reg |-> r]
<1>1. OrDefault(p, 20) = p /\ OrDefault(c, 120) = c /\ OrDefault(r, 20) = r
  BY DEF OrDefault
<1>2. ~(p > c) /\ ~(r > c)
  BY DEF Allowed
<1> QED BY <1>1, <1>2 DEF Checked

\* Timeouts that CONFIGURATION.md allows are used as they are given, in any
\* order of the lines and whatever else the file says.
THEOREM ValidTimeoutsAreKept == Spec => []ValidKept
<1> DEFINE IInv == file \in Files /\ ValidKept
<1>1. Init => IInv
  BY DEF Init, ValidKept
<1>2. ASSUME IInv, ApplyConfig
      PROVE  IInv'
  <2>1. file' = file /\ file \in Files
    BY <1>2 DEF ApplyConfig
  <2> SUFFICES ASSUME NEW i \in DOMAIN file, NEW j \in DOMAIN file, NEW k \in DOMAIN file,
                      GivenBy(i, "ping-timeout"), GivenBy(j, "connection-timeout"),
                      GivenBy(k, "register-timeout"), Valid(i, j, k)
               PROVE  Used(i, j, k)'
    BY <2>1 DEF ValidKept, GivenBy, Valid
  <2>2. /\ Read("ping-timeout") = {file[i].number}
        /\ Read("connection-timeout") = {file[j].number}
        /\ Read("register-timeout") = {file[k].number}
    BY <2>1, ReadFirstMatch DEF Valid
  <2>3. Checked(file[i].number, file[j].number, file[k].number) =
            [ping |-> file[i].number, conn |-> file[j].number, reg |-> file[k].number]
    BY ValidUnchanged DEF Valid
  <2>4. /\ ping_timeout' = file[i].number
        /\ conn_timeout' = file[j].number
        /\ reg_timeout' = file[k].number
    BY <1>2, <2>2, <2>3 DEF ApplyConfig
  <2> QED BY <2>1, <2>4 DEF Used
<1>3. IInv /\ [Next]_vars => IInv'
  <2>1. IInv /\ UNCHANGED vars => IInv'
    BY DEF vars, ValidKept, GivenBy, Valid, Used
  <2> QED BY <1>2, <2>1 DEF Next
<1>4. IInv => ValidKept
  OBVIOUS
<1> QED BY <1>1, <1>3, <1>4, PTL DEF Spec
=============================================================================
