------------------------------- MODULE Framing -------------------------------
(***************************************************************************)
(* From bytes to commands: recv takes what has come on a socket, as the    *)
(* network has cut it; the text is put behind what is kept for the socket  *)
(* (choose_buff), and when that has a line feed somewhere it is cut into   *)
(* commands (parse_arr_msg), which are handled one after the other.        *)
(*                                                                         *)
(* A unit of text is the peer that sent it and its place in what the peer  *)
(* sends, so that no two units are alike; Stream says whether it is a CR,  *)
(* a LF or other text.                                                     *)
(* Bound: no command closes a socket (see modules Registry and Timeouts).  *)
(***************************************************************************)
EXTENDS Integers, Sequences, FiniteSets, SequencesExt, FiniteSetsExt

CONSTANTS
    Socks,      \* file descriptors of peers
    Stream,     \* what each peer sends
    ReadSize,   \* units recv takes at most: 512
    Longest     \* units that are taken: 510

CR == "CR"
LF == "LF"
TEXT == "text"

ASSUME StreamAssumption == Stream \in [Socks -> Seq({CR, LF, TEXT})]
ASSUME SizeAssumption == ReadSize \in Nat \ {0} /\ Longest \in 1..ReadSize

VARIABLES
    read,       \* number of units that were received
    entry,      \* "none", "half" (form and connection), "full" (connection)
    form,       \* RegForm::buff_
    buff,       \* AConnection::buff_
    arr_msg,    \* the commands that wait to be handled
    serving,    \* the socket they came from
    handled,    \* history: the commands of each socket
    reads       \* history: <<first, last>> unit of each recv

vars == <<read, entry, form, buff, arr_msg, serving, handled, reads>>

Init ==
    /\ read = [s \in Socks |-> 0]
    /\ entry = [s \in Socks |-> "none"]
    /\ form = [s \in Socks |-> <<>>]
    /\ buff = [s \in Socks |-> <<>>]
    /\ arr_msg = <<>>
    /\ serving \in Socks
    /\ handled = [s \in Socks |-> <<>>]
    /\ reads = [s \in Socks |-> {}]

-----------------------------------------------------------------------------
(* parse_arr_msg *)

\* The unit at place p of what s sends, what it is, and the units from p to r.
Unit(s, p) == <<s, p>>
Place(u) == u[2]
Sign(u) == Stream[u[1]][u[2]]
Units(s, p, r) == [i \in 1..(r - p + 1) |-> Unit(s, p + i - 1)]

Has(q, c) == \E i \in DOMAIN q : Sign(q[i]) = c

\* Mutant: a text is cut at its first line feed, the CR stays.
PiecesAtLf(q) ==
    LET lf == Min({i \in DOMAIN q : Sign(q[i]) = LF})
    IN <<SubSeq(q, 1, lf - 1), SubSeq(q, lf + 1, Len(q))>>

\* Where getline stops in q, a text that is not empty: at every CR, and at the
\* end when something follows the last CR.
Stops(q) == {i \in 1..(Len(q) + 1) :
    IF i > Len(q) THEN Sign(Last(q)) # CR ELSE Sign(q[i]) = CR}

\* The k-th of a set of numbers.
Nth(S, k) == CHOOSE i \in S : Cardinality({j \in S : j <= i}) = k

Pieces(q) ==
    LET from(k) == IF k = 1 THEN 1 ELSE Nth(Stops(q), k - 1) + 1
    IN [k \in 1..Cardinality(Stops(q)) |-> SubSeq(q, from(k), Nth(Stops(q), k) - 1)]

WithoutFirst(q, c) ==
    IF Has(q, c) THEN RemoveAt(q, Min({i \in DOMAIN q : Sign(q[i]) = c})) ELSE q

\* Mutant: the last piece is taken for the LF of the last line.
CommandsButLast(q) ==
    LET ps == Pieces(q) IN [k \in 1..(Len(ps) - 1) |-> WithoutFirst(ps[k], LF)]

Commands(q) ==
    LET ps == Pieces(q)
        kept == IF Len(Last(ps)) = 1 /\ Has(Last(ps), LF) THEN Front(ps) ELSE ps
    IN [k \in DOMAIN kept |-> WithoutFirst(kept[k], LF)]

-----------------------------------------------------------------------------
(* The loop. *)

\* The buffer of the form, until NICK or SERVER has made a connection.
Kept(s) == IF entry[s] = "none" THEN form[s] ELSE buff[s]

Keep(s, q) ==
    IF entry[s] = "none" THEN form' = [form EXCEPT ![s] = q] /\ UNCHANGED buff
    ELSE buff' = [buff EXCEPT ![s] = q] /\ UNCHANGED form

\* Mutant: a text is cut into commands whether or not a line has ended.
Received(q) == q # <<>>

\* Complete: the text has a line feed, which need not be at its end.
Complete(q) == Has(q, LF)

\* Mutant: the text that was cut into commands is kept as well.
RecvKeepsText(s, n) ==
    LET new == Units(s, read[s] + 1, read[s] + n)
        q == Kept(s) \o IF n > Longest THEN <<>> ELSE new
    IN
    /\ arr_msg = <<>>
    /\ n <= Len(Stream[s]) - read[s]
    /\ read' = [read EXCEPT ![s] = @ + n]
    /\ reads' = [reads EXCEPT ![s] = @ \cup {<<read[s] + 1, read[s] + n>>}]
    /\ serving' = s
    /\ arr_msg' = IF Complete(q) THEN Commands(q) ELSE <<>>
    /\ Keep(s, q)
    /\ UNCHANGED <<entry, handled>>

\* A text that is too long is answered with an error and forgotten.
Recv(s, n) ==
    LET new == Units(s, read[s] + 1, read[s] + n)
        q == Kept(s) \o IF n > Longest THEN <<>> ELSE new
    IN
    /\ arr_msg = <<>>
    /\ n <= Len(Stream[s]) - read[s]
    /\ read' = [read EXCEPT ![s] = @ + n]
    /\ reads' = [reads EXCEPT ![s] = @ \cup {<<read[s] + 1, read[s] + n>>}]
    /\ serving' = s
    /\ IF Complete(q) THEN arr_msg' = Commands(q) /\ Keep(s, <<>>)
                      ELSE arr_msg' = <<>> /\ Keep(s, q)
    /\ UNCHANGED <<entry, handled>>

\* A command is handled.  NICK makes a connection beside the form, USER takes
\* the form away, SERVER does both; others leave them as they are.
Handle ==
    /\ arr_msg # <<>>
    /\ arr_msg' = Tail(arr_msg)
    /\ handled' = [handled EXCEPT ![serving] = Append(@, Head(arr_msg))]
    /\ \/ UNCHANGED <<entry, form, buff>>
       \/ /\ entry[serving] = "none"
          /\ entry' = [entry EXCEPT ![serving] = "half"]
          /\ buff' = [buff EXCEPT ![serving] = <<>>]
          /\ UNCHANGED form
       \/ /\ entry[serving] # "full"
          /\ entry' = [entry EXCEPT ![serving] = "full"]
          /\ buff' = IF entry[serving] = "half" THEN buff ELSE [buff EXCEPT ![serving] = <<>>]
          /\ form' = [form EXCEPT ![serving] = <<>>]
    /\ UNCHANGED <<read, serving, reads>>

Next == Handle \/ \E s \in Socks, n \in 1..ReadSize : Recv(s, n)

Spec == Init /\ [][Next]_vars

-----------------------------------------------------------------------------
(* Properties. *)

TextsOf(s) == Seq({s} \X (1..read[s]))

TooLong(r) == r[2] - r[1] >= Longest

\* Every variable has the shape the code gives it, no text is taken for that of
\* another peer, and the form of a socket is gone or empty when its connection
\* is there.
TypeOK ==
    /\ \A s \in Socks :
          /\ read[s] \in 0..Len(Stream[s])
          /\ entry[s] \in {"none", "half", "full"}
          /\ {form[s], buff[s]} \subseteq TextsOf(s)
          /\ entry[s] # "none" => form[s] = <<>>
          /\ handled[s] \in Seq(TextsOf(s))
          /\ reads[s] \subseteq (1..read[s]) \X (1..read[s])
    /\ serving \in Socks
    /\ arr_msg \in Seq(TextsOf(serving))

\* What has become of the text of a peer, the oldest first.
Trail(s) ==
    handled[s] \o (IF serving = s THEN arr_msg ELSE <<>>) \o <<form[s], buff[s]>>

\* The units of texts are in the order in which they were sent.
InOrder(ts) ==
    \A k, l \in DOMAIN ts : \A i \in DOMAIN ts[k], j \in DOMAIN ts[l] :
        k < l \/ (k = l /\ i < j) => Place(ts[k][i]) < Place(ts[l][j])

\* What they hold beside CR and LF.
TextOf(q) == {u \in ToSet(q) : Sign(u) = TEXT}
TextIn(ts) == UNION {TextOf(ts[k]) : k \in DOMAIN ts}

\* The text that was received and was not too long.
Accepted(s) ==
    {u \in {s} \X (1..read[s]) :
        /\ Sign(u) = TEXT
        /\ \E r \in reads[s] : Place(u) \in r[1]..r[2] /\ ~TooLong(r)}

\* The commands of a peer, those that wait and what is kept of a line are its
\* text, in order, nothing lost or doubled, however the text is cut and whenever
\* the buffer of the form gives way to that of the connection.
TextInOrder == \A s \in Socks : InOrder(Trail(s)) /\ TextIn(Trail(s)) = Accepted(s)

\* Lines end with CR LF, none was too long.
Proper(s) ==
    /\ \A p \in DOMAIN Stream[s] : Stream[s][p] = LF => p > 1 /\ Stream[s][p - 1] = CR
    /\ \A r \in reads[s] : ~TooLong(r)

\* The text of two lines is never taken for one command.  (It is when lines end
\* with LF alone, or when what was between two lines was too long.)
LinesApart ==
    \A s \in Socks : Proper(s) =>
        \A k \in DOMAIN handled[s] : \A u, v \in ToSet(handled[s][k]) :
            Sign(u) = TEXT /\ Sign(v) = TEXT =>
                \A p \in Place(u)..Place(v) : Stream[s][p] # LF

\* Places a to b hold a line of s: text that follows a LF, unless it is the
\* first, and that CR LF follows.
IsLine(s, a, b) ==
    /\ 1 <= a /\ a <= b /\ b + 2 <= Len(Stream[s])
    /\ \A p \in a..b : Stream[s][p] = TEXT
    /\ a = 1 \/ Stream[s][a - 1] = LF
    /\ Stream[s][b + 1] = CR /\ Stream[s][b + 2] = LF

\* No recv that ends in the line, before its last unit, has begun before it.
CutFairly(s, a, b) == \A r \in reads[s] : r[2] \in a..(b - 1) => r[1] >= a

\* A line may be cut by any number of recvs and is one command, as long as none
\* of those that end in the line has begun before it.  (What such a one has of
\* the line is taken for a command, because there is a line feed before it.)
UncutLinesAreWhole ==
    \A s \in Socks : Proper(s) /\ arr_msg = <<>> =>
        \A a, b \in 1..read[s] :
            IsLine(s, a, b) /\ CutFairly(s, a, b) /\ b + 2 <= read[s] =>
                \E k \in DOMAIN handled[s] : handled[s][k] = Units(s, a, b)
=============================================================================
