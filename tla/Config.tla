------------------------------- MODULE Config -------------------------------
(***************************************************************************)
(* The three timeouts of irisha.conf as apply_config reads and checks them *)
(* when the server starts.  The file has passed check_config, and comments *)
(* are gone.  A line is what matters of its text: the setting it names,    *)
(* the settings whose names occur in its value, and the number the value   *)
(* starts with.                                                            *)
(***************************************************************************)
EXTENDS Integers, Sequences

CONSTANTS
    Files,          \* the files to start with, sequences of lines
    Garbage,        \* values an int that is not initialised may have
    Other,          \* the name of every other setting
    NotANumber      \* of a value that does not start with a number

Settings == {"ping-timeout", "connection-timeout", "register-timeout"}

Line == [name : Settings \cup {Other}, says : SUBSET Settings, number : Int \cup {NotANumber}]

ASSUME FilesAssumption == Files \subseteq Seq(Line)
ASSUME GarbageAssumption == Garbage # {} /\ Garbage \subseteq Int
ASSUME NotANumberAssumption == NotANumber \notin Int /\ Other \notin Settings

VARIABLES
    file,           \* irisha.conf
    applied,        \* apply_config has returned
    ping_timeout, conn_timeout, reg_timeout

vars == <<file, applied, ping_timeout, conn_timeout, reg_timeout>>

Init ==
    /\ file \in Files
    /\ applied = FALSE
    /\ ping_timeout = 0 /\ conn_timeout = 0 /\ reg_timeout = 0

-----------------------------------------------------------------------------
(* Reading. *)

\* get_config_value looks for the name anywhere in the line.
Matches(i, setting) == file[i].name = setting \/ setting \in file[i].says

\* Mutant: the loop goes on after a match.
IsLastMatch(i, setting) ==
    /\ i \in DOMAIN file /\ Matches(i, setting)
    /\ \A j \in DOMAIN file : j > i => ~Matches(j, setting)

IsFirstMatch(i, setting) ==
    /\ i \in DOMAIN file /\ Matches(i, setting)
    /\ \A j \in DOMAIN file : j < i => ~Matches(j, setting)

\* str_to_int: 0 without a number.  Without a match the text is empty, and
\* extraction from an empty stream leaves the int as it was; or, when the file
\* does not end with a newline, it is the last line, which starts with a name.
Read(setting) ==
    IF \E i \in DOMAIN file : Matches(i, setting)
    THEN {IF file[i].number = NotANumber THEN 0 ELSE file[i].number :
             i \in {j \in DOMAIN file : IsFirstMatch(j, setting)}}
    ELSE Garbage \cup {0}

-----------------------------------------------------------------------------
(* check_timeout_values. *)

Allowed == 1..10000
OrDefault(n, default) == IF n \in Allowed THEN n ELSE default

\* Mutant: the comparison is made with the numbers of the file.
CheckedTooEarly(p, c, r) ==
    IF p > c \/ r > c THEN [ping |-> 20, conn |-> 120, reg |-> 20]
    ELSE [ping |-> OrDefault(p, 20), conn |-> OrDefault(c, 120), reg |-> OrDefault(r, 20)]

Checked(p, c, r) ==
    LET t == [ping |-> OrDefault(p, 20), conn |-> OrDefault(c, 120), reg |-> OrDefault(r, 20)] IN
    IF t.ping > t.conn \/ t.reg > t.conn THEN [ping |-> 20, conn |-> 120, reg |-> 20] ELSE t

ApplyConfig ==
    /\ ~applied
    /\ applied' = TRUE
    /\ \E p \in Read("ping-timeout"), c \in Read("connection-timeout"), r \in Read("register-timeout") :
          LET t == Checked(p, c, r) IN
          /\ ping_timeout' = t.ping
          /\ conn_timeout' = t.conn
          /\ reg_timeout' = t.reg
    /\ UNCHANGED file

Next == ApplyConfig

Spec == Init /\ [][Next]_vars

-----------------------------------------------------------------------------
(* Properties. *)

\* What module Timeouts assumes of the timeouts, whatever the file says: two
\* replaced values may not fit to a third that was kept.
Sane ==
    applied =>
        /\ {ping_timeout, conn_timeout, reg_timeout} \subseteq Allowed
        /\ ping_timeout <= conn_timeout /\ reg_timeout <= conn_timeout

\* Line i is the first that is about setting s, and it names s.
GivenBy(i, s) ==
    /\ file[i].name = s
    /\ \A j \in DOMAIN file : j < i => file[j].name # s /\ s \notin file[j].says

\* The numbers of lines i, j and k are timeouts that CONFIGURATION.md allows.
Valid(i, j, k) ==
    /\ {file[i].number, file[j].number, file[k].number} \subseteq Allowed
    /\ file[i].number < file[j].number /\ file[k].number < file[j].number

\* The timeouts in use are the numbers of lines i, j and k.
Used(i, j, k) ==
    /\ ping_timeout = file[i].number
    /\ conn_timeout = file[j].number
    /\ reg_timeout = file[k].number

\* Timeouts that CONFIGURATION.md allows are used as they are given: no check
\* and no default of one setting touches another one that is valid.
ValidKept ==
    applied =>
        \A i, j, k \in DOMAIN file :
            /\ GivenBy(i, "ping-timeout") /\ GivenBy(j, "connection-timeout")
            /\ GivenBy(k, "register-timeout") /\ Valid(i, j, k)
            => Used(i, j, k)
=============================================================================
