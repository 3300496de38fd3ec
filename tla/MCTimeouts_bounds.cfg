\* KILL may hit one of the two descriptors: the bounds of the two timeouts, who
\* is closed, and that dead peers are.
SPECIFICATION FairSpec
CONSTANTS
    Socks <- TwoSocks
    PingT = 2
    ConnT = 4
    RegT = 3
    MaxAge = 10
    MaxForms = 2
    Victims <- OneSock
INVARIANTS
    TypeOK
    FormsArePending
    RegBound
    IdleBound
PROPERTIES
    TalkersStay
    AskedFirst
    DeadPeersAreClosed
