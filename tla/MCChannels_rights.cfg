\* One channel, three users and every kind of right on it: a kicker, a kicked
\* operator and a bystander at once.
SPECIFICATION Spec
CONSTANTS
    Users = {u1, u2, u3}
    Chans = {c1}
    Keys <- OneKey
    Topics <- OneTopic
    Modes <- AccessModes
    NoKey = NoKey
    NoTopic = NoTopic
    NoUser = NoUser
SYMMETRY UserSymmetry
INVARIANTS
    TypeOK
    MembersRecorded
PROPERTIES
    StaysOccupied
    OplessStays
    KeepsPromise
