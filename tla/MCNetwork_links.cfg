\* Three servers that start, link, fail and part in any order.
CONSTANTS
    a = a
    b = b
    c = c
    amy = amy
    Servers = {a, b, c}
    Users = {amy}
    Home <- AtA
    Words <- TwoWords
    Commands <- SomeCommands
    MaxQueue = 3
    None = None
SPECIFICATION Spec
INVARIANTS TypeOK ParentTellsAll ChildTellsTrue OwnUsersAreLocal SiblingsAreAnnounced
\* All servers may have ended.
CHECK_DEADLOCK FALSE
