\* What becomes of the users behind a link that is lost?
CONSTANTS
    a = a
    b = b
    c = c
    amy = amy
    Servers = {a, b}
    Users = {amy}
    Home <- AtA
    Words <- OneWord
    Commands <- NoCommands
    MaxQueue = 2
    None = None
SPECIFICATION Spec
INVARIANT UsersHaveLinks
\* All servers may have ended.
CHECK_DEADLOCK FALSE
