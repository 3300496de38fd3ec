\* Can every connected user be removed?
SPECIFICATION Spec
CONSTANTS
    Users = {u1, u2}
    Chans = {c1, c2}
    Keys <- NoKeys
    Topics <- NoKeys
    Modes <- NoModes
    NoKey = NoKey
    NoTopic = NoTopic
    NoUser = NoUser
SYMMETRY UserChanSymmetry
INVARIANTS
    Removable
