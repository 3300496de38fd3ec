\* An operator, and descriptors that are used again.
SPECIFICATION Spec
CONSTANTS
    Socks <- TwoSocks
    PingT = 1
    ConnT = 3
    RegT = 2
    MaxAge = 7
    MaxForms = 2
    Victims <- TwoSocks
PROPERTIES
    EveryTalkerStays
