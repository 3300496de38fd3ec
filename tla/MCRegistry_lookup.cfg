\* Two clients, three nicks, descriptors and addresses that are used again.
SPECIFICATION Spec
CONSTANTS
    Socks = {s1, s2}
    Nicks = {n1, n2, n3}
    Objs = {o1, o2, o3}
    NoSock = NoSock
    MaxForms = 2
SYMMETRY RegistrySymmetry
INVARIANTS
    TypeOK
    Unambiguous
    Consistent
    Watched
