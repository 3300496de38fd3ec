\* Three servers, one of them late, and one channel.
CONSTANTS
    a = a
    b = b
    c = c
    amy = amy
    bob = bob
    cat = cat
    Servers = {a, b, c}
    Route <- Row
    Late = {c}
    Users = {amy, bob, cat}
    Home <- OneEach
    Chans = {"#c"}
    Founders = {amy, bob}
    Creator = amy
    Modes = {"i", "m", "n", "t"}
    Rights = {"o", "v"}
    Topics = {"t1"}
    Asked = {a}
    Crossing = FALSE
    MaxCommands = 3
    None = None
SPECIFICATION FairSpec
PROPERTY OnlyTopicsGoRound
INVARIANTS TypeOK LinkTellsTruth ChannelsAreFound HeardOnceInOrder NobodyMissed SendersAreKnown
\* The clients have given their commands, or a process has ended.
CHECK_DEADLOCK FALSE
