\* Two servers, whose clients set and clear the topic.
CONSTANTS
    a = a
    b = b
    c = c
    amy = amy
    bob = bob
    cat = cat
    Servers = {a, b}
    Route <- Pair
    Late = {}
    Users = {amy, bob}
    Home <- AmyAndBob
    Chans = {"#c"}
    Founders = {amy, bob}
    Creator = amy
    Modes = {"t"}
    Rights = {"o"}
    Topics = {"t1"}
    Asked = {}
    Crossing = TRUE
    MaxCommands = 2
    None = None
SPECIFICATION FairSpec
PROPERTY Settles
\* The clients have given their commands, or a process has ended.
CHECK_DEADLOCK FALSE
