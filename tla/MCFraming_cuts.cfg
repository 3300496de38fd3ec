\* Two peers whose texts are cut in all ways.
CONSTANTS
    Socks <- Two
    Stream <- Texts
    ReadSize = 6
    Longest = 5
SPECIFICATION Spec
INVARIANTS TypeOK TextInOrder LinesApart UncutLinesAreWhole
\* The peers have sent their texts.
CHECK_DEADLOCK FALSE
