SPECIFICATION FairSpec

CONSTANTS
    Client = {c1, c2}
    NoClient = NoClient
    c1 = c1
    c2 = c2
    Dot = 9
    Arpa = 8
    LabelLimit = 4
    ByteRange = 16
    Ttl = {7}
    Fault = {"lose", "dup", "io", "recv", "nonquery", "stop"}
    MaxFault = 1
    Argv <- MCArgv
    Line <- MCLine
    Alias <- MCAlias
    Address <- MCAddress

INVARIANTS
    TypeOK
    AnswerMatches
    PointersFollowed

PROPERTIES
    Answered

\* The clients end.
CHECK_DEADLOCK FALSE
