SPECIFICATION FairSpec
CONSTANTS
    s1 = s1
    s2 = s2
    Session = {s1, s2}
    Input <- MCInput
    Username <- MCUsername
    Password <- MCPassword
    Exit <- MCExit
    RECV_BUFFER_SIZE = 4
    MaxInput <- MCMaxInput
INVARIANTS TypeOK StillServed OwnText
PROPERTIES Released InputRead
CHECK_DEADLOCK FALSE
