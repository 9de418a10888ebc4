SPECIFICATION Spec

CONSTANTS
    Char = {"a", "b"}
    User <- MCUser
    Pass <- MCPass
    MaxHistory = 2
    Home = 2
    SizeMod = 8
    Widths = {1, 2, 3, 4}
    MaxLine = 3

INVARIANTS
    TypeOK
    OnlyLoggedIn
    HistoryPosInside
    ScreenShowsBuffer

PROPERTIES
    EnteredIsCurrent

\* A stopped server does nothing more.
CHECK_DEADLOCK FALSE
