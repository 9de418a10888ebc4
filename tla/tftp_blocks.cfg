SPECIFICATION Spec

CONSTANTS
    CR = "CR"
    LF = "LF"
    Char = {"CR", "LF", "x"}
    MaxLength = 6
    MaxBlocks = 7
    BlockSizes = {2, 3, 4}

INVARIANTS
    WireIsNetascii
    BlocksFit
    RoundTrip

PROPERTIES
    Completes

\* The transfer ends.
CHECK_DEADLOCK FALSE
