SPECIFICATION Spec

CONSTANTS
    MaxSession = 2
    MaxText = 2
    MaxRestart = 1
    MaxRcpt = 1
    Address = {"a@here"}
    Local = {"a@here"}
    Mailbox = {"a@here"}
    Command = {"HELO", "DATA", "TEXT", "DOT"}
    IoResult = {TRUE}
    NoFile = NoFile
    NoAddress = NoAddress

PROPERTIES
    DeliveredFaithfully

\* Sessions close, are left without an operation, or are told nothing more.
CHECK_DEADLOCK FALSE
