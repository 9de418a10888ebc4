SPECIFICATION Spec

CONSTANTS
    MaxSession = 1
    MaxText = 2
    MaxRestart = 0
    MaxRcpt = 2
    Address = {"a@here", "b@here", "c@here", "d@there"}
    Local = {"a@here", "b@here", "c@here"}
    Mailbox = {"a@here", "b@here"}
    Command = {"HELO", "DATA", "RSET", "VRFY", "NOOP", "QUIT", "OTHER", "BAD", "TEXT", "DOT", "TEXTDOT"}
    IoResult = {TRUE, FALSE}
    NoFile = NoFile
    NoAddress = NoAddress

INVARIANTS
    TypeOK
    AcceptedMailDelivered
    RecipientsFit
    DataReplied

PROPERTIES
    DeliveredFaithfully

\* Sessions close, are left without an operation, or are told nothing more.
CHECK_DEADLOCK FALSE
