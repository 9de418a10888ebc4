SPECIFICATION Spec

CONSTANTS
    Client = {c1, c2}
    Name = {"old", "new"}
    EmptyName = ""
    NoFile = NoFile
    NoClient = NoClient
    c1 = c1
    c2 = c2
    Byte = {1, 2, 3}
    BlockSize = 2
    W = 5
    Unopenable = {"dir/new"}
    IoResult = {TRUE}
    FsStatus = {"writable"}
    Lossy = TRUE
    DupOps = {"WRQ", "DATA", "ACK", "ERROR"}
    MaxDup = 1
    MaxReuse = 1
    MaxRestart = 0
    Source <- MCSource
    Disk0 <- MCDisk0

INVARIANTS
    GetIntact
    PutIntact

PROPERTIES
    ExistingFilesKept

\* Clients end, or wait for ever for a lost datagram.
CHECK_DEADLOCK FALSE
