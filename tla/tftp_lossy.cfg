SPECIFICATION Spec

CONSTANTS
    Client = {c1, c2}
    Name = {"old", "new", "dir/new", ""}
    EmptyName = ""
    NoFile = NoFile
    NoClient = NoClient
    c1 = c1
    c2 = c2
    Byte = {1, 2, 3}
    BlockSize = 2
    W = 2
    Unopenable = {"dir/new"}
    IoResult = {TRUE, FALSE}
    FsStatus = {"writable", "protected", "error"}
    Lossy = TRUE
    DupOps = {}
    MaxDup = 0
    MaxReuse = 0
    MaxRestart = 1
    Source <- MCSource
    Disk0 <- MCDisk0

INVARIANTS
    TypeOK
    GetPrefix
    OneWriter
    StopAndWait

PROPERTIES
    ExistingFilesKept
    ImplementsFileService

\* Clients end, or wait for ever for a lost datagram.
CHECK_DEADLOCK FALSE
