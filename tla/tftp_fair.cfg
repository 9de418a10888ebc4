SPECIFICATION FairSpec

CONSTANTS
    Client = {c1, c2}
    Name = {"old", "new", "dir/new"}
    EmptyName = ""
    NoFile = NoFile
    NoClient = NoClient
    c1 = c1
    c2 = c2
    Byte = {1, 2, 3}
    BlockSize = 2
    W = 2
    Unopenable = {"dir/new"}
    IoResult = {TRUE}
    FsStatus = {"writable", "protected"}
    Lossy = FALSE
    DupOps = {}
    MaxDup = 0
    MaxReuse = 0
    MaxRestart = 0
    Source <- MCSource
    Disk0 <- MCDisk0

PROPERTIES
    TransferEnds
    SessionErased

\* Clients end.
CHECK_DEADLOCK FALSE
