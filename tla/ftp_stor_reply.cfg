SPECIFICATION Spec

CONSTANTS
    Session = {s1, s2}
    Nobody = Nobody
    NoPath = NoPath
    NoFile = NoFile
    Path = {"/", "/d", "/d/f"}
    HomeDir = "/d"
    DirName = {"/d"}
    File = {i1, i2, i3}
    s1 = s1
    s2 = s2
    i1 = i1
    i2 = i2
    i3 = i3
    Byte = {0, 1, 2, 3, 4}
    Cr = 3
    Lf = 4
    RetrSize = 2
    StorSize = 2
    MaxCommand = 4
    Parent <- MCParent
    Tree0 <- MCTree0
    Content0 <- MCContent0
    Upload <- MCUpload
    Allowed <- MCAllowed

INVARIANTS
    Success226

CHECK_DEADLOCK FALSE
