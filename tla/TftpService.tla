---------------------------- MODULE TftpService -----------------------------
(***************************************************************************)
(* Tftp implements FileService, as long as no datagram is delivered twice  *)
(* and no port changes hands.  A file counts as complete from the ACK of   *)
(* its last block on: while that handler is at work, its buffered bytes    *)
(* belong to the file, and the server answers nobody.                      *)
(***************************************************************************)
EXTENDS Tftp

ContentOf(f) ==
    IF closing # NoClient /\ closing \in Writers(f) THEN written[closing]
    ELSE disk[f]

Service ==
    INSTANCE FileService WITH
        NoName <- EmptyName,
        Files0 <- Disk0,
        Uncreatable <- Unopenable \cup {EmptyName},
        files <- [f \in Name |-> ContentOf(f)],
        open <- {f \in Name : Writers(f) # {}},
        status <- pc,
        name <- file,
        began <- promise,
        copy <- [c \in Client |-> IF pc[c] = "got" THEN out[c] ELSE NoFile]

\* The two programs, exchanging blocks over a network that loses datagrams, with
\* failing opens, sends and receives and a server that is stopped and started,
\* implement the file service: a get returns a whole file, a put returns when the
\* whole file is there, and a file that was begun is always a beginning of what
\* one client puts.
ImplementsFileService == Service!Spec
=============================================================================
