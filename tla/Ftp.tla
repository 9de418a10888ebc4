-------------------------------- MODULE Ftp --------------------------------
(***************************************************************************)
(* The FTP server (ftp/server).  FTPServer accepts control connections and *)
(* gives each an FTPSession with a thread of its own; the sessions share   *)
(* the file system and the one data port on which all of them listen.  An  *)
(* action is what a session's thread does between two calls at which       *)
(* another thread or a client can come in between.  Session s also names   *)
(* the client at the other end of its control connection.                  *)
(*                                                                         *)
(* A client sends a command when the session reads one (read_until into a  *)
(* new buffer drops what was sent early).  An invalid argument is answered *)
(* like one that names nothing.  A file is what an open stream refers to   *)
(* (an inode): it outlives its name while a transfer has it open.          *)
(***************************************************************************)
EXTENDS Integers, SequencesExt

CONSTANTS
    Session,    \* control connections, and the clients that made them
    Nobody,     \* no client
    Path,       \* the paths the commands can name
    Parent,     \* Parent[p]: the directory of p
    NoPath,     \* the parent of the topmost path
    HomeDir,    \* _rootDir
    DirName,    \* the paths whose last element MKD and RMD accept
    File,       \* files (inodes)
    NoFile,     \* no open file
    Tree0,      \* what is at each path at the start: a file, "dir" or "none"
    Content0,   \* Content0[f]: the bytes of file f at the start
    Upload,     \* Upload[c]: what client c sends over a data connection
    Byte, Cr, Lf,
    RetrSize,   \* the buffer of RETR, 1024 bytes in the code
    StorSize,   \* the buffer of STOR, 512 bytes in the code
    Allowed,    \* Allowed[s]: the commands the client of s uses
    MaxCommand  \* bound: commands given to all sessions together

Command == {"CWD", "DELE", "PASV", "NLST", "MKD", "USER", "PASS", "PORT",
            "QUIT", "RETR", "RMD", "STOR", "TYPE", "OTHER"}
Bytes == Seq(Byte)

\* Every byte replaced by what tab has for it.
Translate(b, tab) == FlattenSeq([i \in DOMAIN b |-> tab[b[i]]])

EndLines == [x \in Byte |-> IF x = Lf THEN <<Cr, Lf>> ELSE <<x>>]
DropCr == [x \in Byte |-> IF x = Cr THEN <<>> ELSE <<x>>]

ASSUME FtpAssumption ==
    /\ Nobody \notin Session /\ NoPath \notin Path /\ NoFile \notin File
    /\ HomeDir \in Path /\ DirName \subseteq Path
    /\ Parent \in [Path -> Path \cup {NoPath}]
    /\ "dir" \notin File /\ "none" \notin File
    /\ Tree0 \in [Path -> File \cup {"dir", "none"}]
    /\ Content0 \in [File -> Bytes]
    /\ Upload \in [Session -> Bytes]
    /\ 0 \in Byte /\ {Cr, Lf} \subseteq Byte /\ Cr # Lf
    /\ RetrSize \in Nat \ {0} /\ StorSize \in Nat \ {0}
    /\ Allowed \in [Session -> SUBSET Command]
    /\ MaxCommand \in Nat

VARIABLES
    pc,        \* where the thread of session s is
    user,      \* _username is set
    type,      \* _transferType
    currDir,   \* _currDir
    link,      \* _dataSocket: "closed", "unconnected" (open, no peer),
               \* "active" or "passive" (how it was connected), "eof"
    peer,      \* the client at the other end of _dataSocket
    acceptor,  \* _acceptor: "closed", "open" (not bound), "listening"
    backlog,   \* clients connected to the data port and not accepted yet
    tree,      \* what is at each path
    content,   \* the bytes of each file
    path,      \* the path that RETR or NLST has found and not opened yet
    file,      \* the file that inFile or outFile has open
    pos,       \* its position
    buffer,    \* bytes put into outFile and not flushed
    commands,  \* commands given so far
    \* history of the transfer under way
    code,      \* the last reply
    moved,     \* the bytes sent (RETR) or received (STOR)
    want,      \* the file that RETR has opened, or all that the client sends
    alone      \* nobody else wrote the file while it was open

netVars == <<link, peer, acceptor, backlog>>
diskVars == <<tree, content>>
openVars == <<path, file, pos, buffer>>
history == <<code, moved, want, alone>>
vars == <<pc, commands, user, type, currDir, netVars, diskVars, openVars, history>>

(***************************************************************************)
(* The control connection.                                                 *)
(***************************************************************************)
\* sendMessageToClient, whose errors are only logged.  Only the
\* replies of a transfer under way are remembered.
Reply(s, n) == code' = [code EXCEPT ![s] = IF n \in {150, 226, 446} THEN n ELSE 0]

\* acceptConnections' handler, FTPSession::start and the beginning of worker.
Connected(s) ==
    /\ pc[s] = "none"
    /\ pc' = [pc EXCEPT ![s] = "command"]
    /\ Reply(s, 220)
    /\ UNCHANGED <<commands, user, type, currDir, netVars, diskVars, openVars, moved, want, alone>>

\* worker reads a command; executeCommand calls its handler.
Executes(s, c) ==
    /\ pc[s] = "command" /\ c \in Allowed[s] /\ commands < MaxCommand
    /\ commands' = commands + 1
    /\ UNCHANGED <<moved, want, alone>>

Answers(s, n) == Reply(s, n) /\ UNCHANGED pc

\* The end of worker: only the control socket is closed.
Leave(s) ==
    /\ pc' = [pc EXCEPT ![s] = "ended"]
    /\ UNCHANGED <<user, type, currDir, netVars, diskVars, openVars>>

\* QUIT; or a PORT whose argument makes stoi or make_address throw.
Quit(s) == Executes(s, "QUIT") /\ Reply(s, 221) /\ Leave(s)
BadPort(s) == Executes(s, "PORT") /\ Reply(s, 0) /\ Leave(s)

\* read_until finds the control connection closed.
HangUp(s) == pc[s] = "command" /\ Leave(s) /\ UNCHANGED <<commands, history>>

(***************************************************************************)
(* Commands that move no data.                                             *)
(***************************************************************************)
\* FEAT, SYST, PWD and unknown commands.
Other(s) ==
    /\ Executes(s, "OTHER") /\ Answers(s, 500)
    /\ UNCHANGED <<user, type, currDir, netVars, diskVars, openVars>>

\* An unknown name is not answered, and the last known one stays.
User(s) ==
    /\ Executes(s, "USER")
    /\ \/ Answers(s, 331) /\ user' = [user EXCEPT ![s] = TRUE]
       \/ Answers(s, 0) /\ UNCHANGED user
    /\ UNCHANGED <<type, currDir, netVars, diskVars, openVars>>

\* Before USER it is not answered.
Pass(s) ==
    /\ Executes(s, "PASS")
    /\ \E n \in IF user[s] THEN {230, 530} ELSE {0} : Answers(s, n)
    /\ UNCHANGED <<user, type, currDir, netVars, diskVars, openVars>>

Type(s) ==
    /\ Executes(s, "TYPE")
    /\ \/ Answers(s, 200) /\ \E t \in {"ascii", "binary"} : type' = [type EXCEPT ![s] = t]
       \/ Answers(s, 504) /\ UNCHANGED type
    /\ UNCHANGED <<user, currDir, netVars, diskVars, openVars>>

Children(d) == {p \in Path : Parent[p] = d}

\* "..", a name below the current directory, or the current directory.
Cwd(s) ==
    /\ Executes(s, "CWD")
    /\ \/ \E d \in (Children(currDir[s]) \cup {currDir[s], Parent[currDir[s]]}) \ {NoPath} :
             /\ tree[d] = "dir"
             /\ currDir' = [currDir EXCEPT ![s] = d]
             /\ Answers(s, 250)
       \/ Answers(s, 550) /\ UNCHANGED currDir
    /\ UNCHANGED <<user, type, netVars, diskVars, openVars>>

\* The file loses its name; a transfer that has it open goes on.
Dele(s) ==
    /\ Executes(s, "DELE")
    /\ \/ \E p \in Children(currDir[s]) :
             /\ tree[p] \in File
             /\ tree' = [tree EXCEPT ![p] = "none"]
             /\ Answers(s, 250)
       \/ Answers(s, 550) /\ UNCHANGED tree
    /\ UNCHANGED <<user, type, currDir, netVars, content, openVars>>

\* create_directory fails where something is, or where no directory is above.
Mkd(s) ==
    /\ Executes(s, "MKD")
    /\ \/ \E p \in Children(currDir[s]) \cap DirName :
             /\ tree[p] = "none" /\ tree[currDir[s]] = "dir"
             /\ tree' = [tree EXCEPT ![p] = "dir"]
             /\ Answers(s, 250)
       \/ Answers(s, 550) /\ UNCHANGED tree
    /\ UNCHANGED <<user, type, currDir, netVars, content, openVars>>

\* fs::remove removes an empty directory only.
Rmd(s) ==
    /\ Executes(s, "RMD")
    /\ \/ \E p \in Children(currDir[s]) \cap DirName :
             /\ tree[p] = "dir" /\ \A q \in Children(p) : tree[q] = "none"
             /\ tree' = [tree EXCEPT ![p] = "none"]
             /\ Answers(s, 250)
       \/ Answers(s, 550) /\ UNCHANGED tree
    /\ UNCHANGED <<user, type, currDir, netVars, content, openVars>>

(***************************************************************************)
(* The data connection.                                                    *)
(***************************************************************************)
Linked(s) == link[s] \in {"active", "passive"}

\* openDataConnectionActive: connect opens the socket, and leaves it open when
\* it fails; nothing is replied then, nor when the socket has a peer already.
Port(s) ==
    /\ Executes(s, "PORT")
    /\ \/ /\ link[s] \in {"closed", "unconnected"}
          /\ link' = [link EXCEPT ![s] = "active"]
          /\ peer' = [peer EXCEPT ![s] = s]
          /\ Answers(s, 200)
       \/ /\ link' = [link EXCEPT ![s] = IF @ = "closed" THEN "unconnected" ELSE @]
          /\ Answers(s, 0) /\ UNCHANGED peer
    /\ UNCHANGED <<user, type, currDir, acceptor, backlog, diskVars, openVars>>

\* PASV and EPSV: the reply is sent before the server listens.
Pasv(s) ==
    /\ Executes(s, "PASV")
    /\ Reply(s, 227)
    /\ pc' = [pc EXCEPT ![s] = "listen"]
    /\ UNCHANGED <<user, type, currDir, netVars, diskVars, openVars>>

PortTaken == \E t \in Session : acceptor[t] = "listening"

Refused_NotChecked(s) == acceptor[s] # "closed"

\* The data socket is open, or the acceptor already is.
Refused(s) == link[s] # "closed" \/ acceptor[s] # "closed"

\* openDataConnectionPassive up to accept.  When another session listens on
\* the port, bind fails and the acceptor stays open.
Listen(s) ==
    /\ pc[s] = "listen"
    /\ \/ Refused(s) /\ pc' = [pc EXCEPT ![s] = "command"] /\ UNCHANGED acceptor
       \/ /\ ~Refused(s) /\ PortTaken
          /\ acceptor' = [acceptor EXCEPT ![s] = "open"]
          /\ pc' = [pc EXCEPT ![s] = "command"]
       \/ /\ ~Refused(s) /\ ~PortTaken
          /\ acceptor' = [acceptor EXCEPT ![s] = "listening"]
          /\ pc' = [pc EXCEPT ![s] = "accept"]
    /\ UNCHANGED <<commands, user, type, currDir, link, peer, backlog, diskVars, openVars, history>>

Accept_StopsListening(s) ==
    /\ pc[s] = "accept" /\ backlog # <<>>
    /\ link' = [link EXCEPT ![s] = "passive"]
    /\ peer' = [peer EXCEPT ![s] = Head(backlog)]
    /\ backlog' = <<>>
    /\ acceptor' = [acceptor EXCEPT ![s] = "closed"]
    /\ pc' = [pc EXCEPT ![s] = "command"]
    /\ UNCHANGED <<commands, user, type, currDir, diskVars, openVars, history>>

\* accept returns the first connection, whoever made it, and goes on listening.
Accept(s) ==
    /\ pc[s] = "accept" /\ backlog # <<>>
    /\ link' = [link EXCEPT ![s] = "passive"]
    /\ peer' = [peer EXCEPT ![s] = Head(backlog)]
    /\ backlog' = Tail(backlog)
    /\ pc' = [pc EXCEPT ![s] = "command"]
    /\ UNCHANGED <<commands, user, type, currDir, acceptor, diskVars, openVars, history>>

AcceptFails(s) ==
    /\ pc[s] = "accept"
    /\ pc' = [pc EXCEPT ![s] = "command"]
    /\ UNCHANGED <<commands, user, type, currDir, netVars, diskVars, openVars, history>>

CloseDataConnection_KeepsSocket(s) ==
    /\ peer' = [peer EXCEPT ![s] = Nobody]
    /\ acceptor' = [acceptor EXCEPT ![s] = "closed"]
    /\ backlog' = IF acceptor[s] = "listening" THEN <<>> ELSE backlog
    /\ UNCHANGED link

\* Connections that were not accepted are reset when the listener is closed.
CloseDataConnection(s) ==
    /\ link' = [link EXCEPT ![s] = "closed"]
    /\ peer' = [peer EXCEPT ![s] = Nobody]
    /\ acceptor' = [acceptor EXCEPT ![s] = "closed"]
    /\ backlog' = IF acceptor[s] = "listening" THEN <<>> ELSE backlog

\* A client connects to the data port, and closes its data connection.
Connect(c) ==
    /\ PortTaken
    /\ \A i \in DOMAIN backlog : backlog[i] # c
    /\ \A s \in Session : peer[s] # c
    /\ backlog' = Append(backlog, c)
    /\ UNCHANGED <<pc, commands, user, type, currDir, link, peer, acceptor, diskVars, openVars, history>>

Disconnect(c) ==
    /\ \E s \in Session :
          /\ peer[s] = c
          /\ link' = [link EXCEPT ![s] = "eof"]
          /\ peer' = [peer EXCEPT ![s] = Nobody]
    /\ UNCHANGED <<pc, commands, user, type, currDir, acceptor, backlog, diskVars, openVars, history>>

\* The last reply is sent; the stream is closed already, and the data
\* connection is closed next.
Ends(s, how) ==
    /\ pc' = [pc EXCEPT ![s] = how]
    /\ UNCHANGED <<user, type, currDir, netVars, openVars, want>>

\* closeDataConnection, at the end of every transfer.
Close(s) ==
    /\ pc[s] \in {"sent", "received"}
    /\ pc' = [pc EXCEPT ![s] = "command"]
    /\ path' = [path EXCEPT ![s] = NoPath]
    /\ file' = [file EXCEPT ![s] = NoFile]
    /\ pos' = [pos EXCEPT ![s] = 0]
    /\ buffer' = [buffer EXCEPT ![s] = <<>>]
    /\ moved' = [moved EXCEPT ![s] = <<>>]
    /\ want' = [want EXCEPT ![s] = <<>>]
    /\ alone' = [alone EXCEPT ![s] = TRUE]
    /\ code' = [code EXCEPT ![s] = 0]
    /\ CloseDataConnection(s)
    /\ UNCHANGED <<commands, user, type, currDir, diskVars>>

(***************************************************************************)
(* NLST and LIST: readDirectory finds a directory, then iterates over it.  *)
(***************************************************************************)
NoData(s, c) ==
    /\ link[s] = "closed"
    /\ Executes(s, c) /\ Answers(s, 425)
    /\ UNCHANGED <<user, type, currDir, netVars, diskVars, openVars>>

Nlst(s) ==
    \/ NoData(s, "NLST")
    \/ /\ link[s] # "closed"
       /\ Executes(s, "NLST") /\ Reply(s, 550)
       /\ Ends(s, "sent") /\ UNCHANGED diskVars
    \/ /\ link[s] # "closed"
       /\ Executes(s, "NLST") /\ Reply(s, 0)
       /\ \E d \in Children(currDir[s]) \cup {currDir[s]} :
             /\ tree[d] = "dir"
             /\ path' = [path EXCEPT ![s] = d]
       /\ pc' = [pc EXCEPT ![s] = "list"]
       /\ UNCHANGED <<user, type, currDir, netVars, diskVars, file, pos, buffer>>

\* 226 after the entries, 550 if there are none, no reply if the directory
\* has gone and the iterator throws.
List(s) ==
    /\ pc[s] = "list"
    /\ LET d == path[s]
       IN  Reply(s, CASE tree[d] # "dir" -> 0
                      [] tree[d] = "dir" /\ \A p \in Children(d) : tree[p] = "none" -> 550
                      [] OTHER -> 226)
    /\ Ends(s, "sent")
    /\ UNCHANGED <<commands, diskVars, moved, alone>>

(***************************************************************************)
(* RETR.                                                                   *)
(***************************************************************************)
\* The line that getline reads at position p, without its '\n', and where the
\* stream is after it.
LineEnd(b, p) ==
    LET ends == {i \in p + 1 .. Len(b) : b[i] = Lf}
    IN  IF ends = {} THEN Len(b) + 1 ELSE CHOOSE i \in ends : \A j \in ends : i <= j

After(b, p, t) ==
    IF t = "binary" /\ p + RetrSize < Len(b) THEN p + RetrSize
    ELSE IF t = "ascii" /\ LineEnd(b, p) < Len(b) THEN LineEnd(b, p)
    ELSE Len(b)

Piece_KeepsLf(b, p, t) ==
    IF t = "binary" THEN SubSeq(b, p + 1, After(b, p, t))
    ELSE SubSeq(b, p + 1, After(b, p, t)) \o <<Cr, Lf>>

\* What one turn of the loop sends: a buffer, or a line with CR LF.
Piece(b, p, t) ==
    IF t = "binary" THEN SubSeq(b, p + 1, After(b, p, t))
    ELSE SubSeq(b, p + 1, LineEnd(b, p) - 1) \o <<Cr, Lf>>

\* The file as RFC 959 has it on the wire: in ASCII every end of line is CR LF.
Wire(b, t) ==
    IF t = "binary" \/ b = <<>> THEN b
    ELSE Translate(b, EndLines) \o (IF Last(b) = Lf THEN <<>> ELSE <<Cr, Lf>>)

\* The path exists: 150.  A missing one leaves the data connection open.
Retr(s) ==
    \/ NoData(s, "RETR")
    \/ /\ link[s] # "closed"
       /\ Executes(s, "RETR") /\ Answers(s, 550)
       /\ UNCHANGED <<user, type, currDir, netVars, diskVars, openVars>>
    \/ /\ link[s] # "closed"
       /\ Executes(s, "RETR") /\ Reply(s, 150)
       /\ \E p \in Children(currDir[s]) :
             /\ tree[p] # "none"
             /\ path' = [path EXCEPT ![s] = p]
       /\ pc' = [pc EXCEPT ![s] = "open"]
       /\ UNCHANGED <<user, type, currDir, netVars, diskVars, file, pos, buffer>>

\* The stream is opened by name, and nobody looks at whether that worked; a
\* directory can be opened and gives no bytes.
OpenRetr(s) ==
    /\ pc[s] = "open"
    /\ LET f == tree[path[s]]
           opened == f \in File
       IN  /\ file' = [file EXCEPT ![s] = IF opened THEN f ELSE NoFile]
           /\ want' = [want EXCEPT ![s] = IF opened THEN content[f] ELSE <<>>]
           /\ alone' = [alone EXCEPT ![s] =
                          opened /\ \A t \in Session : ~(pc[t] = "stor" /\ file[t] = f)]
    /\ pc' = [pc EXCEPT ![s] = "retr"]
    /\ UNCHANGED <<commands, user, type, currDir, netVars, diskVars, path, pos, buffer, code, moved>>

AtEnd(s) == file[s] # NoFile => pos[s] >= Len(content[file[s]])

\* One piece is sent.  A peer that has closed need not be noticed at once.
RetrSend(s) ==
    /\ pc[s] = "retr" /\ ~AtEnd(s) /\ link[s] # "unconnected"
    /\ moved' = [moved EXCEPT ![s] = @ \o Piece(content[file[s]], pos[s], type[s])]
    /\ pos' = [pos EXCEPT ![s] = After(content[file[s]], @, type[s])]
    /\ UNCHANGED <<pc, commands, user, type, currDir, netVars, diskVars, path, file, buffer,
                   code, want, alone>>

\* The file is sent, or a send fails: then there is no second reply.
RetrEnd(s) ==
    /\ pc[s] = "retr"
    /\ \/ AtEnd(s) /\ Reply(s, 226)
       \/ ~AtEnd(s) /\ UNCHANGED code
    /\ Ends(s, "sent")
    /\ UNCHANGED <<commands, diskVars, moved, alone>>

(***************************************************************************)
(* STOR.                                                                   *)
(***************************************************************************)
\* Text mode drops every '\r'.
Stored(b, t) == IF t = "binary" THEN b ELSE Translate(b, DropCr)

\* Bytes written at position p of a file: another stream may have truncated it.
Overlay(b, p, d) ==
    LET end == p + Len(d)
    IN  [i \in 1 .. (IF end > Len(b) THEN end ELSE Len(b)) |->
            IF i \in p + 1 .. end THEN d[i - p] ELSE IF i <= Len(b) THEN b[i] ELSE 0]

\* Other streams on the file of s see it change.
Disturb(s, f) == [t \in Session |-> alone[t] /\ ~(t # s /\ f # NoFile /\ file[t] = f)]

Free(f) == (\A p \in Path : tree[p] # f) /\ (\A t \in Session : file[t] # f)

\* opening outFile truncates the file or creates it; whether that worked is
\* not looked at.
Stor(s) ==
    \/ NoData(s, "STOR")
    \/ /\ pc[s] = "command" /\ "STOR" \in Allowed[s] /\ link[s] # "closed"
       /\ Reply(s, 150)
       /\ commands < MaxCommand /\ commands' = commands + 1
       /\ pc' = [pc EXCEPT ![s] = "stor"]
       /\ \E p \in Children(currDir[s]) :
             LET f == CASE tree[p] \in File -> tree[p]
                        [] /\ tree[p] = "none" /\ tree[currDir[s]] = "dir"
                           /\ \E g \in File : Free(g) -> CHOOSE g \in File : Free(g)
                        [] OTHER -> NoFile
             IN  /\ tree' = IF f = NoFile THEN tree ELSE [tree EXCEPT ![p] = f]
                 /\ content' = IF f = NoFile THEN content ELSE [content EXCEPT ![f] = <<>>]
                 /\ file' = [file EXCEPT ![s] = f]
                 /\ alone' = [Disturb(s, f) EXCEPT ![s] =
                                \A t \in Session : ~(pc[t] = "stor" /\ file[t] = f)]
       /\ moved' = [moved EXCEPT ![s] = <<>>]
       /\ want' = [want EXCEPT ![s] = IF Linked(s) THEN Upload[peer[s]] ELSE <<>>]
       /\ UNCHANGED <<user, type, currDir, netVars, path, pos, buffer>>

\* What outFile's buffer holds goes to the file.
Write(s, d) ==
    /\ content' = IF file[s] = NoFile THEN content
                  ELSE [content EXCEPT ![file[s]] = Overlay(@, pos[s], d)]
    /\ alone' = Disturb(s, file[s])
    /\ UNCHANGED tree

\* read_some returns what has arrived; fewer than 512 bytes end the transfer.
\* outFile may flush its buffer when more is put into it.
StorRead(s) ==
    /\ pc[s] = "stor" /\ Linked(s)
    /\ UNCHANGED commands
    /\ \E n \in 1 .. StorSize :
          LET k == Len(moved[s])
              d == SubSeq(Upload[peer[s]], k + 1, k + n)
              b == buffer[s] \o Stored(d, type[s])
          IN  /\ k + n <= Len(Upload[peer[s]])
              /\ moved' = [moved EXCEPT ![s] = @ \o d]
              /\ \/ n < StorSize /\ Write(s, b) /\ Reply(s, 226) /\ Ends(s, "received")
                 \/ /\ n = StorSize
                    /\ \/ /\ Write(s, b)
                          /\ pos' = [pos EXCEPT ![s] = @ + Len(b)]
                          /\ buffer' = [buffer EXCEPT ![s] = <<>>]
                       \/ /\ buffer' = [buffer EXCEPT ![s] = b]
                          /\ UNCHANGED <<diskVars, pos, alone>>
                    /\ UNCHANGED <<pc, user, type, currDir, netVars, path, file, code, want>>

StorFails_Lost(s) ==
    /\ pc[s] = "stor"
    /\ Reply(s, 446)
    /\ Ends(s, "received")
    /\ UNCHANGED <<commands, diskVars, moved, alone>>

\* The end of the stream, or an error; with neither, read_some goes on waiting.
StorFails(s) ==
    /\ pc[s] = "stor"
    /\ Write(s, buffer[s])
    /\ Reply(s, 446)
    /\ Ends(s, "received")
    /\ UNCHANGED <<commands, moved>>

-----------------------------------------------------------------------------
Init ==
    /\ pc = [s \in Session |-> "none"]
    /\ commands = 0
    /\ user = [s \in Session |-> FALSE]
    /\ type = [s \in Session |-> "binary"]
    /\ currDir = [s \in Session |-> HomeDir]
    /\ link = [s \in Session |-> "closed"]
    /\ peer = [s \in Session |-> Nobody]
    /\ acceptor = [s \in Session |-> "closed"]
    /\ backlog = <<>>
    /\ tree = Tree0
    /\ content = Content0
    /\ path = [s \in Session |-> NoPath]
    /\ file = [s \in Session |-> NoFile]
    /\ pos = [s \in Session |-> 0]
    /\ buffer = [s \in Session |-> <<>>]
    /\ code = [s \in Session |-> 0]
    /\ moved = [s \in Session |-> <<>>]
    /\ want = [s \in Session |-> <<>>]
    /\ alone = [s \in Session |-> TRUE]

Execute(s) ==
    \/ Other(s) \/ User(s) \/ Pass(s) \/ Type(s) \/ Cwd(s) \/ Dele(s) \/ Mkd(s)
    \/ Rmd(s) \/ Port(s) \/ BadPort(s) \/ Pasv(s) \/ Nlst(s) \/ Retr(s) \/ Stor(s) \/ Quit(s)

\* What the thread does once a command is given.
Works(s) ==
    \/ Listen(s) \/ Accept(s) \/ List(s) \/ OpenRetr(s) \/ RetrSend(s) \/ RetrEnd(s)
    \/ StorRead(s) \/ StorFails(s) \/ Close(s)

Next ==
    \E s \in Session :
        \/ Connected(s) \/ HangUp(s) \/ Execute(s)
        \/ Works(s) \/ AcceptFails(s)
        \/ Connect(s) \/ Disconnect(s)

Spec == Init /\ [][Next]_vars

\* What the thread needs nobody for: a call on a data connection without a peer
\* returns at once.
Runs(s) ==
    \/ Listen(s) \/ Accept(s) \/ OpenRetr(s) \/ Close(s)
    \/ AtEnd(s) /\ RetrEnd(s)
    \/ ~Linked(s) /\ (List(s) \/ RetrSend(s) \/ RetrEnd(s) \/ StorFails(s))

\* What the peer of the data connection lets go on, reading or sending; or it
\* closes, as it does when everything is sent.  No call has a timeout.
PeerMoves(s) ==
    /\ pc[s] \in {"list", "retr", "stor"} /\ Linked(s)
    /\ List(s) \/ RetrSend(s) \/ StorRead(s) \/ Disconnect(peer[s])

\* The threads run.  Of the clients: whoever may connect to a port that is
\* listened on does, and a peer does not leave a transfer waiting for ever.
FairSpec ==
    /\ Spec
    /\ \A s \in Session : WF_vars(Runs(s)) /\ WF_vars(PeerMoves(s)) /\ WF_vars(Connect(s))

-----------------------------------------------------------------------------
\* Type correctness: a data socket has a peer exactly while it is connected, and
\* no file is written beyond the bytes that exist.
TypeOK ==
    /\ pc \in [Session -> {"none", "command", "listen", "accept", "list", "open",
                           "retr", "stor", "sent", "received", "ended"}]
    /\ commands \in 0 .. MaxCommand
    /\ user \in [Session -> BOOLEAN]
    /\ type \in [Session -> {"ascii", "binary"}]
    /\ currDir \in [Session -> Path]
    /\ link \in [Session -> {"closed", "unconnected", "active", "passive", "eof"}]
    /\ peer \in [Session -> Session \cup {Nobody}]
    /\ \A s \in Session : peer[s] # Nobody <=> Linked(s)
    /\ acceptor \in [Session -> {"closed", "open", "listening"}]
    /\ backlog \in Seq(Session)
    /\ tree \in [Path -> File \cup {"dir", "none"}]
    /\ content \in [File -> Bytes]
    /\ path \in [Session -> Path \cup {NoPath}]
    /\ file \in [Session -> File \cup {NoFile}]
    /\ pos \in [Session -> Nat]
    /\ buffer \in [Session -> Bytes] /\ moved \in [Session -> Bytes] /\ want \in [Session -> Bytes]
    /\ code \in [Session -> {0, 150, 226, 446}]
    /\ alone \in [Session -> BOOLEAN]

\* A RETR that is answered with 226 has sent the file as it was when it was
\* opened, in ASCII mode with every line ended by CR LF: deleting it or its
\* directory meanwhile does not matter, as long as no STOR writes to it.
RetrIntact ==
    \A s \in Session : pc[s] = "sent" /\ code[s] = 226 /\ alone[s] =>
        moved[s] = Wire(want[s], type[s])

\* When a STOR ends, however it ends, the file it opened holds what was
\* received, in order and to the last byte, unless another STOR wrote it too.
StoredIsReceived ==
    \A s \in Session :
        pc[s] = "received" /\ alone[s] /\ file[s] # NoFile =>
            content[file[s]] = Stored(moved[s], type[s])

\* Only one session at a time waits for or has a passive data connection: the
\* listener is kept until the transfer is over, so that no other session can
\* bind the port meanwhile.
OnePassive ==
    Cardinality({s \in Session : pc[s] = "accept" \/ link[s] = "passive"}) <= 1

\* A session's thread comes back to reading commands after every command,
\* accept and transfers included, provided that clients connect to a port that
\* is listened on, and that the peer of a transfer reads, sends or closes: accept
\* (ftp_session.cpp:745), read_some (605, 628) and write (126, 136) wait for
\* them without a timeout.  Nothing that another session does can keep it.
Responsive ==
    \A s \in Session : pc[s] \notin {"none", "command", "ended"} ~> pc[s] = "command"

\* "226 The file transferred successfully": the client's whole file has been
\* received.
Success226 ==
    \A s \in Session : pc[s] = "received" /\ code[s] = 226 => moved[s] = want[s]

=============================================================================
