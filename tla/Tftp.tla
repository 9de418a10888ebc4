-------------------------------- MODULE Tftp --------------------------------
(***************************************************************************)
(* The TFTP client (tftp/tftp-client.cpp) and server (tftp/tftp-server.cpp)*)
(* exchanging datagrams.  A client is one run of the client program: it    *)
(* performs one getFile or one putFile and ends.  It is named by its UDP   *)
(* endpoint, the key of the server's _sessions.  The server is one thread: *)
(* each of its actions is one completion handler of receive().             *)
(*                                                                         *)
(* Abstractions: a byte is an element of Byte, the 512-byte block is       *)
(* BlockSize bytes, the 16-bit block number is a number modulo W, and the  *)
(* transfer mode is "octet" (module TftpBlocks has the netascii            *)
(* conversion).  Local files of the clients and files of the server are    *)
(* in different directories.                                               *)
(***************************************************************************)
EXTENDS Integers, Sequences, FiniteSets

CONSTANTS
    Client,      \* client endpoints (address and ephemeral port)
    Name,        \* file names a client may ask for
    EmptyName,   \* the empty file name
    NoFile,      \* content of a file that does not exist
    NoClient,    \* no endpoint
    Byte,        \* byte values
    BlockSize,   \* 512 in the code
    W,           \* 2^16 in the code
    Source,      \* Source[c]: the local file that client c puts
    Disk0,       \* the server's files before the first request
    Unopenable,  \* names the server cannot create (missing directory, ...)
    IoResult,    \* results an open, a send or a receive may have
    FsStatus,    \* what the server's file system queries may find
    Lossy,       \* whether the network loses datagrams
    DupOps,      \* the operations whose datagrams may be delivered twice
    MaxDup,      \* bound: datagrams delivered twice
    MaxReuse,    \* bound: client endpoints taken by a new client process
    MaxRestart   \* bound: restarts of the server

Content == Seq(Byte)
Op == {"RRQ", "WRQ", "DATA", "ACK", "ERROR"}

ASSUME ConstantsAssumption ==
    /\ NoClient \notin Client
    /\ NoFile \notin Content
    /\ BlockSize \in Nat \ {0}
    /\ W \in Nat \ {0, 1}
    /\ Source \in [Client -> Content]
    /\ Disk0 \in [Name -> Content \cup {NoFile}]
    /\ \A f \in Unopenable \cap Name : Disk0[f] = NoFile
    /\ IoResult \subseteq BOOLEAN
    /\ FsStatus \subseteq {"writable", "protected", "error"}
    /\ Lossy \in BOOLEAN
    /\ DupOps \subseteq Op
    /\ MaxDup \in Nat /\ MaxReuse \in Nat /\ MaxRestart \in Nat

VARIABLES
    \* client c: getFile / putFile
    pc,           \* "idle", "get", "put", "got", "stored", "failed"
    file,         \* the remote file name
    blockNo,      \* expectedBlockNumber / currBlockNumber
    out,          \* content of outFile (getFile)
    pos,          \* bytes of Source[c] read from inFile (putFile)
    complete,     \* complete (putFile)
    \* session of endpoint c in the server's _sessions
    kind,         \* "none", "Read", "Write"
    counter,      \* _blockCounter
    stream,       \* _inFile/_outFile: "closed", "open", "failed" (open, failbit)
    sfile,        \* the name the stream was opened with
    spos,         \* read position of _inFile
    readComplete, \* _readComplete
    written,      \* bytes put into _outFile, flushed or not
    \* the server
    disk,         \* what its directory holds
    closing,      \* the client whose last ACK is sent, its file not closed yet
    running,      \* the program runs and its socket is bound
    \* the network: datagrams in flight between endpoint c and the server
    up, down,
    dups, reuses, restarts,  \* what is used of the bounds
    \* history: the file as it was when getFile began, if nobody was writing it
    promise

clientVars  == <<pc, file, blockNo, out, pos, complete, promise>>
sessionVars == <<kind, counter, stream, sfile, spos, readComplete, written>>
serverVars  == <<sessionVars, disk, closing, running, restarts>>
vars == <<clientVars, serverVars, up, down, dups, reuses>>

Num == 0 .. W - 1
ErrorCode == {"FileNotFound", "FileAlreadyExists", "AccessViolation",
              "UnknownTransferId", "IllegalOperation"}

Rrq(f)     == [op |-> "RRQ", name |-> f]
Wrq(f)     == [op |-> "WRQ", name |-> f]
Data(n, d) == [op |-> "DATA", num |-> n, data |-> d]
Ack(n)     == [op |-> "ACK", num |-> n]
Error(e)   == [op |-> "ERROR", code |-> e]

DataMsg  == [op : {"DATA"}, num : Num, data : Content]
AckMsg   == [op : {"ACK"}, num : Num]
ErrorMsg == [op : {"ERROR"}, code : ErrorCode]
ReqMsg   == [op : {"RRQ", "WRQ"}, name : Name]

(***************************************************************************)
(* Block numbers and blocks.                                               *)
(***************************************************************************)
Inc_NoWrap(n) == n + 1

\* The uint16_t increments of the block counters on both sides.
Inc(n) == (n + 1) % W

\* One read(buffer, 512) at position p, and its gcount() bytes.
Chunk(s, p) ==
    SubSeq(s, p + 1, IF p + BlockSize < Len(s) THEN p + BlockSize ELSE Len(s))

\* "the latest block": fewer than 512 bytes.
Short(d) == Len(d) < BlockSize

(***************************************************************************)
(* The network.  A datagram may be lost, overtaken or, while the bound     *)
(* lasts, delivered and still be in flight.                                *)
(***************************************************************************)
TakeUp(c, m) ==
    /\ m \in up[c]
    /\ \/ up' = [up EXCEPT ![c] = @ \ {m}] /\ UNCHANGED dups
       \/ m.op \in DupOps /\ dups < MaxDup /\ dups' = dups + 1 /\ UNCHANGED up

TakeDown(c, m) ==
    /\ m \in down[c]
    /\ \/ down' = [down EXCEPT ![c] = @ \ {m}] /\ UNCHANGED dups
       \/ m.op \in DupOps /\ dups < MaxDup /\ dups' = dups + 1 /\ UNCHANGED down

Lose(c) ==
    /\ Lossy
    /\ \/ \E m \in up[c] : up' = [up EXCEPT ![c] = @ \ {m}] /\ UNCHANGED down
       \/ \E m \in down[c] : down' = [down EXCEPT ![c] = @ \ {m}] /\ UNCHANGED up
    /\ UNCHANGED <<clientVars, serverVars, dups, reuses>>

\* TFTPClient::send: the datagram leaves, or send_to reports an error.
SendUp(c, m, sent) == up' = IF sent THEN [up EXCEPT ![c] = @ \cup {m}] ELSE up

\* TFTPSession::send and TFTPServer::send, whose callers only log a failure.
SendDown(c, m, sent) ==
    down' = IF sent THEN [down EXCEPT ![c] = @ \cup {m}] ELSE down

Reply(c, m) == \E sent \in IoResult : SendDown(c, m, sent)

(***************************************************************************)
(* The client.                                                             *)
(***************************************************************************)
Writers(f) == {c \in Client : kind[c] = "Write" /\ stream[c] # "closed" /\ sfile[c] = f}

End(c, result) == pc' = [pc EXCEPT ![c] = result]

\* getFile up to its loop: open outFile, send RRQ.  A failed send leaves the
\* empty outFile behind.
GetFile(c, f) ==
    /\ pc[c] = "idle"
    /\ file' = [file EXCEPT ![c] = f]
    /\ promise' = [promise EXCEPT ![c] = IF Writers(f) = {} THEN disk[f] ELSE NoFile]
    /\ \/ FALSE \in IoResult /\ End(c, "failed") /\ UNCHANGED <<out, up>>
       \/ \E sent \in IoResult :
            /\ out' = [out EXCEPT ![c] = <<>>]
            /\ SendUp(c, Rrq(f), sent)
            /\ End(c, IF sent THEN "get" ELSE "failed")
    /\ UNCHANGED <<blockNo, pos, complete, serverVars, down, dups, reuses>>

\* removeOutFile and return false.
AbandonGet(c) == End(c, "failed") /\ out' = [out EXCEPT ![c] = NoFile]

\* An ERROR datagram ends getFile before the block number is touched.
GetError(c) ==
    /\ pc[c] = "get"
    /\ \E m \in down[c] : m.op = "ERROR" /\ TakeDown(c, m)
    /\ AbandonGet(c)
    /\ UNCHANGED <<file, blockNo, pos, complete, promise, serverVars, up, reuses>>

InOrder_Any(m, n) == TRUE

InOrder(m, n) == m.num = n

\* A DATA datagram: the block is written and acknowledged, and a short block
\* completes the transfer, or the sequence is broken.
GetData(c) ==
    /\ pc[c] = "get"
    /\ blockNo' = [blockNo EXCEPT ![c] = Inc(@)]
    /\ \E m \in down[c] :
        /\ m.op = "DATA"
        /\ TakeDown(c, m)
        /\ \/ ~InOrder(m, Inc(blockNo[c])) /\ AbandonGet(c) /\ UNCHANGED up
           \/ /\ InOrder(m, Inc(blockNo[c]))
              /\ \E sent \in IoResult :
                   /\ SendUp(c, Ack(m.num), sent)
                   /\ \/ /\ sent
                         /\ out' = [out EXCEPT ![c] = @ \o m.data]
                         /\ End(c, IF Short(m.data) THEN "got" ELSE "get")
                      \/ ~sent /\ AbandonGet(c)
    /\ UNCHANGED <<file, pos, complete, promise, serverVars, reuses>>

\* Any other datagram is only logged, after expectedBlockNumber was bumped.
GetOther(c) ==
    /\ pc[c] = "get"
    /\ \E m \in down[c] : m.op = "ACK" /\ TakeDown(c, m)
    /\ blockNo' = [blockNo EXCEPT ![c] = Inc(@)]
    /\ UNCHANGED <<pc, file, out, pos, complete, promise, serverVars, up, reuses>>

\* putFile up to its loop: open inFile, send WRQ.
PutFile(c, f) ==
    /\ pc[c] = "idle"
    /\ file' = [file EXCEPT ![c] = f]
    /\ \/ FALSE \in IoResult /\ End(c, "failed") /\ UNCHANGED up
       \/ \E sent \in IoResult :
            /\ SendUp(c, Wrq(f), sent)
            /\ End(c, IF sent THEN "put" ELSE "failed")
    /\ UNCHANGED <<blockNo, out, pos, complete, promise, serverVars, down, dups, reuses>>

PutError(c) ==
    /\ pc[c] = "put"
    /\ \E m \in down[c] : m.op = "ERROR" /\ TakeDown(c, m)
    /\ End(c, "failed")
    /\ UNCHANGED <<file, blockNo, out, pos, complete, promise, serverVars, up, reuses>>

\* An ACK datagram in putFile: give up, finish, or send the next block.
PutAck(c) ==
    /\ pc[c] = "put"
    /\ \E m \in down[c] :
        /\ m.op = "ACK"
        /\ TakeDown(c, m)
        /\ \/ ~InOrder(m, blockNo[c]) /\ End(c, "failed")
              /\ UNCHANGED <<blockNo, pos, complete, up>>
           \/ /\ InOrder(m, blockNo[c]) /\ complete[c] /\ End(c, "stored")
              /\ UNCHANGED <<blockNo, pos, complete, up>>
           \/ /\ InOrder(m, blockNo[c]) /\ ~complete[c]
              /\ LET d == Chunk(Source[c], pos[c])
                     n == Inc(blockNo[c])
                 IN  /\ blockNo' = [blockNo EXCEPT ![c] = n]
                     /\ pos' = [pos EXCEPT ![c] = @ + Len(d)]
                     /\ complete' = [complete EXCEPT ![c] = Short(d)]
                     /\ \E sent \in IoResult :
                          /\ SendUp(c, Data(n, d), sent)
                          /\ End(c, IF sent THEN "put" ELSE "failed")
    /\ UNCHANGED <<file, out, promise, serverVars, reuses>>

PutOther(c) ==
    /\ pc[c] = "put"
    /\ \E m \in down[c] : m.op = "DATA" /\ TakeDown(c, m)
    /\ UNCHANGED <<clientVars, serverVars, up, reuses>>

\* recv() reports an error; getFile leaves outFile behind.
RecvFails(c) ==
    /\ pc[c] \in {"get", "put"}
    /\ FALSE \in IoResult
    /\ End(c, "failed")
    /\ UNCHANGED <<file, blockNo, out, pos, complete, promise,
                   serverVars, up, down, dups, reuses>>

\* The process has ended, or is interrupted while it waits, and the system
\* gives its port to a new client process.
Reuse(c) ==
    /\ pc[c] # "idle"
    /\ reuses < MaxReuse
    /\ reuses' = reuses + 1
    /\ pc' = [pc EXCEPT ![c] = "idle"]
    /\ blockNo' = [blockNo EXCEPT ![c] = 0]
    /\ out' = [out EXCEPT ![c] = NoFile]
    /\ pos' = [pos EXCEPT ![c] = 0]
    /\ complete' = [complete EXCEPT ![c] = FALSE]
    /\ promise' = [promise EXCEPT ![c] = NoFile]
    /\ UNCHANGED <<file, serverVars, up, down, dups>>

(***************************************************************************)
(* The server.  receive() hands a datagram to the session of its sender,   *)
(* creating one for RRQ and WRQ; a session that is absent has the values   *)
(* of a new one.                                                           *)
(***************************************************************************)
Ready == running /\ closing = NoClient

\* _sessions.erase: the streams of the session are destroyed.
Erase(c) ==
    /\ kind' = [kind EXCEPT ![c] = "none"]
    /\ counter' = [counter EXCEPT ![c] = 0]
    /\ stream' = [stream EXCEPT ![c] = "closed"]
    /\ sfile' = [sfile EXCEPT ![c] = EmptyName]
    /\ spos' = [spos EXCEPT ![c] = 0]
    /\ readComplete' = [readComplete EXCEPT ![c] = FALSE]
    /\ written' = [written EXCEPT ![c] = <<>>]

SendBlockOfData_Repeat(c, d, p) ==
    LET n == Inc(counter[c])
    IN  /\ counter' = [counter EXCEPT ![c] = n]
        /\ readComplete' = [readComplete EXCEPT ![c] = @ \/ Short(d)]
        /\ Reply(c, Data(n, d))
        /\ UNCHANGED spos

\* sendBlockOfData: the block d, read at position p.
SendBlockOfData(c, d, p) ==
    LET n == Inc(counter[c])
    IN  /\ counter' = [counter EXCEPT ![c] = n]
        /\ spos' = [spos EXCEPT ![c] = p + Len(d)]
        /\ readComplete' = [readComplete EXCEPT ![c] = @ \/ Short(d)]
        /\ Reply(c, Data(n, d))

OpenFails_Continue(c) ==
    /\ \E sent \in IoResult :
         down' = IF sent THEN [down EXCEPT ![c] = @ \cup {Error("FileNotFound"), Data(1, <<>>)}]
                 ELSE down
    /\ UNCHANGED <<counter, stream, sfile, spos, readComplete>>

OpenFails_Silent(c) ==
    UNCHANGED <<counter, stream, sfile, spos, readComplete, down>>

\* The open of RRQ fails: no such file, or the stream is open already, which
\* leaves it failed.
OpenFails(c) ==
    /\ stream' = [stream EXCEPT ![c] = IF @ = "closed" THEN @ ELSE "failed"]
    /\ Reply(c, Error("FileNotFound"))
    /\ UNCHANGED <<counter, sfile, spos, readComplete>>

ReadRequest(c) ==
    /\ Ready
    /\ kind[c] \in {"none", "Read"}
    /\ kind' = [kind EXCEPT ![c] = "Read"]
    /\ \E m \in up[c] :
        /\ m.op = "RRQ"
        /\ TakeUp(c, m)
        /\ \/ /\ m.name = EmptyName
              /\ UNCHANGED <<counter, stream, sfile, spos, readComplete, down>>
           \/ /\ m.name # EmptyName /\ stream[c] = "closed" /\ disk[m.name] # NoFile
              /\ stream' = [stream EXCEPT ![c] = "open"]
              /\ sfile' = [sfile EXCEPT ![c] = m.name]
              /\ SendBlockOfData(c, Chunk(disk[m.name], 0), 0)
           \/ /\ m.name # EmptyName /\ (stream[c] # "closed" \/ disk[m.name] = NoFile)
              /\ OpenFails(c)
    /\ UNCHANGED <<clientVars, written, disk, closing, running, restarts, reuses>>

\* ACK to a read session: a stream that is not good yields no bytes.
ReadAck(c) ==
    /\ Ready
    /\ kind[c] = "Read"
    /\ \E m \in up[c] :
        /\ m.op = "ACK"
        /\ TakeUp(c, m)
        /\ \/ /\ ~InOrder(m, counter[c])
              /\ Reply(c, Error("UnknownTransferId"))
              /\ UNCHANGED sessionVars
           \/ /\ InOrder(m, counter[c]) /\ readComplete[c]
              /\ Erase(c) /\ UNCHANGED down
           \/ /\ InOrder(m, counter[c]) /\ ~readComplete[c]
              /\ SendBlockOfData(c, IF stream[c] = "open" THEN Chunk(disk[sfile[c]], spos[c])
                                    ELSE <<>>, spos[c])
              /\ UNCHANGED <<kind, stream, sfile, written>>
    /\ UNCHANGED <<clientVars, disk, closing, running, restarts, reuses>>

MayCreate_Always(f) == TRUE

MayCreate(f) == disk[f] = NoFile

\* WRQ.  Whether the open succeeded is not looked at: ACK is sent anyway.
WriteRequest(c) ==
    /\ Ready
    /\ kind[c] \in {"none", "Write"}
    /\ kind' = [kind EXCEPT ![c] = "Write"]
    /\ \E m \in up[c], fs \in FsStatus :
        /\ m.op = "WRQ"
        /\ TakeUp(c, m)
        /\ \/ /\ m.name = EmptyName \/ fs = "error"
              /\ UNCHANGED <<stream, sfile, disk, down>>
           \/ /\ m.name # EmptyName /\ fs # "error" /\ ~MayCreate(m.name)
              /\ Reply(c, Error("FileAlreadyExists"))
              /\ UNCHANGED <<stream, sfile, disk>>
           \/ /\ m.name # EmptyName /\ fs = "protected" /\ MayCreate(m.name)
              /\ Reply(c, Error("AccessViolation"))
              /\ UNCHANGED <<stream, sfile, disk>>
           \/ /\ m.name # EmptyName /\ fs = "writable" /\ MayCreate(m.name)
              /\ \/ /\ stream[c] = "closed" /\ m.name \notin Unopenable
                    /\ stream' = [stream EXCEPT ![c] = "open"]
                    /\ sfile' = [sfile EXCEPT ![c] = m.name]
                    /\ disk' = [disk EXCEPT ![m.name] = <<>>]
                 \/ /\ stream[c] = "closed" /\ m.name \in Unopenable
                    /\ UNCHANGED <<stream, sfile, disk>>
                 \/ /\ stream[c] # "closed"
                    /\ stream' = [stream EXCEPT ![c] = "failed"]
                    /\ UNCHANGED <<sfile, disk>>
              /\ Reply(c, Ack(counter[c]))
    /\ UNCHANGED <<clientVars, counter, spos, readComplete, written,
                   closing, running, restarts, reuses>>

\* _outFile buffers: of the bytes written so far, any prefix at least as long
\* as before may have reached the file.
Flush(c, bytes) ==
    \E k \in Len(disk[sfile[c]]) .. Len(bytes) :
        disk' = [disk EXCEPT ![sfile[c]] = SubSeq(bytes, 1, k)]

\* DATA to a write session.  The counter is bumped before it is compared and
\* stays bumped after a mismatch; writes to a stream that is not good vanish.
\* After the ACK of the last block the handler goes on to CloseFile.
WriteData(c) ==
    /\ Ready
    /\ kind[c] = "Write"
    /\ counter' = [counter EXCEPT ![c] = Inc(@)]
    /\ \E m \in up[c] :
        /\ m.op = "DATA"
        /\ TakeUp(c, m)
        /\ \/ /\ ~InOrder(m, Inc(counter[c]))
              /\ Reply(c, Error("UnknownTransferId"))
              /\ UNCHANGED <<written, disk, closing>>
           \/ /\ InOrder(m, Inc(counter[c]))
              /\ \/ /\ stream[c] = "open"
                    /\ written' = [written EXCEPT ![c] = @ \o m.data]
                    /\ Flush(c, written[c] \o m.data)
                 \/ stream[c] # "open" /\ UNCHANGED <<written, disk>>
              /\ \E sent \in IoResult :
                   /\ SendDown(c, Ack(m.num), sent)
                   /\ closing' = IF sent /\ Short(m.data) THEN c ELSE NoClient
    /\ UNCHANGED <<clientVars, kind, stream, sfile, spos, readComplete,
                   running, restarts, reuses>>

CloseFile_Unflushed(c) ==
    /\ closing = c
    /\ closing' = NoClient
    /\ Erase(c)
    /\ UNCHANGED <<clientVars, disk, running, restarts, up, down, dups, reuses>>

CloseFile_Keep(c) ==
    /\ closing = c
    /\ closing' = NoClient
    /\ disk' = [disk EXCEPT ![sfile[c]] = written[c]]
    /\ UNCHANGED <<clientVars, sessionVars, running, restarts, up, down, dups, reuses>>

\* _outFile.close() and State::Finished: receive() erases the session.
CloseFile(c) ==
    /\ closing = c
    /\ closing' = NoClient
    /\ disk' = IF stream[c] = "closed" THEN disk
               ELSE [disk EXCEPT ![sfile[c]] = written[c]]
    /\ Erase(c)
    /\ UNCHANGED <<clientVars, running, restarts, up, down, dups, reuses>>

\* A message the session does not expect is logged and dropped.
Ignore(c) ==
    /\ Ready
    /\ \E m \in up[c] :
        /\ \/ kind[c] = "Read" /\ m.op \notin {"RRQ", "ACK"}
           \/ kind[c] = "Write" /\ m.op \notin {"WRQ", "DATA"}
        /\ TakeUp(c, m)
    /\ UNCHANGED <<clientVars, serverVars, down, reuses>>

\* A message that starts no session and finds none.
Stray(c) ==
    /\ Ready
    /\ kind[c] = "none"
    /\ \E m \in up[c] : m.op \notin {"RRQ", "WRQ"} /\ TakeUp(c, m)
    /\ Reply(c, Error("IllegalOperation"))
    /\ UNCHANGED <<clientVars, serverVars, reuses>>

\* SIGINT or SIGTERM: the io_context stops between two handlers, main returns
\* and the destructors of the sessions close their files.
Stop ==
    /\ Ready
    /\ restarts < MaxRestart
    /\ running' = FALSE
    /\ disk' = [f \in Name |-> IF Writers(f) = {} THEN disk[f]
                               ELSE written[CHOOSE c \in Writers(f) : TRUE]]
    /\ kind' = [c \in Client |-> "none"]
    /\ counter' = [c \in Client |-> 0]
    /\ stream' = [c \in Client |-> "closed"]
    /\ sfile' = [c \in Client |-> EmptyName]
    /\ spos' = [c \in Client |-> 0]
    /\ readComplete' = [c \in Client |-> FALSE]
    /\ written' = [c \in Client |-> <<>>]
    /\ UNCHANGED <<clientVars, closing, restarts, up, down, dups, reuses>>

\* The program is started again.
Start ==
    /\ ~running
    /\ running' = TRUE
    /\ restarts' = restarts + 1
    /\ UNCHANGED <<clientVars, sessionVars, disk, closing, up, down, dups, reuses>>

(***************************************************************************)
(* The specification.                                                      *)
(***************************************************************************)
Init ==
    /\ pc = [c \in Client |-> "idle"]
    /\ file = [c \in Client |-> EmptyName]
    /\ blockNo = [c \in Client |-> 0]
    /\ out = [c \in Client |-> NoFile]
    /\ pos = [c \in Client |-> 0]
    /\ complete = [c \in Client |-> FALSE]
    /\ promise = [c \in Client |-> NoFile]
    /\ kind = [c \in Client |-> "none"]
    /\ counter = [c \in Client |-> 0]
    /\ stream = [c \in Client |-> "closed"]
    /\ sfile = [c \in Client |-> EmptyName]
    /\ spos = [c \in Client |-> 0]
    /\ readComplete = [c \in Client |-> FALSE]
    /\ written = [c \in Client |-> <<>>]
    /\ disk = Disk0
    /\ closing = NoClient
    /\ running = TRUE
    /\ up = [c \in Client |-> {}]
    /\ down = [c \in Client |-> {}]
    /\ dups = 0 /\ reuses = 0 /\ restarts = 0

Begin(c) == \E f \in Name : GetFile(c, f) \/ PutFile(c, f)

ClientStep(c) ==
    \/ GetError(c) \/ GetData(c) \/ GetOther(c)
    \/ PutError(c) \/ PutAck(c) \/ PutOther(c)
    \/ RecvFails(c)

ServerStep(c) ==
    \/ ReadRequest(c) \/ ReadAck(c)
    \/ WriteRequest(c) \/ WriteData(c) \/ CloseFile(c)
    \/ Ignore(c) \/ Stray(c)

Next ==
    \/ \E c \in Client : Begin(c) \/ ClientStep(c) \/ ServerStep(c) \/ Lose(c) \/ Reuse(c)
    \/ Stop \/ Start

Spec == Init /\ [][Next]_vars

\* The io_context runs every handler whose datagram has arrived, in order of
\* arrival, and a client that is blocked in recv() is woken by its datagram.
Fairness ==
    \A c \in Client : WF_vars(ClientStep(c)) /\ WF_vars(ServerStep(c))

FairSpec == Spec /\ Fairness

(***************************************************************************)
(* Properties.                                                             *)
(***************************************************************************)
\* Type correctness: the uint16_t block counters wrap, and the two directions
\* carry the datagrams that the two programs send.
TypeOK ==
    /\ pc \in [Client -> {"idle", "get", "put", "got", "stored", "failed"}]
    /\ file \in [Client -> Name \cup {EmptyName}]
    /\ blockNo \in [Client -> Num]
    /\ out \in [Client -> Content \cup {NoFile}]
    /\ pos \in [Client -> Nat]
    /\ complete \in [Client -> BOOLEAN]
    /\ promise \in [Client -> Content \cup {NoFile}]
    /\ kind \in [Client -> {"none", "Read", "Write"}]
    /\ counter \in [Client -> Num]
    /\ stream \in [Client -> {"closed", "open", "failed"}]
    /\ sfile \in [Client -> Name \cup {EmptyName}]
    /\ spos \in [Client -> Nat]
    /\ readComplete \in [Client -> BOOLEAN]
    /\ written \in [Client -> Content]
    /\ disk \in [Name -> Content \cup {NoFile}]
    /\ closing \in Client \cup {NoClient}
    /\ running \in BOOLEAN
    /\ up \in [Client -> SUBSET (ReqMsg \cup DataMsg \cup AckMsg)]
    /\ down \in [Client -> SUBSET (DataMsg \cup AckMsg \cup ErrorMsg)]
    /\ dups \in 0 .. MaxDup /\ reuses \in 0 .. MaxReuse /\ restarts \in 0 .. MaxRestart

Prefix(s, t) == Len(s) <= Len(t) /\ s = SubSeq(t, 1, Len(s))

\* A getFile that returns true has received the whole file, if nobody was
\* writing that file when it began: every block, in order, once, through lost
\* datagrams, failed sends, wrapped block numbers, other clients' transfers and
\* restarts of the server (tftp-client.cpp:207-286, tftp-server.cpp:257-418).
\* A port that has changed hands is excepted, here and in PutIntact: the
\* session of its last owner may answer the new one.
GetIntact ==
    reuses = 0 =>
        \A c \in Client : pc[c] = "got" /\ promise[c] # NoFile => out[c] = promise[c]

\* Whatever getFile has written to outFile so far is the beginning of the
\* file on the server, also while another client is still putting that file.
GetPrefix ==
    \A c \in Client : pc[c] \in {"get", "got"} /\ out[c] # <<>> =>
        disk[file[c]] # NoFile /\ Prefix(out[c], disk[file[c]])

\* A putFile that returns true has stored its file on the server, if the server
\* could open it; the close of the file may still be due, since the last ACK is
\* sent before it (tftp-client.cpp:381-384, tftp-server.cpp:561-571).
PutIntact ==
    \A c \in Client : reuses = 0 /\ pc[c] = "stored" /\ file[c] \notin Unopenable =>
        \/ disk[file[c]] = Source[c]
        \/ /\ closing = c /\ stream[c] = "open"
           /\ sfile[c] = file[c] /\ written[c] = Source[c]

\* No two sessions ever hold the same file open for writing.
OneWriter == \A f \in Name : \A c, d \in Writers(f) : c = d

\* A file of the server is never removed, truncated or rewritten: it only grows
\* while the session that created it is open, and is then left alone.
ExistingFilesKept ==
    [][\A f \in Name : disk[f] # NoFile =>
          /\ disk'[f] # NoFile /\ Prefix(disk[f], disk'[f])
          /\ Writers(f) = {} => disk'[f] = disk[f]]_vars

\* As long as no datagram is delivered twice and no endpoint changes hands, a
\* client and its session never have more than one datagram between them.
StopAndWait ==
    \A c \in Client : Cardinality(up[c]) + Cardinality(down[c]) <= 1

\* On a network that loses nothing every transfer that began comes to an end:
\* getFile and putFile have no timeout, so each datagram must be answered.
TransferEnds ==
    \A c \in Client : pc[c] \in {"get", "put"} ~> pc[c] \in {"got", "stored", "failed"}

\* On such a network a successful transfer also leaves no session behind.
SessionErased ==
    \A c \in Client : pc[c] \in {"got", "stored"} ~> kind[c] = "none"

=============================================================================
