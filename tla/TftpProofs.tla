----------------------------- MODULE TftpProofs -----------------------------
(***************************************************************************)
(* Theorems about module Tftp, for every set of clients, every file, every *)
(* block size and every modulus of the block numbers: about the server's   *)
(* files, under every fault; and, as long as no datagram has been          *)
(* delivered twice and no port has changed hands, about transfers: what    *)
(* each brings about, and that Tftp implements FileService.                *)
(***************************************************************************)
EXTENDS TftpService, FiniteSetTheorems, SequenceTheorems, TLAPS

USE ConstantsAssumption

\* The files that getFile and the sessions hold open exist.
StreamsOpen ==
    \A c \in Client :
        /\ pc[c] = "get" => out[c] # NoFile
        /\ stream[c] # "closed" =>
             kind[c] # "none" /\ sfile[c] \in Name /\ disk[sfile[c]] # NoFile

\* The program that is down has restarts left.
RestartLeft == ~running => restarts < MaxRestart

TypeInv == TypeOK /\ StreamsOpen /\ RestartLeft

LEMMA UpTo == ASSUME NEW a \in Nat, NEW b \in Nat, NEW k \in a .. b PROVE k \in 0 .. b
  OBVIOUS

LEMMA SetOne ==
    ASSUME NEW S, NEW T, NEW f \in [S -> T], NEW x \in S, NEW v \in T
    PROVE  [f EXCEPT ![x] = v] \in [S -> T]
  OBVIOUS

LEMMA IncType == ASSUME NEW n \in Nat PROVE Inc(n) \in Num
  BY DEF Inc, Num

LEMMA ChunkType ==
    ASSUME NEW s \in Content, NEW p \in Nat
    PROVE  Chunk(s, p) \in Content
  <1> DEFINE h == IF p + BlockSize < Len(s) THEN p + BlockSize ELSE Len(s)
  <1>1. h \in Nat /\ h <= Len(s)
    BY DEF Content
  <1>2. \A i \in p + 1 .. h : s[i] \in Byte
    BY <1>1 DEF Content
  <1> QED
    BY <1>1, <1>2 DEF Chunk, Content

LEMMA ContentFacts ==
    /\ <<>> \in Content /\ Len(<<>>) = 0
    /\ \A s \in Content : Len(s) \in Nat
    /\ \A s, t \in Content : s \o t \in Content /\ Len(s \o t) = Len(s) + Len(t)
    /\ \A s \in Content : s # NoFile
  BY DEF Content

LEMMA PrefixType ==
    ASSUME NEW s \in Content, NEW k \in 0 .. Len(s)
    PROVE  SubSeq(s, 1, k) \in Content /\ Len(SubSeq(s, 1, k)) = k
  <1>1. \A i \in 1 .. k : s[i] \in Byte
    BY DEF Content
  <1> QED
    BY <1>1 DEF Content

LEMMA TypeFacts ==
    ASSUME TypeOK, NEW c \in Client
    PROVE  /\ pos[c] \in Nat /\ spos[c] \in Nat
           /\ blockNo[c] \in Num /\ counter[c] \in Num
           /\ blockNo[c] \in Nat /\ counter[c] \in Nat
           /\ written[c] \in Content /\ out[c] \in Content \cup {NoFile}
           /\ Source[c] \in Content
           /\ \A f \in Name : disk[f] \in Content \cup {NoFile}
  BY DEF TypeOK, Num

LEMMA TakeType ==
    ASSUME TypeOK, NEW c \in Client, NEW m
    PROVE  /\ TakeUp(c, m) =>
                /\ m \in ReqMsg \cup DataMsg \cup AckMsg
                /\ up' \in [Client -> SUBSET (ReqMsg \cup DataMsg \cup AckMsg)]
                /\ dups' \in 0 .. MaxDup
           /\ TakeDown(c, m) =>
                /\ m \in DataMsg \cup AckMsg \cup ErrorMsg
                /\ down' \in [Client -> SUBSET (DataMsg \cup AckMsg \cup ErrorMsg)]
                /\ dups' \in 0 .. MaxDup
  BY DEF TakeUp, TakeDown, TypeOK

LEMMA SendType ==
    ASSUME TypeOK, NEW c \in Client, NEW m, NEW sent
    PROVE  /\ SendUp(c, m, sent) /\ m \in ReqMsg \cup DataMsg \cup AckMsg =>
                up' \in [Client -> SUBSET (ReqMsg \cup DataMsg \cup AckMsg)]
           /\ SendDown(c, m, sent) /\ m \in DataMsg \cup AckMsg \cup ErrorMsg =>
                down' \in [Client -> SUBSET (DataMsg \cup AckMsg \cup ErrorMsg)]
  BY DEF SendUp, SendDown, TypeOK

LEMMA ReplyType ==
    ASSUME TypeOK, NEW c \in Client, NEW m \in DataMsg \cup AckMsg \cup ErrorMsg, Reply(c, m)
    PROVE  down' \in [Client -> SUBSET (DataMsg \cup AckMsg \cup ErrorMsg)]
  BY SendType DEF Reply

LEMMA MsgType ==
    /\ \A f \in Name : Rrq(f) \in ReqMsg /\ Wrq(f) \in ReqMsg
    /\ \A n \in Num : Ack(n) \in AckMsg
    /\ \A n \in Num, d \in Content : Data(n, d) \in DataMsg
    /\ \A e \in ErrorCode : Error(e) \in ErrorMsg
  BY DEF Rrq, Wrq, Ack, Data, Error, ReqMsg, AckMsg, DataMsg, ErrorMsg

LEMMA MsgOp ==
    /\ \A m \in ReqMsg : m.op \in {"RRQ", "WRQ"} /\ m.name \in Name
    /\ \A m \in AckMsg : m.op = "ACK" /\ m.num \in Num
    /\ \A m \in DataMsg : m.op = "DATA" /\ m.num \in Num /\ m.data \in Content
    /\ \A m \in ErrorMsg : m.op = "ERROR" /\ m.code \in ErrorCode
  BY DEF ReqMsg, AckMsg, DataMsg, ErrorMsg

LEMMA TypeInit == Init => TypeOK
  BY DEF Init, TypeOK, Num, Content

LEMMA TypeClient ==
    ASSUME TypeInv, NEW c \in Client, Begin(c) \/ ClientStep(c) \/ Lose(c) \/ Reuse(c)
    PROVE  TypeOK'
  <1> USE DEF Num, TypeInv
  <1>1. ASSUME NEW f \in Name, GetFile(c, f) PROVE TypeOK'
    <2>1. up' \in [Client -> SUBSET (ReqMsg \cup DataMsg \cup AckMsg)]
      BY <1>1, SendType, MsgType DEF GetFile, TypeOK
    <2>2. /\ out' \in [Client -> Content \cup {NoFile}]
          /\ pc' \in [Client -> {"idle", "get", "put", "got", "stored", "failed"}]
      <3>1. /\ out \in [Client -> Content \cup {NoFile}]
            /\ pc \in [Client -> {"idle", "get", "put", "got", "stored", "failed"}]
        BY DEF TypeOK
      <3>2. \/ UNCHANGED out
            \/ out' = [out EXCEPT ![c] = <<>>]
        BY <1>1 DEF GetFile
      <3>3. \E r \in {"get", "failed"} : pc' = [pc EXCEPT ![c] = r]
        BY <1>1 DEF GetFile, End
      <3> QED
        BY <3>1, <3>2, <3>3, ContentFacts
    <2>3. promise' \in [Client -> Content \cup {NoFile}]
      BY <1>1, TypeFacts DEF GetFile, TypeOK
    <2> QED
      BY <1>1, <2>1, <2>2, <2>3 DEF GetFile, TypeOK, serverVars, sessionVars
  <1>2. ASSUME NEW f \in Name, PutFile(c, f) PROVE TypeOK'
    <2>1. up' \in [Client -> SUBSET (ReqMsg \cup DataMsg \cup AckMsg)]
      BY <1>2, SendType, MsgType DEF PutFile, TypeOK
    <2> QED
      BY <1>2, <2>1 DEF PutFile, End, TypeOK, serverVars, sessionVars
  <1>3. CASE GetError(c)
    BY <1>3, TakeType DEF GetError, AbandonGet, End, TypeOK, serverVars, sessionVars
  <1>4. CASE GetData(c)
    <2>1. PICK m \in down[c] :
            /\ m.op = "DATA"
            /\ TakeDown(c, m)
            /\ \/ AbandonGet(c) /\ UNCHANGED up
               \/ \E sent \in IoResult :
                    /\ SendUp(c, Ack(m.num), sent)
                    /\ \/ /\ sent
                          /\ out' = [out EXCEPT ![c] = @ \o m.data]
                          /\ End(c, IF Short(m.data) THEN "got" ELSE "get")
                       \/ ~sent /\ AbandonGet(c)
      BY <1>4 DEF GetData
    <2>2. m.num \in Num /\ m.data \in Content
      BY <2>1, TakeType, MsgOp
    <2>3. up' \in [Client -> SUBSET (ReqMsg \cup DataMsg \cup AckMsg)]
      <3>1. Ack(m.num) \in AckMsg
        BY <2>2, MsgType
      <3> QED
        BY <2>1, <3>1, SendType DEF TypeOK
    <2>4. /\ out' \in [Client -> Content \cup {NoFile}]
          /\ pc' \in [Client -> {"idle", "get", "put", "got", "stored", "failed"}]
      <3>1. out[c] \in Content
        BY <1>4, TypeFacts DEF GetData, StreamsOpen
      <3>2. out[c] \o m.data \in Content
        BY <2>2, <3>1, ContentFacts
      <3> QED
        <4>1. /\ out \in [Client -> Content \cup {NoFile}]
              /\ pc \in [Client -> {"idle", "get", "put", "got", "stored", "failed"}]
          BY DEF TypeOK
        <4>2. \/ out' = [out EXCEPT ![c] = NoFile]
              \/ out' = [out EXCEPT ![c] = out[c] \o m.data]
          BY <2>1, <4>1 DEF AbandonGet
        <4>3. \E r \in {"get", "got", "failed"} : pc' = [pc EXCEPT ![c] = r]
          BY <2>1 DEF AbandonGet, End
        <4>4. out' \in [Client -> Content \cup {NoFile}]
          <5>1. \E v \in Content \cup {NoFile} : out' = [out EXCEPT ![c] = v]
            BY <3>2, <4>2
          <5> QED
            BY <4>1, <5>1
        <4>5. pc' \in [Client -> {"idle", "get", "put", "got", "stored", "failed"}]
          BY <4>1, <4>3
        <4> QED
          BY <4>4, <4>5
    <2>5. blockNo' \in [Client -> Num]
      BY <1>4, TypeFacts, IncType DEF GetData, TypeOK
    <2> QED
      BY <1>4, <2>1, <2>3, <2>4, <2>5, TakeType DEF GetData, TypeOK, serverVars, sessionVars
  <1>5. CASE GetOther(c)
    BY <1>5, TakeType, IncType DEF GetOther, TypeOK, serverVars, sessionVars
  <1>6. CASE PutError(c)
    BY <1>6, TakeType DEF PutError, End, TypeOK, serverVars, sessionVars
  <1>7. CASE PutAck(c)
    <2> DEFINE d == Chunk(Source[c], pos[c])
               n == Inc(blockNo[c])
    <2>1. d \in Content /\ n \in Num /\ Len(d) \in Nat
      BY ChunkType, IncType, TypeFacts, ContentFacts
    <2>2. PICK m \in down[c] :
            /\ TakeDown(c, m)
            /\ \/ UNCHANGED <<blockNo, pos, complete, up>> /\ End(c, "failed")
               \/ UNCHANGED <<blockNo, pos, complete, up>> /\ End(c, "stored")
               \/ /\ blockNo' = [blockNo EXCEPT ![c] = n]
                  /\ pos' = [pos EXCEPT ![c] = @ + Len(d)]
                  /\ complete' = [complete EXCEPT ![c] = Short(d)]
                  /\ \E sent \in IoResult :
                       /\ SendUp(c, Data(n, d), sent)
                       /\ End(c, IF sent THEN "put" ELSE "failed")
      BY <1>7 DEF PutAck
    <2>3. up' \in [Client -> SUBSET (ReqMsg \cup DataMsg \cup AckMsg)]
      BY <2>1, <2>2, SendType, MsgType DEF TypeOK
    <2>4. /\ blockNo' \in [Client -> Num] /\ pos' \in [Client -> Nat]
          /\ complete' \in [Client -> BOOLEAN]
          /\ pc' \in [Client -> {"idle", "get", "put", "got", "stored", "failed"}]
      <3>1. pos[c] + Len(d) \in Nat /\ Short(d) \in BOOLEAN
        BY <2>1, TypeFacts DEF Short
      <3>2. /\ blockNo \in [Client -> Num] /\ pos \in [Client -> Nat]
            /\ complete \in [Client -> BOOLEAN]
            /\ pc \in [Client -> {"idle", "get", "put", "got", "stored", "failed"}]
        BY DEF TypeOK
      <3>3. \E r \in {"put", "stored", "failed"} : pc' = [pc EXCEPT ![c] = r]
        BY <2>2 DEF End
      <3>4. \/ UNCHANGED <<blockNo, pos, complete>>
            \/ /\ blockNo' = [blockNo EXCEPT ![c] = n]
               /\ pos' = [pos EXCEPT ![c] = pos[c] + Len(d)]
               /\ complete' = [complete EXCEPT ![c] = Short(d)]
        BY <2>2, <3>2
      <3> HIDE DEF d, n
      <3>5. blockNo' \in [Client -> Num]
        <4>1. UNCHANGED blockNo \/ \E v \in Num : blockNo' = [blockNo EXCEPT ![c] = v]
          BY <2>1, <3>4, Zenon
        <4> QED
          BY <3>2, <4>1
      <3>6. pos' \in [Client -> Nat]
        <4>1. UNCHANGED pos \/ \E v \in Nat : pos' = [pos EXCEPT ![c] = v]
          BY <3>1, <3>4
        <4> QED
          BY <3>2, <4>1
      <3>7. complete' \in [Client -> BOOLEAN]
        <4>1. UNCHANGED complete \/ \E v \in BOOLEAN : complete' = [complete EXCEPT ![c] = v]
          BY <3>1, <3>4, Zenon
        <4> QED
          BY <3>2, <4>1
      <3>8. pc' \in [Client -> {"idle", "get", "put", "got", "stored", "failed"}]
        BY <3>2, <3>3
      <3> QED
        BY <3>5, <3>6, <3>7, <3>8
    <2> QED
      BY <1>7, <2>2, <2>3, <2>4, TakeType DEF PutAck, TypeOK, serverVars, sessionVars
  <1>8. CASE PutOther(c)
    BY <1>8, TakeType DEF PutOther, TypeOK, clientVars, serverVars, sessionVars
  <1>9. CASE RecvFails(c)
    BY <1>9 DEF RecvFails, End, TypeOK, serverVars, sessionVars
  <1>10. CASE Lose(c)
    BY <1>10 DEF Lose, TypeOK, clientVars, serverVars, sessionVars
  <1>11. CASE Reuse(c)
    BY <1>11 DEF Reuse, TypeOK, serverVars, sessionVars
  <1> QED
    BY <1>1, <1>2, <1>3, <1>4, <1>5, <1>6, <1>7, <1>8, <1>9, <1>10, <1>11 DEF Begin, ClientStep

LEMMA TypeErase ==
    ASSUME TypeOK, NEW c \in Client, Erase(c)
    PROVE  /\ kind' \in [Client -> {"none", "Read", "Write"}]
           /\ counter' \in [Client -> Num]
           /\ stream' \in [Client -> {"closed", "open", "failed"}]
           /\ sfile' \in [Client -> Name \cup {EmptyName}]
           /\ spos' \in [Client -> Nat]
           /\ readComplete' \in [Client -> BOOLEAN]
           /\ written' \in [Client -> Content]
  BY DEF Erase, TypeOK, Num, Content

LEMMA TypeSendBlock ==
    ASSUME TypeOK, NEW c \in Client, NEW d \in Content, NEW p \in Nat, SendBlockOfData(c, d, p)
    PROVE  /\ counter' \in [Client -> Num]
           /\ spos' \in [Client -> Nat]
           /\ readComplete' \in [Client -> BOOLEAN]
           /\ down' \in [Client -> SUBSET (DataMsg \cup AckMsg \cup ErrorMsg)]
  <1>0. counter[c] \in Nat
    BY DEF TypeOK, Num
  <1>a. Len(d) \in Nat
    BY DEF Content
  <1>1. Inc(counter[c]) \in Num /\ p + Len(d) \in Nat
    BY <1>0, <1>a, IncType
  <1>2. Data(Inc(counter[c]), d) \in DataMsg
    BY <1>1, MsgType
  <1>3. down' \in [Client -> SUBSET (DataMsg \cup AckMsg \cup ErrorMsg)]
    BY <1>2, ReplyType DEF SendBlockOfData
  <1> QED
    BY <1>1, <1>3 DEF SendBlockOfData, TypeOK, Short

LEMMA TypeServer ==
    ASSUME TypeInv, NEW c \in Client, ServerStep(c)
    PROVE  TypeOK'
  <1> USE DEF TypeInv
  <1>0. \A e \in ErrorCode : Error(e) \in DataMsg \cup AckMsg \cup ErrorMsg
    BY MsgType
  <1>1. CASE ReadRequest(c)
    <2>1. PICK m \in up[c] : m.op = "RRQ" /\ TakeUp(c, m) /\
            \/ UNCHANGED <<counter, stream, sfile, spos, readComplete, down>>
            \/ /\ disk[m.name] # NoFile
               /\ stream' = [stream EXCEPT ![c] = "open"]
               /\ sfile' = [sfile EXCEPT ![c] = m.name]
               /\ SendBlockOfData(c, Chunk(disk[m.name], 0), 0)
            \/ OpenFails(c)
      BY <1>1 DEF ReadRequest
    <2>2. m.name \in Name
      BY <2>1, TakeType, MsgOp
    <2>3. CASE UNCHANGED <<counter, stream, sfile, spos, readComplete, down>>
      BY <1>1, <2>1, <2>3, TakeType DEF ReadRequest, TypeOK, clientVars
    <2>4. CASE /\ disk[m.name] # NoFile
               /\ stream' = [stream EXCEPT ![c] = "open"]
               /\ sfile' = [sfile EXCEPT ![c] = m.name]
               /\ SendBlockOfData(c, Chunk(disk[m.name], 0), 0)
      <3>1. Chunk(disk[m.name], 0) \in Content
        BY <2>2, <2>4, ChunkType DEF TypeOK
      <3> QED
        BY <1>1, <2>1, <2>2, <2>4, <3>1, TypeSendBlock, TakeType DEF ReadRequest, TypeOK, clientVars
    <2>5. CASE OpenFails(c)
      BY <1>0, <1>1, <2>1, <2>5, ReplyType, TakeType
      DEF ReadRequest, OpenFails, TypeOK, clientVars, ErrorCode
    <2> QED
      BY <2>1, <2>3, <2>4, <2>5
  <1>2. CASE ReadAck(c)
    <2> DEFINE d == IF stream[c] = "open" THEN Chunk(disk[sfile[c]], spos[c]) ELSE <<>>
    <2>1. d \in Content
      BY ChunkType, TypeFacts, ContentFacts DEF StreamsOpen
    <2>2. PICK m \in up[c] : TakeUp(c, m) /\
            \/ Reply(c, Error("UnknownTransferId")) /\ UNCHANGED sessionVars
            \/ Erase(c) /\ UNCHANGED down
            \/ SendBlockOfData(c, d, spos[c]) /\ UNCHANGED <<kind, stream, sfile, written>>
      BY <1>2 DEF ReadAck
    <2>3. CASE Reply(c, Error("UnknownTransferId")) /\ UNCHANGED sessionVars
      BY <1>0, <1>2, <2>2, <2>3, ReplyType, TakeType DEF ReadAck, TypeOK, clientVars, sessionVars, ErrorCode
    <2>4. CASE Erase(c) /\ UNCHANGED down
      BY <1>2, <2>2, <2>4, TypeErase, TakeType DEF ReadAck, TypeOK, clientVars
    <2>5. CASE SendBlockOfData(c, d, spos[c]) /\ UNCHANGED <<kind, stream, sfile, written>>
      BY <1>2, <2>1, <2>2, <2>5, TypeSendBlock, TakeType DEF ReadAck, TypeOK, clientVars
    <2> QED
      BY <2>2, <2>3, <2>4, <2>5
  <1>3. CASE WriteRequest(c)
    <2>1. PICK m \in up[c] : m.op = "WRQ" /\ TakeUp(c, m) /\
            \/ UNCHANGED <<stream, sfile, disk, down>>
            \/ Reply(c, Error("FileAlreadyExists")) /\ UNCHANGED <<stream, sfile, disk>>
            \/ Reply(c, Error("AccessViolation")) /\ UNCHANGED <<stream, sfile, disk>>
            \/ /\ \/ /\ stream' = [stream EXCEPT ![c] = "open"]
                     /\ sfile' = [sfile EXCEPT ![c] = m.name]
                     /\ disk' = [disk EXCEPT ![m.name] = <<>>]
                  \/ UNCHANGED <<stream, sfile, disk>>
                  \/ stream' = [stream EXCEPT ![c] = "failed"] /\ UNCHANGED <<sfile, disk>>
               /\ Reply(c, Ack(counter[c]))
      BY <1>3 DEF WriteRequest
    <2>2. m.name \in Name
      BY <2>1, TakeType, MsgOp
    <2>3. down' \in [Client -> SUBSET (DataMsg \cup AckMsg \cup ErrorMsg)]
      <3>1. Ack(counter[c]) \in AckMsg
        BY MsgType DEF TypeOK
      <3> QED
        BY <1>0, <2>1, <3>1, ReplyType DEF ErrorCode, TypeOK
    <2>4. /\ stream' \in [Client -> {"closed", "open", "failed"}]
          /\ sfile' \in [Client -> Name \cup {EmptyName}]
          /\ disk' \in [Name -> Content \cup {NoFile}]
      <3>1. /\ stream \in [Client -> {"closed", "open", "failed"}]
            /\ sfile \in [Client -> Name \cup {EmptyName}]
            /\ disk \in [Name -> Content \cup {NoFile}]
        BY DEF TypeOK
      <3>2. \/ UNCHANGED <<stream, sfile, disk>>
            \/ /\ stream' = [stream EXCEPT ![c] = "open"]
               /\ sfile' = [sfile EXCEPT ![c] = m.name]
               /\ disk' = [disk EXCEPT ![m.name] = <<>>]
            \/ stream' = [stream EXCEPT ![c] = "failed"] /\ UNCHANGED <<sfile, disk>>
        BY <2>1
      <3>3. stream' \in [Client -> {"closed", "open", "failed"}]
        BY <3>1, <3>2
      <3>4. sfile' \in [Client -> Name \cup {EmptyName}]
        BY <2>2, <3>1, <3>2
      <3>5. <<>> \in Content \cup {NoFile}
        BY ContentFacts
      <3>6. disk' \in [Name -> Content \cup {NoFile}]
        BY <2>2, <3>1, <3>2, <3>5, SetOne
      <3> QED
        BY <3>3, <3>4, <3>6
    <2> QED
      BY <1>3, <2>1, <2>3, <2>4, TakeType DEF WriteRequest, TypeOK, clientVars
  <1>4. CASE WriteData(c)
    <2>1. PICK m \in up[c] : m.op = "DATA" /\ TakeUp(c, m) /\
            \/ Reply(c, Error("UnknownTransferId")) /\ UNCHANGED <<written, disk, closing>>
            \/ /\ \/ /\ stream[c] = "open"
                     /\ written' = [written EXCEPT ![c] = @ \o m.data]
                     /\ Flush(c, written[c] \o m.data)
                  \/ UNCHANGED <<written, disk>>
               /\ \E sent \in IoResult :
                    /\ SendDown(c, Ack(m.num), sent)
                    /\ closing' = IF sent /\ Short(m.data) THEN c ELSE NoClient
      BY <1>4 DEF WriteData
    <2>2. m.num \in Num /\ m.data \in Content
      BY <2>1, TakeType, MsgOp
    <2>3. down' \in [Client -> SUBSET (DataMsg \cup AckMsg \cup ErrorMsg)]
      <3>1. Ack(m.num) \in AckMsg
        BY <2>2, MsgType
      <3> QED
        BY <1>0, <2>1, <3>1, ReplyType, SendType DEF ErrorCode
    <2>4. closing' \in Client \cup {NoClient}
      BY <2>1 DEF TypeOK
    <2>5. /\ written' \in [Client -> Content]
          /\ disk' \in [Name -> Content \cup {NoFile}]
      <3>1. CASE UNCHANGED <<written, disk>>
        BY <3>1 DEF TypeOK
      <3>2. CASE /\ stream[c] = "open"
                 /\ written' = [written EXCEPT ![c] = @ \o m.data]
                 /\ Flush(c, written[c] \o m.data)
        <4>1. sfile[c] \in Name /\ disk[sfile[c]] \in Content /\ written[c] \o m.data \in Content
          BY <2>2, <3>2, TypeFacts, ContentFacts DEF StreamsOpen
        <4>2. PICK k \in Len(disk[sfile[c]]) .. Len(written[c] \o m.data) :
                disk' = [disk EXCEPT ![sfile[c]] = SubSeq(written[c] \o m.data, 1, k)]
          BY <3>2 DEF Flush
        <4>0. Len(disk[sfile[c]]) \in Nat /\ Len(written[c] \o m.data) \in Nat
          BY <4>1, ContentFacts
        <4>3. k \in 0 .. Len(written[c] \o m.data)
          BY <4>0, <4>2, UpTo
        <4>4. SubSeq(written[c] \o m.data, 1, k) \in Content
          BY <4>1, <4>3, PrefixType
        <4> QED
          BY <3>2, <4>1, <4>2, <4>4 DEF TypeOK
      <3> QED
        BY <2>1, <3>1, <3>2
    <2>6. counter' \in [Client -> Num]
      BY <1>4, TypeFacts, IncType DEF WriteData, TypeOK
    <2> QED
      BY <1>4, <2>1, <2>3, <2>4, <2>5, <2>6, TakeType DEF WriteData, TypeOK, clientVars
  <1>5. CASE CloseFile(c)
    BY <1>5, TypeErase DEF CloseFile, TypeOK, clientVars
  <1>6. CASE Ignore(c)
    BY <1>6, TakeType DEF Ignore, TypeOK, clientVars, serverVars, sessionVars
  <1>7. CASE Stray(c)
    BY <1>0, <1>7, TakeType, ReplyType DEF Stray, TypeOK, clientVars, serverVars, sessionVars, ErrorCode
  <1> QED
    BY <1>1, <1>2, <1>3, <1>4, <1>5, <1>6, <1>7 DEF ServerStep

LEMMA TypeStop == ASSUME TypeInv, Stop \/ Start PROVE TypeOK'
  <1>1. CASE Stop
    <2>1. ASSUME NEW f \in Name, Writers(f) # {}
          PROVE  written[CHOOSE c \in Writers(f) : TRUE] \in Content
      <3>1. (CHOOSE c \in Writers(f) : TRUE) \in Client
        BY <2>1 DEF Writers
      <3> QED
        BY <3>1, TypeFacts DEF TypeInv
    <2>2. disk' \in [Name -> Content \cup {NoFile}]
      BY <1>1, <2>1 DEF Stop, TypeInv, TypeOK
    <2>3. /\ kind' \in [Client -> {"none", "Read", "Write"}]
          /\ stream' \in [Client -> {"closed", "open", "failed"}]
          /\ sfile' \in [Client -> Name \cup {EmptyName}]
          /\ readComplete' \in [Client -> BOOLEAN]
          /\ running' \in BOOLEAN
      BY <1>1, Zenon DEF Stop
    <2>5. /\ counter' \in [Client -> Num]
          /\ spos' \in [Client -> Nat]
      <3>1. counter' = [c \in Client |-> 0] /\ spos' = [c \in Client |-> 0]
        BY <1>1, Zenon DEF Stop
      <3> QED
        BY <3>1 DEF Num
    <2>4. written' \in [Client -> Content]
      BY <1>1, ContentFacts DEF Stop
    <2> QED
      BY <1>1, <2>2, <2>3, <2>4, <2>5 DEF Stop, TypeInv, TypeOK, clientVars
  <1>2. CASE Start
    <2>1. restarts' \in 0 .. MaxRestart
      BY <1>2 DEF Start, TypeInv, TypeOK, RestartLeft
    <2> QED
      BY <1>2, <2>1 DEF Start, TypeInv, TypeOK, clientVars, sessionVars
  <1> QED
    BY <1>1, <1>2

(***************************************************************************)
(* What one step does to the sessions and the files.                       *)
(***************************************************************************)
SameSession(d) ==
    /\ kind'[d] = kind[d] /\ stream'[d] = stream[d]
    /\ sfile'[d] = sfile[d] /\ written'[d] = written[d]

Holds(c) ==
    /\ UNCHANGED disk
    /\ \/ stream'[c] = "closed"
       \/ /\ stream[c] # "closed" /\ kind'[c] = kind[c]
          /\ sfile'[c] = sfile[c] /\ written'[c] = written[c]

OpensOld(c) ==
    /\ UNCHANGED disk
    /\ kind'[c] = "Read"
    /\ sfile'[c] \in Name /\ disk[sfile'[c]] # NoFile

Creates(c) ==
    /\ kind'[c] = "Write"
    /\ sfile'[c] \in Name /\ disk[sfile'[c]] = NoFile
    /\ disk' = [disk EXCEPT ![sfile'[c]] = <<>>]

Appends(c) ==
    /\ kind[c] = "Write" /\ stream[c] # "closed"
    /\ kind'[c] = kind[c] /\ sfile'[c] = sfile[c]
    /\ \E d \in Content :
         /\ written'[c] = written[c] \o d
         /\ \E k \in Len(disk[sfile[c]]) .. Len(written[c] \o d) :
              disk' = [disk EXCEPT ![sfile[c]] = SubSeq(written[c] \o d, 1, k)]

Closes(c) ==
    /\ kind[c] = "Write" /\ stream[c] # "closed"
    /\ stream'[c] = "closed"
    /\ disk' = [disk EXCEPT ![sfile[c]] = written[c]]

Effect(c) ==
    /\ \A d \in Client \ {c} : SameSession(d)
    /\ Holds(c) \/ OpensOld(c) \/ Creates(c) \/ Appends(c) \/ Closes(c)
    /\ closing' = NoClient \/ (closing' = c /\ kind'[c] = "Write")
    /\ UNCHANGED <<clientVars, running, restarts>>

\* The file that is being closed belongs to a write session.
ClosingWrites == closing # NoClient => kind[closing] = "Write"

\* A file that is being written holds a beginning of what was written to it.
Ahead ==
    \A c \in Client : kind[c] = "Write" /\ stream[c] # "closed" =>
        Prefix(disk[sfile[c]], written[c])

FileInv == TypeInv /\ OneWriter /\ ClosingWrites /\ Ahead

LEMMA PrefixFacts ==
    ASSUME NEW s \in Content, NEW t \in Content
    PROVE  /\ Prefix(<<>>, s) /\ Prefix(s, s)
           /\ Prefix(s, t) => \A u \in Content : Prefix(s, t \o u)
           /\ Prefix(s, t) => \A k \in Len(s) .. Len(t) :
                Prefix(s, SubSeq(t, 1, k)) /\ Prefix(SubSeq(t, 1, k), t)
  BY DEF Prefix, Content

LEMMA ServerEffect ==
    ASSUME FileInv, NEW c \in Client, ServerStep(c)
    PROVE  Effect(c)
  <1> USE DEF FileInv, TypeInv
  <1>0. /\ kind \in [Client -> {"none", "Read", "Write"}]
        /\ stream \in [Client -> {"closed", "open", "failed"}]
        /\ sfile \in [Client -> Name \cup {EmptyName}]
        /\ written \in [Client -> Content]
    BY DEF TypeOK
  <1>1. CASE ReadRequest(c)
    <2>1. PICK m \in up[c] : m.op = "RRQ" /\ TakeUp(c, m) /\
            \/ UNCHANGED <<stream, sfile>>
            \/ /\ disk[m.name] # NoFile
               /\ sfile' = [sfile EXCEPT ![c] = m.name]
               /\ stream' = [stream EXCEPT ![c] = "open"]
            \/ OpenFails(c)
      BY <1>1 DEF ReadRequest
    <2>2. m.name \in Name
      BY <2>1, TakeType, MsgOp
    <2>3. /\ UNCHANGED <<clientVars, written, disk, closing, running, restarts>>
          /\ closing = NoClient /\ kind[c] \in {"none", "Read"}
          /\ kind' = [kind EXCEPT ![c] = "Read"]
      BY <1>1 DEF ReadRequest, Ready
    <2>4. CASE UNCHANGED <<stream, sfile>>
      <3>1. Holds(c)
        BY <1>0, <2>3, <2>4 DEF Holds, StreamsOpen
      <3>2. \A d \in Client \ {c} : SameSession(d)
        BY <1>0, <2>3, <2>4 DEF SameSession
      <3> QED
        BY <2>3, <3>1, <3>2 DEF Effect
    <2>5. CASE /\ disk[m.name] # NoFile
               /\ sfile' = [sfile EXCEPT ![c] = m.name]
               /\ stream' = [stream EXCEPT ![c] = "open"]
      <3>1. OpensOld(c)
        BY <1>0, <2>2, <2>3, <2>5 DEF OpensOld
      <3>2. \A d \in Client \ {c} : SameSession(d)
        BY <1>0, <2>2, <2>3, <2>5 DEF SameSession
      <3> QED
        BY <2>3, <3>1, <3>2 DEF Effect
    <2>6. CASE OpenFails(c)
      <3>1. Holds(c)
        BY <1>0, <2>3, <2>6 DEF Holds, StreamsOpen, OpenFails
      <3>2. \A d \in Client \ {c} : SameSession(d)
        BY <1>0, <2>3, <2>6 DEF SameSession, OpenFails
      <3> QED
        BY <2>3, <3>1, <3>2 DEF Effect
    <2> QED
      BY <2>1, <2>4, <2>5, <2>6
  <1>2. CASE ReadAck(c)
    <2>1. \/ UNCHANGED <<kind, stream, sfile, written>>
          \/ Erase(c)
      BY <1>2 DEF ReadAck, sessionVars
    <2>2. /\ UNCHANGED <<clientVars, disk, closing, running, restarts>>
          /\ closing = NoClient
      BY <1>2 DEF ReadAck, Ready
    <2>3. Holds(c)
      BY <1>0, <2>1, <2>2 DEF Holds, Erase
    <2>4. \A d \in Client \ {c} : SameSession(d)
      BY <1>0, <2>1 DEF SameSession, Erase
    <2> QED
      BY <2>2, <2>3, <2>4 DEF Effect
  <1>3. CASE WriteRequest(c)
    <2>1. PICK m \in up[c] : m.op = "WRQ" /\ TakeUp(c, m) /\
            \/ UNCHANGED <<stream, sfile, disk>>
            \/ /\ disk[m.name] = NoFile
               /\ stream' = [stream EXCEPT ![c] = "open"]
               /\ sfile' = [sfile EXCEPT ![c] = m.name]
               /\ disk' = [disk EXCEPT ![m.name] = <<>>]
            \/ /\ stream[c] # "closed"
               /\ stream' = [stream EXCEPT ![c] = "failed"] /\ UNCHANGED <<sfile, disk>>
      BY <1>3 DEF WriteRequest, MayCreate
    <2>2. m.name \in Name
      BY <2>1, TakeType, MsgOp
    <2>3. /\ UNCHANGED <<clientVars, written, closing, running, restarts>>
          /\ closing = NoClient /\ kind[c] \in {"none", "Write"}
          /\ kind' = [kind EXCEPT ![c] = "Write"]
      BY <1>3 DEF WriteRequest, Ready
    <2>4. CASE UNCHANGED <<stream, sfile, disk>>
      <3>1. Holds(c)
        BY <1>0, <2>3, <2>4 DEF Holds, StreamsOpen
      <3>2. \A d \in Client \ {c} : SameSession(d)
        BY <1>0, <2>3, <2>4 DEF SameSession
      <3> QED
        BY <2>3, <3>1, <3>2 DEF Effect
    <2>5. CASE /\ disk[m.name] = NoFile
               /\ stream' = [stream EXCEPT ![c] = "open"]
               /\ sfile' = [sfile EXCEPT ![c] = m.name]
               /\ disk' = [disk EXCEPT ![m.name] = <<>>]
      BY <1>0, <2>2, <2>3, <2>5 DEF Effect, Creates, SameSession
    <2>6. CASE /\ stream[c] # "closed"
               /\ stream' = [stream EXCEPT ![c] = "failed"] /\ UNCHANGED <<sfile, disk>>
      BY <1>0, <2>3, <2>6 DEF Effect, Holds, SameSession, StreamsOpen
    <2> QED
      BY <2>1, <2>4, <2>5, <2>6
  <1>4. CASE WriteData(c)
    <2>1. PICK m \in up[c] : m.op = "DATA" /\ TakeUp(c, m) /\
            \/ UNCHANGED <<written, disk>>
            \/ /\ stream[c] = "open"
               /\ written' = [written EXCEPT ![c] = @ \o m.data]
               /\ Flush(c, written[c] \o m.data)
      BY <1>4 DEF WriteData
    <2>2. m.data \in Content
      BY <2>1, TakeType, MsgOp
    <2>3. /\ UNCHANGED <<clientVars, kind, stream, sfile, running, restarts>>
          /\ kind[c] = "Write"
          /\ closing' = NoClient \/ closing' = c
      BY <1>4 DEF WriteData, Ready
    <2>4. CASE UNCHANGED <<written, disk>>
      BY <1>0, <2>3, <2>4 DEF Effect, Holds, SameSession
    <2>5. CASE /\ stream[c] = "open"
               /\ written' = [written EXCEPT ![c] = @ \o m.data]
               /\ Flush(c, written[c] \o m.data)
      <3>1. Appends(c)
        BY <1>0, <2>2, <2>3, <2>5 DEF Appends, Flush
      <3>2. \A d \in Client \ {c} : SameSession(d)
        BY <1>0, <2>3, <2>5 DEF SameSession
      <3> QED
        BY <2>3, <3>1, <3>2 DEF Effect
    <2> QED
      BY <2>1, <2>4, <2>5
  <1>5. CASE CloseFile(c)
    <2>1. /\ closing' = NoClient /\ Erase(c)
          /\ UNCHANGED <<clientVars, running, restarts>>
          /\ disk' = IF stream[c] = "closed" THEN disk
                     ELSE [disk EXCEPT ![sfile[c]] = written[c]]
      BY <1>5 DEF CloseFile
    <2>2. kind[c] = "Write"
      BY <1>5 DEF CloseFile, ClosingWrites
    <2>3. Holds(c) \/ Closes(c)
      BY <1>0, <2>1, <2>2 DEF Holds, Closes, Erase
    <2>4. \A d \in Client \ {c} : SameSession(d)
      BY <1>0, <2>1 DEF SameSession, Erase
    <2> QED
      BY <2>1, <2>3, <2>4 DEF Effect
  <1>6. CASE Ignore(c)
    <2>1. /\ UNCHANGED <<clientVars, running, restarts, kind, stream, sfile, written, disk, closing>>
          /\ closing = NoClient
      BY <1>6 DEF Ignore, Ready, serverVars, sessionVars
    <2>2. Holds(c) /\ \A d \in Client \ {c} : SameSession(d)
      BY <2>1 DEF Holds, SameSession
    <2> QED
      BY <2>1, <2>2 DEF Effect
  <1>7. CASE Stray(c)
    <2>1. /\ UNCHANGED <<clientVars, running, restarts, kind, stream, sfile, written, disk, closing>>
          /\ closing = NoClient
      BY <1>7 DEF Stray, Ready, serverVars, sessionVars
    <2>2. Holds(c) /\ \A d \in Client \ {c} : SameSession(d)
      BY <2>1 DEF Holds, SameSession
    <2> QED
      BY <2>1, <2>2 DEF Effect
  <1> QED
    BY <1>1, <1>2, <1>3, <1>4, <1>5, <1>6, <1>7 DEF ServerStep

\* What one step may do to the files: ExistingFilesKept, per step.
FilesKept ==
    \A f \in Name : disk[f] # NoFile =>
        /\ disk'[f] # NoFile /\ Prefix(disk[f], disk'[f])
        /\ Writers(f) = {} => disk'[f] = disk[f]

LEMMA EffectFiles ==
    ASSUME FileInv, NEW c \in Client, Effect(c)
    PROVE  /\ FilesKept
           /\ \A d \in Client \ {c} : kind[d] = "Write" /\ stream[d] # "closed" =>
                disk'[sfile[d]] = disk[sfile[d]]
  <1> USE DEF FileInv, TypeInv
  <1>0. disk \in [Name -> Content \cup {NoFile}] /\ written[c] \in Content
    BY DEF TypeOK
  <1>1. \A f \in Name : disk[f] # NoFile => disk[f] \in Content /\ Prefix(disk[f], disk[f])
    BY <1>0, PrefixFacts
  <1>2. CASE UNCHANGED disk
    BY <1>1, <1>2 DEF FilesKept
  <1>3. CASE Creates(c)
    <2>1. \A f \in Name : disk[f] # NoFile => disk'[f] = disk[f]
      BY <1>0, <1>3 DEF Creates
    <2>2. FilesKept
      BY <1>1, <2>1 DEF FilesKept
    <2>3. \A d \in Client \ {c} : stream[d] # "closed" => disk'[sfile[d]] = disk[sfile[d]]
      BY <2>1 DEF StreamsOpen
    <2> QED
      BY <2>2, <2>3
  <1>4. ASSUME kind[c] = "Write", stream[c] # "closed", NEW t \in Content,
               Prefix(disk[sfile[c]], t),
               disk' = [disk EXCEPT ![sfile[c]] = t]
        PROVE  /\ FilesKept
               /\ \A d \in Client \ {c} : kind[d] = "Write" /\ stream[d] # "closed" =>
                    disk'[sfile[d]] = disk[sfile[d]]
    <2>1. sfile[c] \in Name /\ c \in Writers(sfile[c]) /\ t # NoFile
      BY <1>4, ContentFacts DEF StreamsOpen, Writers
    <2>2. \A f \in Name : disk'[f] = IF f = sfile[c] THEN t ELSE disk[f]
      BY <1>0, <1>4, <2>1
    <2>3. FilesKept
      BY <1>1, <1>4, <2>1, <2>2 DEF FilesKept
    <2>4. \A d \in Client \ {c} : kind[d] = "Write" /\ stream[d] # "closed" => sfile[d] # sfile[c]
      BY <2>1 DEF OneWriter, Writers
    <2> QED
      BY <2>2, <2>3, <2>4 DEF StreamsOpen
  <1>5. CASE Appends(c)
    <2>0. PICK d \in Content :
            \E k \in Len(disk[sfile[c]]) .. Len(written[c] \o d) :
              disk' = [disk EXCEPT ![sfile[c]] = SubSeq(written[c] \o d, 1, k)]
      BY <1>5 DEF Appends
    <2>1. PICK k \in Len(disk[sfile[c]]) .. Len(written[c] \o d) :
            disk' = [disk EXCEPT ![sfile[c]] = SubSeq(written[c] \o d, 1, k)]
      BY <2>0
    <2>2. /\ disk[sfile[c]] \in Content /\ written[c] \o d \in Content
          /\ Prefix(disk[sfile[c]], written[c])
      BY <1>0, <1>1, <1>5, ContentFacts DEF Appends, StreamsOpen, Ahead
    <2>3. Prefix(disk[sfile[c]], written[c] \o d)
      BY <1>0, <2>2, PrefixFacts
    <2>4. Prefix(disk[sfile[c]], SubSeq(written[c] \o d, 1, k))
      BY <2>1, <2>2, <2>3, PrefixFacts
    <2>5. SubSeq(written[c] \o d, 1, k) \in Content
      <3>1. Len(disk[sfile[c]]) \in Nat /\ Len(written[c] \o d) \in Nat
        BY <2>2, ContentFacts
      <3>2. k \in 0 .. Len(written[c] \o d)
        BY <2>1, <3>1, UpTo
      <3> QED
        BY <2>2, <3>2, PrefixType
    <2> QED
      BY <1>4, <1>5, <2>1, <2>4, <2>5 DEF Appends
  <1>6. CASE Closes(c)
    BY <1>0, <1>4, <1>6 DEF Closes, Ahead
  <1> QED
    BY <1>2, <1>3, <1>5, <1>6 DEF Effect, Holds, OpensOld

LEMMA EffectInv ==
    ASSUME FileInv, NEW c \in Client, Effect(c), TypeOK'
    PROVE  FileInv'
  <1> USE DEF FileInv, TypeInv
  <1>0. /\ FilesKept
        /\ \A d \in Client \ {c} : kind[d] = "Write" /\ stream[d] # "closed" =>
             disk'[sfile[d]] = disk[sfile[d]]
    BY EffectFiles
  <1>1. \A d \in Client \ {c} : SameSession(d)
    BY DEF Effect
  <1>2. UNCHANGED <<pc, out, running, restarts>>
    BY DEF Effect, clientVars
  <1>3. disk \in [Name -> Content \cup {NoFile}] /\ written[c] \in Content
    BY DEF TypeOK
  \* The session of c after the step.
  <1>4. stream'[c] # "closed" =>
          /\ kind'[c] # "none" /\ sfile'[c] \in Name /\ disk'[sfile'[c]] # NoFile
    <2>1. CASE Holds(c)
      BY <2>1 DEF Holds, StreamsOpen
    <2>2. CASE OpensOld(c)
      BY <2>2 DEF OpensOld
    <2>3. CASE Creates(c)
      BY <1>3, <2>3, ContentFacts DEF Creates
    <2>4. CASE Appends(c)
      BY <1>0, <2>4 DEF Appends, StreamsOpen, FilesKept
    <2>5. CASE Closes(c)
      BY <2>5 DEF Closes
    <2> QED
      BY <2>1, <2>2, <2>3, <2>4, <2>5 DEF Effect
  <1>5. StreamsOpen'
    <2>1. \A d \in Client \ {c} : stream'[d] # "closed" =>
            kind'[d] # "none" /\ sfile'[d] \in Name /\ disk'[sfile'[d]] # NoFile
      BY <1>0, <1>1 DEF StreamsOpen, SameSession, FilesKept
    <2> QED
      BY <1>2, <1>4, <2>1 DEF StreamsOpen
  <1>6. kind'[c] = "Write" /\ stream'[c] # "closed" =>
          /\ Prefix(disk'[sfile'[c]], written'[c])
          /\ \A d \in Client \ {c} : kind[d] = "Write" /\ stream[d] # "closed" => sfile[d] # sfile'[c]
    <2>1. CASE Holds(c)
      BY <2>1 DEF Holds, Ahead, OneWriter, Writers, StreamsOpen
    <2>2. CASE OpensOld(c)
      BY <2>2 DEF OpensOld
    <2>3. CASE Creates(c)
      <3>1. disk'[sfile'[c]] = <<>> /\ written'[c] \in Content
        BY <1>3, <2>3 DEF Creates, TypeOK
      <3>2. \A d \in Client \ {c} : stream[d] # "closed" => sfile[d] # sfile'[c]
        BY <2>3 DEF Creates, StreamsOpen
      <3> QED
        BY <3>1, <3>2, PrefixFacts
    <2>4. CASE Appends(c)
      <3>0. PICK d \in Content :
              /\ written'[c] = written[c] \o d
              /\ \E k \in Len(disk[sfile[c]]) .. Len(written[c] \o d) :
                   disk' = [disk EXCEPT ![sfile[c]] = SubSeq(written[c] \o d, 1, k)]
        BY <2>4 DEF Appends
      <3>1. PICK k \in Len(disk[sfile[c]]) .. Len(written[c] \o d) :
              disk' = [disk EXCEPT ![sfile[c]] = SubSeq(written[c] \o d, 1, k)]
        BY <3>0
      <3>2. /\ sfile[c] \in Name /\ disk[sfile[c]] \in Content /\ written[c] \o d \in Content
            /\ Prefix(disk[sfile[c]], written[c])
        BY <1>3, <2>4, ContentFacts DEF Appends, StreamsOpen, Ahead
      <3>3. Prefix(disk[sfile[c]], written[c] \o d)
        BY <1>3, <3>2, PrefixFacts
      <3>4. Prefix(SubSeq(written[c] \o d, 1, k), written[c] \o d)
        BY <3>1, <3>2, <3>3, PrefixFacts
      <3>5. disk'[sfile[c]] = SubSeq(written[c] \o d, 1, k)
        BY <1>3, <3>1, <3>2
      <3>6. \A e \in Client \ {c} : kind[e] = "Write" /\ stream[e] # "closed" => sfile[e] # sfile[c]
        BY <2>4, <3>2 DEF Appends, OneWriter, Writers
      <3>7. sfile'[c] = sfile[c] /\ written'[c] = written[c] \o d
        BY <2>4, <3>0 DEF Appends
      <3> QED
        BY <3>4, <3>5, <3>6, <3>7, Zenon
    <2>5. CASE Closes(c)
      BY <2>5 DEF Closes
    <2> QED
      BY <2>1, <2>2, <2>3, <2>4, <2>5 DEF Effect
  <1>7. Ahead'
    <2>1. \A d \in Client \ {c} : kind'[d] = "Write" /\ stream'[d] # "closed" =>
            Prefix(disk'[sfile'[d]], written'[d])
      BY <1>0, <1>1 DEF Ahead, SameSession
    <2> QED
      BY <1>6, <2>1 DEF Ahead
  <1>8. OneWriter'
    <2>1. ASSUME NEW f \in Name, NEW a \in Client, NEW b \in Client,
                 kind'[a] = "Write", stream'[a] # "closed", sfile'[a] = f,
                 kind'[b] = "Write", stream'[b] # "closed", sfile'[b] = f
          PROVE  a = b
      <3>1. CASE a = c
        BY <1>1, <1>6, <2>1, <3>1 DEF SameSession
      <3>2. CASE b = c
        BY <1>1, <1>6, <2>1, <3>2 DEF SameSession
      <3>3. CASE a # c /\ b # c
        BY <1>1, <2>1, <3>3 DEF SameSession, OneWriter, Writers
      <3> QED
        BY <3>1, <3>2, <3>3
    <2> QED
      BY <2>1 DEF OneWriter, Writers
  <1>9. ClosingWrites'
    BY DEF Effect, ClosingWrites
  <1>10. RestartLeft'
    BY <1>2 DEF RestartLeft
  <1> QED
    BY <1>5, <1>7, <1>8, <1>9, <1>10

\* No client and no loss on the network touches the server.
LEMMA ClientFrame ==
    ASSUME NEW c \in Client, Begin(c) \/ ClientStep(c) \/ Lose(c) \/ Reuse(c)
    PROVE  UNCHANGED <<kind, stream, sfile, written, disk, closing, running, restarts>>
  BY DEF Begin, ClientStep, Lose, Reuse, GetFile, PutFile, GetError, GetData, GetOther,
         PutError, PutAck, PutOther, RecvFails, serverVars, sessionVars

LEMMA OutOpen ==
    ASSUME TypeInv, NEW c \in Client, Begin(c) \/ ClientStep(c) \/ Lose(c) \/ Reuse(c)
    PROVE  \A d \in Client : pc'[d] = "get" => out'[d] # NoFile
  <1>0. /\ pc \in [Client -> {"idle", "get", "put", "got", "stored", "failed"}]
        /\ out \in [Client -> Content \cup {NoFile}]
        /\ \A d \in Client : pc[d] = "get" => out[d] # NoFile
    BY DEF TypeInv, TypeOK, StreamsOpen
  <1>1. CASE UNCHANGED <<pc, out>>
    BY <1>0, <1>1
  <1>2. CASE /\ \E r \in {"idle", "failed", "put", "stored"} : pc' = [pc EXCEPT ![c] = r]
             /\ \A d \in Client \ {c} : out'[d] = out[d]
    BY <1>0, <1>2
  <1>3. ASSUME NEW f \in Name, GetFile(c, f)
        PROVE  \A d \in Client : pc'[d] = "get" => out'[d] # NoFile
    <2>1. \/ pc' = [pc EXCEPT ![c] = "failed"] /\ UNCHANGED out
          \/ /\ \E r \in {"get", "failed"} : pc' = [pc EXCEPT ![c] = r]
             /\ out' = [out EXCEPT ![c] = <<>>]
      BY <1>3 DEF GetFile, End
    <2> QED
      BY <1>0, <2>1, ContentFacts
  <1>4. CASE GetData(c)
    <2>1. PICK m \in down[c] :
            /\ TakeDown(c, m) /\ m.op = "DATA"
            /\ \/ AbandonGet(c)
               \/ /\ out' = [out EXCEPT ![c] = @ \o m.data]
                  /\ End(c, IF Short(m.data) THEN "got" ELSE "get")
      BY <1>4 DEF GetData
    <2>2. m.data \in Content
      BY <2>1, TakeType, MsgOp DEF TypeInv
    <2>3. out[c] \o m.data \in Content /\ out[c] \o m.data # NoFile
      BY <1>0, <1>4, <2>2, ContentFacts DEF GetData
    <2>4. CASE AbandonGet(c)
      BY <1>0, <2>4 DEF AbandonGet, End
    <2>5. CASE /\ out' = [out EXCEPT ![c] = @ \o m.data]
               /\ End(c, IF Short(m.data) THEN "got" ELSE "get")
      <3>1. \A d \in Client \ {c} : pc'[d] = pc[d] /\ out'[d] = out[d]
        BY <1>0, <2>5 DEF End
      <3>2. out'[c] # NoFile
        BY <1>0, <2>3, <2>5
      <3> QED
        BY <1>0, <3>1, <3>2
    <2> QED
      BY <2>1, <2>4, <2>5
  <1>5. CASE GetError(c)
    BY <1>0, <1>5 DEF GetError, AbandonGet, End
  <1>6. CASE Reuse(c)
    BY <1>0, <1>6 DEF Reuse
  <1>7. CASE GetOther(c) \/ PutOther(c) \/ Lose(c)
    BY <1>1, <1>7 DEF GetOther, PutOther, Lose, clientVars
  <1>8. ASSUME NEW f \in Name, PutFile(c, f)
        PROVE  \A d \in Client : pc'[d] = "get" => out'[d] # NoFile
    BY <1>2, <1>8 DEF PutFile, End
  <1>9. CASE PutError(c) \/ RecvFails(c)
    BY <1>2, <1>9 DEF PutError, RecvFails, End
  <1>10. CASE PutAck(c)
    BY <1>2, <1>10 DEF PutAck, End
  <1> QED
    BY <1>3, <1>4, <1>5, <1>6, <1>7, <1>8, <1>9, <1>10 DEF Begin, ClientStep

LEMMA StopFiles ==
    ASSUME FileInv, Stop
    PROVE  FilesKept
  <1> USE DEF FileInv, TypeInv
  <1> SUFFICES ASSUME NEW f \in Name, disk[f] # NoFile
               PROVE  /\ disk'[f] # NoFile /\ Prefix(disk[f], disk'[f])
                      /\ Writers(f) = {} => disk'[f] = disk[f]
    BY DEF FilesKept
  <1>0. disk[f] \in Content
    BY DEF TypeOK
  <1>1. CASE Writers(f) = {}
    <2>1. disk'[f] = disk[f]
      BY <1>1 DEF Stop
    <2> QED
      BY <1>0, <2>1, PrefixFacts
  <1>2. CASE Writers(f) # {}
    <2> DEFINE w == CHOOSE c \in Writers(f) : TRUE
    <2>1. w \in Writers(f)
      BY <1>2
    <2>2. disk'[f] = written[w]
      BY <1>2 DEF Stop
    <2> HIDE DEF w
    <2>3. w \in Client /\ kind[w] = "Write" /\ stream[w] # "closed" /\ sfile[w] = f
      BY <2>1 DEF Writers
    <2>4. Prefix(disk[f], written[w]) /\ written[w] \in Content
      BY <2>3 DEF Ahead, TypeOK
    <2> QED
      BY <1>2, <2>2, <2>4, ContentFacts
  <1> QED
    BY <1>1, <1>2

LEMMA StopInv ==
    ASSUME FileInv, Stop \/ Start
    PROVE  FileInv'
  <1> USE DEF FileInv, TypeInv
  <1>0. TypeOK'
    BY TypeStop
  <1>1. CASE Stop
    <2>1. /\ stream' = [c \in Client |-> "closed"]
          /\ closing' = NoClient /\ restarts' = restarts /\ restarts < MaxRestart
          /\ UNCHANGED <<pc, out>>
      BY <1>1 DEF Stop, Ready, clientVars
    <2>2. \A c \in Client : stream'[c] = "closed"
      BY <2>1
    <2>3. StreamsOpen' /\ RestartLeft'
      BY <2>1, <2>2 DEF StreamsOpen, RestartLeft
    <2>4. OneWriter' /\ Ahead' /\ ClosingWrites'
      BY <2>1, <2>2 DEF OneWriter, Writers, Ahead, ClosingWrites
    <2> QED
      BY <1>0, <2>3, <2>4
  <1>2. CASE Start
    <2>1. /\ UNCHANGED <<pc, out, kind, stream, sfile, written, disk, closing>>
          /\ running'
      BY <1>2 DEF Start, clientVars, sessionVars
    <2>2. StreamsOpen' /\ RestartLeft'
      BY <2>1 DEF StreamsOpen, RestartLeft
    <2>3. OneWriter' /\ Ahead' /\ ClosingWrites'
      BY <2>1 DEF OneWriter, Writers, Ahead, ClosingWrites
    <2> QED
      BY <1>0, <2>2, <2>3
  <1> QED
    BY <1>1, <1>2

LEMMA FileInit == Init => FileInv
  <1> SUFFICES ASSUME Init PROVE FileInv
    OBVIOUS
  <1>1. TypeOK
    BY TypeInit
  <1>2. StreamsOpen /\ RestartLeft
    BY DEF Init, StreamsOpen, RestartLeft
  <1>3. OneWriter /\ Ahead /\ ClosingWrites
    BY DEF Init, OneWriter, Writers, Ahead, ClosingWrites
  <1> QED
    BY <1>1, <1>2, <1>3 DEF FileInv, TypeInv

LEMMA FileStep ==
    ASSUME FileInv, [Next]_vars
    PROVE  FileInv' /\ FilesKept
  <1> USE DEF FileInv, TypeInv
  <1>0. \A f \in Name : disk[f] # NoFile => Prefix(disk[f], disk[f])
    BY PrefixFacts DEF TypeOK
  <1>1. ASSUME NEW c \in Client, ServerStep(c)
        PROVE  FileInv' /\ FilesKept
    <2>1. Effect(c) /\ TypeOK'
      BY <1>1, ServerEffect, TypeServer
    <2> QED
      BY <2>1, EffectFiles, EffectInv
  <1>2. ASSUME NEW c \in Client, Begin(c) \/ ClientStep(c) \/ Lose(c) \/ Reuse(c)
        PROVE  FileInv' /\ FilesKept
    <2>1. UNCHANGED <<kind, stream, sfile, written, disk, closing, running, restarts>>
      BY <1>2, ClientFrame
    <2>2. TypeOK' /\ \A d \in Client : pc'[d] = "get" => out'[d] # NoFile
      BY <1>2, TypeClient, OutOpen
    <2>3. StreamsOpen' /\ RestartLeft'
      BY <2>1, <2>2 DEF StreamsOpen, RestartLeft
    <2>4. OneWriter' /\ Ahead' /\ ClosingWrites'
      BY <2>1 DEF OneWriter, Writers, Ahead, ClosingWrites
    <2>5. FilesKept
      BY <1>0, <2>1 DEF FilesKept
    <2> QED
      BY <2>2, <2>3, <2>4, <2>5
  <1>3. CASE Stop
    BY <1>3, StopInv, StopFiles
  <1>4. CASE Start
    <2>1. UNCHANGED disk
      BY <1>4 DEF Start
    <2> QED
      BY <1>0, <1>4, <2>1, StopInv DEF FilesKept
  <1>5. CASE UNCHANGED vars
    <2>1. /\ UNCHANGED <<kind, stream, sfile, written, disk, closing, running, restarts, pc, out>>
          /\ TypeOK'
      BY <1>5 DEF vars, clientVars, serverVars, sessionVars, TypeOK
    <2>2. StreamsOpen' /\ RestartLeft'
      BY <2>1 DEF StreamsOpen, RestartLeft
    <2>3. OneWriter' /\ Ahead' /\ ClosingWrites'
      BY <2>1 DEF OneWriter, Writers, Ahead, ClosingWrites
    <2> QED
      BY <1>0, <2>1, <2>2, <2>3 DEF FilesKept
  <1> QED
    BY <1>1, <1>2, <1>3, <1>4, <1>5 DEF Next

\* The invariant that carries the theorems holds in every reachable state.
THEOREM FileInvariant == Spec => []FileInv
  <1>1. Init => FileInv
    BY FileInit
  <1>2. FileInv /\ [Next]_vars => FileInv'
    BY FileStep
  <1> QED
    BY <1>1, <1>2, PTL DEF Spec

\* Type correctness: block numbers stay 16-bit numbers and every datagram has
\* the fields its operation code promises, on both sides, whatever the network
\* does.
THEOREM TypeCorrect == Spec => []TypeOK
  <1>1. FileInv => TypeOK
    BY DEF FileInv, TypeInv
  <1> QED
    BY <1>1, FileInvariant, PTL

\* No file of the server is open for writing in two sessions: handleWriteRequest
\* refuses a name that exists, and a file exists from its open on
\* (tftp-server.cpp:478-514).
THEOREM SingleWriter == Spec => []OneWriter
  <1>1. FileInv => OneWriter
    BY DEF FileInv
  <1> QED
    BY <1>1, FileInvariant, PTL

\* No step, a restart included, removes, truncates or rewrites a file of the
\* server, and only its one writer makes it longer.
THEOREM FilesSurvive == Spec => ExistingFilesKept
  <1>1. FileInv /\ [Next]_vars => [FilesKept]_vars
    BY FileStep
  <1> QED
    BY <1>1, FileInvariant, PTL DEF Spec, ExistingFilesKept, FilesKept

HIDE ConstantsAssumption

-----------------------------------------------------------------------------
(***************************************************************************)
(* The inductive invariant: what a client, its session and the datagram    *)
(* between them know of each other.  It says nothing of a transfer whose   *)
(* datagram is lost, and little of one whose session a restart has erased. *)
(***************************************************************************)
\* f is complete: it holds s and nobody is writing it.
Settled(f, s) == disk[f] = s /\ Writers(f) = {}

\* A session that is absent has the values of a new one.
NoSession(c) ==
    kind[c] = "none" =>
        /\ counter[c] = 0 /\ stream[c] = "closed" /\ spos[c] = 0
        /\ ~readComplete[c] /\ written[c] = <<>>

OneDatagram(c) ==
    /\ up[c] = {} \/ down[c] = {}
    /\ \A m, n \in up[c] : m = n
    /\ \A m, n \in down[c] : m = n

\* Before a transfer.
Fresh(c) ==
    pc[c] = "idle" =>
        /\ up[c] = {} /\ down[c] = {} /\ kind[c] = "none"
        /\ blockNo[c] = 0 /\ pos[c] = 0 /\ ~complete[c] /\ promise[c] = NoFile

\* RRQ or WRQ is on its way.
Requested(c) ==
    \A m \in up[c] : m.op \in {"RRQ", "WRQ"} =>
        /\ m.name = file[c] /\ file[c] \in Name
        /\ kind[c] = "none" /\ blockNo[c] = 0
        /\ m.op = "RRQ" /\ pc[c] = "get" => out[c] = <<>>
        /\ m.op = "WRQ" => pc[c] \in {"put", "failed"} /\ pos[c] = 0 /\ ~complete[c]

\* The session reads the file of the client and has sent n bytes of it in k
\* blocks, the last of them a short one if done.
ReadSession(c, k, n, done) ==
    /\ counter[c] = k /\ stream[c] = "open" /\ sfile[c] = file[c]
    /\ spos[c] = n /\ (readComplete[c] <=> done)

\* A block is on its way to the client.
GetBlock(c) ==
    \A m \in down[c] : m.op = "DATA" /\ pc[c] = "get" =>
        /\ m.num = Inc(blockNo[c])
        /\ disk[file[c]] # NoFile /\ Prefix(out[c] \o m.data, disk[file[c]])
        /\ Short(m.data) /\ promise[c] # NoFile => out[c] \o m.data = promise[c]
        /\ kind[c] \in {"none", "Read"}
        /\ kind[c] = "Read" =>
              ReadSession(c, m.num, Len(out[c] \o m.data), Short(m.data))

\* The acknowledgement of a block is on its way to the server.
GetAcked(c) ==
    \A m \in up[c] : m.op = "ACK" =>
        /\ kind[c] \in {"none", "Read"}
        /\ pc[c] = "get" =>
              /\ m.num = blockNo[c]
              /\ disk[file[c]] # NoFile /\ Prefix(out[c], disk[file[c]])
              /\ kind[c] = "Read" => ReadSession(c, m.num, Len(out[c]), FALSE)

\* What getFile has and what it has returned.
GetSoFar(c) ==
    /\ pc[c] \in {"get", "got"} =>
          /\ file[c] \in Name
          /\ out[c] \in Content
          /\ out[c] # <<>> => disk[file[c]] # NoFile /\ Prefix(out[c], disk[file[c]])
    /\ pc[c] = "get" /\ promise[c] # NoFile => Settled(file[c], promise[c])
    /\ pc[c] = "got" =>
          /\ disk[file[c]] # NoFile
          /\ promise[c] # NoFile => out[c] = promise[c]

Sent(c) == SubSeq(Source[c], 1, pos[c])

\* The session writes the file of the client, which is to hold s with the
\* block d, or its stream was never opened.
WriteSession(c, d, s) ==
    \/ stream[c] = "open" /\ sfile[c] = file[c] /\ written[c] \o d = s
    \/ stream[c] = "closed" /\ file[c] \in Unopenable

\* A block is on its way to the server.
PutBlock(c) ==
    \A m \in up[c] : m.op = "DATA" =>
        /\ pc[c] \in {"put", "failed"}
        /\ m.num = blockNo[c] /\ (complete[c] <=> Short(m.data))
        /\ kind[c] \in {"none", "Write"} /\ closing # c
        /\ kind[c] = "Write" => Inc(counter[c]) = m.num /\ WriteSession(c, m.data, Sent(c))

\* The server has the whole file, or is about to close it.
IsStored(c) ==
    \/ file[c] \in Unopenable
    \/ Settled(file[c], Source[c])
    \/ /\ closing = c /\ stream[c] = "open"
       /\ sfile[c] = file[c] /\ written[c] = Source[c]

\* The acknowledgement of a block or of the request is on its way to the client.
PutAcked(c) ==
    \A m \in down[c] : m.op = "ACK" /\ pc[c] = "put" =>
        /\ m.num = blockNo[c]
        /\ complete[c] => IsStored(c)
        /\ ~complete[c] =>
              /\ closing # c /\ kind[c] \in {"none", "Write"}
              /\ kind[c] = "Write" => counter[c] = m.num /\ WriteSession(c, <<>>, Sent(c))

\* What putFile has read, what its session has written, and what it has returned.
PutSoFar(c) ==
    /\ pos[c] <= Len(Source[c])
    /\ complete[c] => pos[c] = Len(Source[c])
    /\ pc[c] \in {"put", "stored"} => file[c] \in Name
    /\ kind[c] = "Write" /\ stream[c] # "closed" =>
          /\ stream[c] = "open" /\ sfile[c] = file[c] /\ pc[c] \in {"put", "stored", "failed"}
          /\ Prefix(written[c], Source[c])
    /\ pc[c] = "stored" => IsStored(c)

Dialogue(c) ==
    /\ NoSession(c) /\ OneDatagram(c) /\ Fresh(c) /\ Requested(c)
    /\ GetBlock(c) /\ GetAcked(c) /\ GetSoFar(c)
    /\ PutBlock(c) /\ PutAcked(c) /\ PutSoFar(c)

Undisturbed == dups = 0 /\ reuses = 0

TransferInv == FileInv /\ (Undisturbed => \A c \in Client : Dialogue(c))

(***************************************************************************)
(* Contents and blocks.                                                    *)
(***************************************************************************)
LEMMA Constants ==
    /\ BlockSize \in Nat \ {0}
    /\ NoFile \notin Content
    /\ NoClient \notin Client
    /\ \A c \in Client : Source[c] \in Content
  BY ConstantsAssumption

LEMMA PrefixTrans ==
    ASSUME NEW a \in Content, NEW b \in Content, NEW s \in Content, Prefix(a, b), Prefix(b, s)
    PROVE  Prefix(a, s)
  <1>1. Len(a) \in Nat /\ Len(b) \in Nat /\ Len(s) \in Nat
    BY ContentFacts
  <1>2. Len(a) <= Len(b) /\ Len(b) <= Len(s)
    BY DEF Prefix
  <1>3. \A i \in 1 .. Len(b) : b[i] = s[i]
    BY <1>1, <1>2 DEF Prefix, Content
  <1>4. \A i \in 1 .. Len(a) : a[i] = b[i]
    BY <1>1, <1>2 DEF Prefix, Content
  <1>5. SubSeq(s, 1, Len(a)) \in Content /\ Len(SubSeq(s, 1, Len(a))) = Len(a)
    BY <1>1, <1>2, PrefixType
  <1>6. \A i \in 1 .. Len(a) : a[i] = SubSeq(s, 1, Len(a))[i]
    BY <1>1, <1>2, <1>3, <1>4 DEF Content
  <1>7. a = SubSeq(s, 1, Len(a))
    BY <1>5, <1>6, SeqEqual DEF Content
  <1> QED
    BY <1>1, <1>2, <1>7 DEF Prefix

\* The block read where s ends continues s, and a short one ends the file.
LEMMA ChunkNext ==
    ASSUME NEW s \in Content, NEW t \in Content, Prefix(s, t)
    PROVE  /\ Chunk(t, Len(s)) \in Content
           /\ Prefix(s \o Chunk(t, Len(s)), t)
           /\ Len(s \o Chunk(t, Len(s))) = Len(s) + Len(Chunk(t, Len(s)))
           /\ Short(Chunk(t, Len(s))) => s \o Chunk(t, Len(s)) = t
  <1> DEFINE n == Len(s)
             h == IF n + BlockSize < Len(t) THEN n + BlockSize ELSE Len(t)
             d == Chunk(t, n)
  <1>1. n \in Nat /\ Len(t) \in Nat /\ n <= Len(t) /\ BlockSize \in Nat \ {0}
    BY ContentFacts, Constants DEF Prefix
  <1>2. h \in Nat /\ n <= h /\ h <= Len(t)
    BY <1>1
  <1>3. d = SubSeq(t, n + 1, h)
    BY DEF Chunk
  <1> HIDE DEF h
  <1>4. d \in Content /\ Len(d) = h - n
    <2>1. \A i \in n + 1 .. h : t[i] \in Byte
      BY <1>1, <1>2 DEF Content
    <2>2. d \in Content /\ Len(d) = IF n + 1 <= h THEN h - (n + 1) + 1 ELSE 0
      BY <1>1, <1>2, <1>3, <2>1, SubSeqProperties DEF Content
    <2> QED
      BY <1>1, <1>2, <2>2
  <1>5. s \o d = SubSeq(t, 1, h)
    <2>1. SubSeq(t, 1, n) \o SubSeq(t, n + 1, h) = SubSeq(t, 1, h)
      <3>1. 1 \in 1 .. Len(t) + 1 /\ n \in 1 - 1 .. Len(t) /\ h \in n .. Len(t)
        BY <1>1, <1>2
      <3> QED
        BY <3>1, ConcatAdjacentSubSeq DEF Content
    <2>2. s = SubSeq(t, 1, n)
      BY DEF Prefix
    <2> HIDE DEF n, d
    <2> QED
      BY <1>3, <2>1, <2>2
  <1>6. SubSeq(t, 1, h) \in Content /\ Len(SubSeq(t, 1, h)) = h
    BY <1>1, <1>2, PrefixType
  <1>7. Prefix(s \o d, t)
    BY <1>2, <1>5, <1>6 DEF Prefix
  <1>8. Len(s \o d) = n + Len(d)
    BY <1>1, <1>2, <1>4, <1>5, <1>6
  <1>9. ASSUME Short(d) PROVE s \o d = t
    <2>1. h = Len(t)
      BY <1>1, <1>2, <1>4, <1>9 DEF Short, h
    <2>2. SubSeq(t, 1, Len(t)) = t
      BY SubSeqFull DEF Content
    <2> QED
      BY <1>5, <2>1, <2>2
  <1> QED
    BY <1>4, <1>7, <1>8, <1>9

(***************************************************************************)
(* What a step leaves alone.                                               *)
(***************************************************************************)
LEMMA SettledStays ==
    ASSUME FileInv, [Next]_vars, NEW f \in Name, NEW s \in Content, Settled(f, s)
    PROVE  Settled(f, s)'
  <1>1. disk[f] = s /\ s # NoFile /\ Writers(f) = {}
    BY ContentFacts DEF Settled
  <1>2. disk'[f] = s
    BY <1>1, FileStep DEF FilesKept
  <1>3. ASSUME NEW c \in Client, ServerStep(c), NEW d \in Client,
               kind'[d] = "Write", stream'[d] # "closed", sfile'[d] = f
        PROVE  FALSE
    <2>1. Effect(c)
      BY <1>3, ServerEffect
    <2>2. kind[d] # "Write" \/ stream[d] = "closed" \/ sfile[d] # f
      BY <1>1 DEF Writers
    <2>3. CASE d # c
      BY <1>3, <2>1, <2>2, <2>3 DEF Effect, SameSession
    <2>4. CASE d = c
      <3>1. Holds(c) \/ OpensOld(c) \/ Creates(c) \/ Appends(c) \/ Closes(c)
        BY <2>1 DEF Effect
      <3> QED
        BY <1>1, <1>3, <2>2, <2>4, <3>1 DEF Holds, OpensOld, Creates, Appends, Closes
    <2> QED
      BY <2>3, <2>4
  <1>4. Writers(f)' = {}
    <2>1. ASSUME NEW c \in Client, ServerStep(c) PROVE Writers(f)' = {}
      BY <1>3, <2>1 DEF Writers
    <2>2. ASSUME NEW c \in Client, Begin(c) \/ ClientStep(c) \/ Lose(c) \/ Reuse(c)
          PROVE  Writers(f)' = {}
      BY <1>1, <2>2, ClientFrame DEF Writers
    <2>3. CASE Stop
      BY <2>3 DEF Stop, Writers
    <2>4. CASE Start
      BY <1>1, <2>4 DEF Start, sessionVars, Writers
    <2>5. CASE UNCHANGED vars
      BY <1>1, <2>5 DEF vars, serverVars, sessionVars, Writers
    <2> QED
      BY <2>1, <2>2, <2>3, <2>4, <2>5 DEF Next
  <1> QED
    BY <1>2, <1>4 DEF Settled

SameClient(d) ==
    /\ pc'[d] = pc[d] /\ file'[d] = file[d] /\ blockNo'[d] = blockNo[d] /\ out'[d] = out[d]
    /\ pos'[d] = pos[d] /\ complete'[d] = complete[d] /\ promise'[d] = promise[d]

SameServer(d) ==
    /\ kind'[d] = kind[d] /\ counter'[d] = counter[d] /\ stream'[d] = stream[d]
    /\ sfile'[d] = sfile[d] /\ spos'[d] = spos[d] /\ readComplete'[d] = readComplete[d]
    /\ written'[d] = written[d]

SameNetwork(d) == up'[d] = up[d] /\ down'[d] = down[d]

\* A prefix of a file stays one.
LEMMA PrefixStays ==
    ASSUME FileInv, [Next]_vars, NEW f \in Name, NEW s \in Content,
           disk[f] # NoFile, Prefix(s, disk[f])
    PROVE  disk'[f] # NoFile /\ Prefix(s, disk'[f])
  <1>1. /\ disk'[f] # NoFile /\ Prefix(disk[f], disk'[f])
        /\ FileInv'
    BY FileStep DEF FilesKept
  <1>2. disk[f] \in Content /\ disk'[f] \in Content
    BY <1>1 DEF FileInv, TypeInv, TypeOK
  <1> QED
    BY <1>1, <1>2, PrefixTrans

\* What a client has got so far stays true whatever the others do.
LEMMA GetSoFarStays ==
    ASSUME FileInv, [Next]_vars, NEW d \in Client, GetSoFar(d), SameClient(d)
    PROVE  GetSoFar(d)'
  <1>0. promise[d] \in Content \cup {NoFile}
    BY DEF FileInv, TypeInv, TypeOK
  <1>1. pc[d] \in {"get", "got"} => file[d] \in Name /\ out[d] \in Content
    BY DEF GetSoFar
  <1>2. pc[d] \in {"get", "got"} /\ out[d] # <<>> =>
          disk'[file[d]] # NoFile /\ Prefix(out[d], disk'[file[d]])
    BY <1>1, PrefixStays DEF GetSoFar
  <1>3. pc[d] = "get" /\ promise[d] # NoFile => Settled(file[d], promise[d])'
    <2>1. SUFFICES ASSUME pc[d] = "get", promise[d] # NoFile
                   PROVE  Settled(file[d], promise[d])'
      OBVIOUS
    <2>2. Settled(file[d], promise[d]) /\ file[d] \in Name /\ promise[d] \in Content
      BY <1>0, <2>1 DEF GetSoFar
    <2>3. file'[d] = file[d] /\ promise'[d] = promise[d]
      BY DEF SameClient
    <2>4. \A f \in Name, s \in Content : Settled(f, s) => disk'[f] = s /\ Writers(f)' = {}
      BY SettledStays DEF Settled
    <2>5. disk'[file[d]] = promise[d] /\ Writers(file[d])' = {}
      BY <2>2, <2>3, <2>4 DEF Writers
    <2> QED
      BY <2>3, <2>5 DEF Settled
  <1>4. pc[d] = "got" => disk'[file[d]] # NoFile
    BY <1>1, FileStep DEF FilesKept, GetSoFar
  <1> QED
    BY <1>1, <1>2, <1>3, <1>4 DEF GetSoFar, SameClient, Settled, Writers

LEMMA Datagrams ==
    ASSUME TypeOK, NEW c \in Client
    PROVE  /\ \A m \in up[c] :
                /\ m.op \in {"RRQ", "WRQ"} => m.name \in Name
                /\ m.op = "ACK" => m.num \in Num
                /\ m.op = "DATA" => m.num \in Num /\ m.data \in Content
                /\ m.op \in {"RRQ", "WRQ", "DATA", "ACK"}
           /\ \A m \in down[c] :
                /\ m.op = "ACK" => m.num \in Num
                /\ m.op = "DATA" => m.num \in Num /\ m.data \in Content
                /\ m.op \in {"DATA", "ACK", "ERROR"}
  <1>1. \A m \in up[c] : m \in ReqMsg \cup DataMsg \cup AckMsg
    BY DEF TypeOK
  <1>2. \A m \in down[c] : m \in DataMsg \cup AckMsg \cup ErrorMsg
    BY DEF TypeOK
  <1> QED
    BY <1>1, <1>2, MsgOp

LEMMA IsStoredStays ==
    ASSUME FileInv, [Next]_vars, NEW d \in Client, IsStored(d), file[d] \in Name,
           SameClient(d), SameServer(d), closing' = d <=> closing = d
    PROVE  IsStored(d)'
  <1>1. CASE file[d] \in Unopenable
    BY <1>1 DEF IsStored, SameClient
  <1>2. CASE Settled(file[d], Source[d])
    <2>1. \A f \in Name, s \in Content : Settled(f, s) => disk'[f] = s /\ Writers(f)' = {}
      BY SettledStays DEF Settled
    <2>2. Settled(file[d], Source[d])'
      <3>1. file'[d] = file[d]
        BY DEF SameClient
      <3>2. disk'[file[d]] = Source[d] /\ Writers(file[d])' = {}
        BY <1>2, <2>1, <3>1, Constants DEF Writers
      <3> QED
        BY <3>1, <3>2 DEF Settled
    <2> QED
      BY <2>2 DEF IsStored
  <1>3. CASE /\ closing = d /\ stream[d] = "open"
             /\ sfile[d] = file[d] /\ written[d] = Source[d]
    BY <1>3 DEF IsStored, SameClient, SameServer
  <1> QED
    BY <1>1, <1>2, <1>3 DEF IsStored

\* The step of another client, or of its session.
LEMMA Elsewhere ==
    ASSUME FileInv, [Next]_vars, NEW d \in Client, Dialogue(d),
           SameClient(d), SameServer(d), SameNetwork(d), closing' = d <=> closing = d
    PROVE  Dialogue(d)'
  <1> USE DEF Dialogue
  <1>1. NoSession(d)' /\ OneDatagram(d)' /\ Fresh(d)' /\ Requested(d)'
    BY DEF NoSession, OneDatagram, Fresh, Requested, SameClient, SameServer, SameNetwork
  <1>2. GetSoFar(d)'
    BY GetSoFarStays
  <1>3. GetBlock(d)'
    <2>1. SUFFICES ASSUME NEW m \in down[d], m.op = "DATA", pc[d] = "get"
                   PROVE  /\ disk'[file[d]] # NoFile
                          /\ Prefix(out[d] \o m.data, disk'[file[d]])
      BY ZenonT(60) DEF GetBlock, SameClient, SameServer, SameNetwork, ReadSession
    <2>2. /\ disk[file[d]] # NoFile /\ Prefix(out[d] \o m.data, disk[file[d]])
          /\ file[d] \in Name /\ out[d] \in Content
      BY <2>1 DEF GetBlock, GetSoFar
    <2>3. m.data \in Content
      BY <2>1, Datagrams DEF FileInv, TypeInv
    <2> QED
      BY <2>2, <2>3, ContentFacts, PrefixStays
  <1>4. GetAcked(d)'
    <2>1. SUFFICES ASSUME NEW m \in up[d], m.op = "ACK", pc[d] = "get"
                   PROVE  disk'[file[d]] # NoFile /\ Prefix(out[d], disk'[file[d]])
      BY DEF GetAcked, SameClient, SameServer, SameNetwork, ReadSession
    <2>2. /\ disk[file[d]] # NoFile /\ Prefix(out[d], disk[file[d]])
          /\ file[d] \in Name /\ out[d] \in Content
      BY <2>1 DEF GetAcked, GetSoFar
    <2> QED
      BY <2>2, PrefixStays
  <1>5. PutBlock(d)'
    BY ZenonT(60) DEF PutBlock, SameClient, SameServer, SameNetwork, WriteSession, Sent
  <1>6. PutAcked(d)'
    <2>1. SUFFICES ASSUME NEW m \in down[d], m.op = "ACK", pc[d] = "put", complete[d]
                   PROVE  IsStored(d)'
      BY DEF PutAcked, SameClient, SameServer, SameNetwork, WriteSession, Sent
    <2> QED
      BY <2>1, IsStoredStays DEF PutAcked, PutSoFar
  <1>7. PutSoFar(d)'
    <2>1. pc[d] = "stored" => IsStored(d)'
      BY IsStoredStays DEF PutSoFar
    <2> QED
      BY <2>1 DEF PutSoFar, SameClient, SameServer
  <1> QED
    BY <1>1, <1>2, <1>3, <1>4, <1>5, <1>6, <1>7

(***************************************************************************)
(* The datagram between a client and its session.                          *)
(***************************************************************************)
LEMMA TakesUp ==
    ASSUME TypeOK, NEW c \in Client, OneDatagram(c), NEW m, TakeUp(c, m), dups = 0, dups' = 0
    PROVE  up[c] = {m} /\ up'[c] = {} /\ down[c] = {}
  <1>1. m \in up[c] /\ up' = [up EXCEPT ![c] = @ \ {m}]
    BY DEF TakeUp
  <1>2. up[c] = {m} /\ down[c] = {}
    BY <1>1 DEF OneDatagram
  <1> QED
    BY <1>1, <1>2 DEF TypeOK

LEMMA TakesDown ==
    ASSUME TypeOK, NEW c \in Client, OneDatagram(c), NEW m, TakeDown(c, m), dups = 0, dups' = 0
    PROVE  down[c] = {m} /\ down'[c] = {} /\ up[c] = {}
  <1>1. m \in down[c] /\ down' = [down EXCEPT ![c] = @ \ {m}]
    BY DEF TakeDown
  <1>2. down[c] = {m} /\ up[c] = {}
    BY <1>1 DEF OneDatagram
  <1> QED
    BY <1>1, <1>2 DEF TypeOK

LEMMA SendsUp ==
    ASSUME TypeOK, NEW c \in Client, NEW m, NEW sent, up[c] = {}, SendUp(c, m, sent)
    PROVE  up'[c] = IF sent THEN {m} ELSE {}
  BY DEF SendUp, TypeOK

LEMMA Replies ==
    ASSUME TypeOK, NEW c \in Client, NEW m, down[c] = {}, Reply(c, m)
    PROVE  down'[c] \in {{}, {m}}
  BY DEF Reply, SendDown, TypeOK

\* Nothing is on its way any more, or an ERROR: no conjunct about a datagram
\* says anything.
LEMMA Silent ==
    ASSUME NEW c \in Client, up'[c] = {},
           \/ down'[c] = {}
           \/ \E e \in ErrorCode : down'[c] = {Error(e)}
    PROVE  /\ OneDatagram(c)' /\ Requested(c)' /\ GetBlock(c)' /\ GetAcked(c)'
           /\ PutBlock(c)' /\ PutAcked(c)'
  <1>1. OneDatagram(c)'
    BY DEF OneDatagram
  <1>2. \A m \in down'[c] : m.op = "ERROR"
    BY DEF Error
  <1> QED
    BY <1>1, <1>2 DEF Requested, GetBlock, GetAcked, PutBlock, PutAcked

LEMMA Differ ==
    /\ \A f \in Name : Rrq(f).op = "RRQ" /\ Rrq(f).name = f /\ Wrq(f).op = "WRQ" /\ Wrq(f).name = f
    /\ \A n \in Num : Ack(n).op = "ACK" /\ Ack(n).num = n
    /\ \A n \in Num, d \in Content :
          Data(n, d).op = "DATA" /\ Data(n, d).num = n /\ Data(n, d).data = d
  BY DEF Rrq, Wrq, Ack, Data

(***************************************************************************)
(* The steps of a client, one lemma for each function.                     *)
(***************************************************************************)
LEMMA ClientTypes ==
    ASSUME FileInv
    PROVE  /\ TypeOK
           /\ pc \in [Client -> {"idle", "get", "put", "got", "stored", "failed"}]
           /\ file \in [Client -> Name \cup {EmptyName}]
           /\ blockNo \in [Client -> Num]
           /\ out \in [Client -> Content \cup {NoFile}]
           /\ pos \in [Client -> Nat]
           /\ complete \in [Client -> BOOLEAN]
           /\ promise \in [Client -> Content \cup {NoFile}]
           /\ IoResult \subseteq BOOLEAN
  BY ConstantsAssumption DEF FileInv, TypeInv, TypeOK

LEMMA GetFileDialogue ==
    ASSUME FileInv, NEW c \in Client, Dialogue(c), NEW f \in Name, GetFile(c, f)
    PROVE  Dialogue(c)'
  <1> USE DEF Dialogue
  <1>0. /\ TypeOK
        /\ pc \in [Client -> {"idle", "get", "put", "got", "stored", "failed"}]
        /\ file \in [Client -> Name \cup {EmptyName}]
        /\ out \in [Client -> Content \cup {NoFile}]
        /\ promise \in [Client -> Content \cup {NoFile}]
        /\ IoResult \subseteq BOOLEAN
    BY ClientTypes
  <1>1. /\ pc[c] = "idle" /\ up[c] = {} /\ down[c] = {} /\ kind[c] = "none"
        /\ blockNo[c] = 0 /\ pos[c] = 0 /\ ~complete[c]
    BY DEF GetFile, Fresh
  <1>2. /\ UNCHANGED <<blockNo, pos, complete, down>>
        /\ UNCHANGED <<kind, counter, stream, sfile, spos, readComplete, written, disk, closing>>
        /\ file'[c] = f
        /\ promise'[c] = IF Writers(f) = {} THEN disk[f] ELSE NoFile
    BY <1>0 DEF GetFile, serverVars, sessionVars
  <1>3. \/ pc'[c] = "failed" /\ up'[c] = {}
        \/ pc'[c] = "get" /\ up'[c] = {Rrq(f)} /\ out'[c] = <<>>
    <2>1. CASE End(c, "failed") /\ UNCHANGED <<out, up>>
      BY <1>0, <1>1, <2>1 DEF End
    <2>2. ASSUME NEW sent \in IoResult, out' = [out EXCEPT ![c] = <<>>],
                 SendUp(c, Rrq(f), sent), End(c, IF sent THEN "get" ELSE "failed")
          PROVE  \/ pc'[c] = "failed" /\ up'[c] = {}
                 \/ pc'[c] = "get" /\ up'[c] = {Rrq(f)} /\ out'[c] = <<>>
      <3>1. up'[c] = IF sent THEN {Rrq(f)} ELSE {}
        BY <1>0, <1>1, <2>2 DEF SendUp, TypeOK
      <3> QED
        BY <1>0, <2>2, <3>1 DEF End
    <2> QED
      BY <2>1, <2>2 DEF GetFile
  <1>4. NoSession(c)' /\ Fresh(c)'
    BY <1>2, <1>3 DEF NoSession, Fresh
  <1>5. PutSoFar(c)'
    BY <1>1, <1>2, <1>3 DEF PutSoFar
  <1>6. CASE pc'[c] = "failed" /\ up'[c] = {}
    <2>1. GetSoFar(c)'
      BY <1>6 DEF GetSoFar
    <2> QED
      BY <1>1, <1>2, <1>4, <1>5, <1>6, <2>1, Silent
  <1>7. CASE pc'[c] = "get" /\ up'[c] = {Rrq(f)} /\ out'[c] = <<>>
    <2>1. down'[c] = {} /\ \A m \in up'[c] : m.op = "RRQ" /\ m.name = f
      BY <1>1, <1>2, <1>7, Differ
    <2>2. OneDatagram(c)' /\ Requested(c)'
      BY <1>1, <1>2, <1>7, <2>1 DEF OneDatagram, Requested
    <2>3. GetBlock(c)' /\ GetAcked(c)' /\ PutBlock(c)' /\ PutAcked(c)'
      BY <2>1 DEF GetBlock, GetAcked, PutBlock, PutAcked
    <2>4. GetSoFar(c)'
      <3>1. promise'[c] # NoFile => disk'[f] = promise'[c] /\ Writers(f)' = {}
        BY <1>2 DEF Writers
      <3>2. Writers(f)' = Writers(file[c])'
        BY <1>2 DEF Writers
      <3>3. promise'[c] # NoFile => Settled(file[c], promise[c])'
        BY <1>2, <3>1, <3>2 DEF Settled
      <3> QED
        BY <1>2, <1>7, <3>3, ContentFacts DEF GetSoFar
    <2> QED
      BY <1>4, <1>5, <2>2, <2>3, <2>4
  <1> QED
    BY <1>3, <1>6, <1>7

LEMMA FailDialogue ==
    ASSUME FileInv, NEW c \in Client, Dialogue(c), pc'[c] = "failed", pc[c] # "idle",
           UNCHANGED <<file, pos, complete>>, UNCHANGED serverVars,
           up'[c] = {}, down'[c] = {}
    PROVE  Dialogue(c)'
  <1>1. NoSession(c)' /\ Fresh(c)' /\ GetSoFar(c)'
    BY DEF NoSession, Fresh, GetSoFar, Dialogue, serverVars, sessionVars
  <1>2. PutSoFar(c)'
    BY DEF PutSoFar, Dialogue, serverVars, sessionVars
  <1> QED
    BY <1>1, <1>2, Silent DEF Dialogue

LEMMA GetDataDialogue ==
    ASSUME FileInv, NEW c \in Client, Dialogue(c), dups = 0, dups' = 0, GetData(c)
    PROVE  Dialogue(c)'
  <1> USE DEF Dialogue
  <1>0. /\ TypeOK
        /\ pc \in [Client -> {"idle", "get", "put", "got", "stored", "failed"}]
        /\ blockNo \in [Client -> Num]
        /\ out \in [Client -> Content \cup {NoFile}]
        /\ IoResult \subseteq BOOLEAN
    BY ClientTypes
  <1>1. /\ pc[c] = "get" /\ blockNo'[c] = Inc(blockNo[c])
        /\ UNCHANGED <<file, pos, complete, promise, serverVars>>
    BY <1>0 DEF GetData
  <1>2. PICK m \in down[c] :
        /\ m.op = "DATA" /\ TakeDown(c, m)
        /\ \/ AbandonGet(c) /\ UNCHANGED up
           \/ /\ InOrder(m, Inc(blockNo[c]))
              /\ \E sent \in IoResult :
                   /\ SendUp(c, Ack(m.num), sent)
                   /\ \/ /\ sent
                         /\ out' = [out EXCEPT ![c] = @ \o m.data]
                         /\ End(c, IF Short(m.data) THEN "got" ELSE "get")
                      \/ ~sent /\ AbandonGet(c)
    BY DEF GetData
  <1>3. down[c] = {m} /\ down'[c] = {} /\ up[c] = {}
    BY <1>0, <1>2, TakesDown
  <1>4. m.num \in Num /\ m.data \in Content
    BY <1>0, <1>2, Datagrams
  <1>5. \/ up'[c] = {} /\ pc'[c] = "failed"
        \/ /\ up'[c] = {Ack(m.num)} /\ m.num = Inc(blockNo[c])
           /\ out'[c] = out[c] \o m.data
           /\ pc'[c] = IF Short(m.data) THEN "got" ELSE "get"
    <2>1. CASE AbandonGet(c) /\ UNCHANGED up
      BY <1>0, <1>3, <2>1 DEF AbandonGet, End
    <2>2. ASSUME NEW sent \in IoResult, SendUp(c, Ack(m.num), sent), InOrder(m, Inc(blockNo[c])),
                 \/ /\ sent
                    /\ out' = [out EXCEPT ![c] = @ \o m.data]
                    /\ End(c, IF Short(m.data) THEN "got" ELSE "get")
                 \/ ~sent /\ AbandonGet(c)
          PROVE  \/ up'[c] = {} /\ pc'[c] = "failed"
                 \/ /\ up'[c] = {Ack(m.num)} /\ m.num = Inc(blockNo[c])
                    /\ out'[c] = out[c] \o m.data
                    /\ pc'[c] = IF Short(m.data) THEN "got" ELSE "get"
      <3>0. sent \in BOOLEAN /\ SendUp(c, Ack(m.num), sent)
        BY <1>0, <2>2
      <3>1. up'[c] = IF sent THEN {Ack(m.num)} ELSE {}
        BY <1>0, <1>3, <3>0 DEF SendUp, TypeOK
      <3>2. CASE ~sent /\ AbandonGet(c)
        BY <1>0, <3>1, <3>2 DEF End, AbandonGet
      <3>3. CASE /\ sent
                 /\ out' = [out EXCEPT ![c] = @ \o m.data]
                 /\ End(c, IF Short(m.data) THEN "got" ELSE "get")
        <4>1. m.num = Inc(blockNo[c])
          BY <2>2 DEF InOrder
        <4>2. out'[c] = out[c] \o m.data
          BY <1>0, <3>3
        <4>3. pc'[c] = IF Short(m.data) THEN "got" ELSE "get"
          BY <1>0, <3>3 DEF End
        <4> QED
          BY <3>1, <3>3, <4>1, <4>2, <4>3
      <3> QED
        BY <2>2, <3>2, <3>3
    <2> QED
      BY <1>2, <2>1, <2>2
  <1>6. CASE up'[c] = {} /\ pc'[c] = "failed"
    BY <1>1, <1>3, <1>6, FailDialogue
  <1>7. CASE /\ up'[c] = {Ack(m.num)} /\ m.num = Inc(blockNo[c])
             /\ out'[c] = out[c] \o m.data
             /\ pc'[c] = IF Short(m.data) THEN "got" ELSE "get"
    <2>1. /\ disk[file[c]] # NoFile /\ Prefix(out[c] \o m.data, disk[file[c]])
          /\ Short(m.data) /\ promise[c] # NoFile => out[c] \o m.data = promise[c]
          /\ kind[c] \in {"none", "Read"}
          /\ kind[c] = "Read" =>
                ReadSession(c, m.num, Len(out[c] \o m.data), Short(m.data))
      BY <1>1, <1>2 DEF GetBlock
    <2>2. \A a \in up'[c] : a.op = "ACK" /\ a.num = m.num
      BY <1>4, <1>7, Differ
    <2>3. /\ UNCHANGED <<file, promise, disk, kind, counter, stream, sfile, spos, readComplete>>
          /\ UNCHANGED <<written, closing>>
      BY <1>1 DEF serverVars, sessionVars
    <2>4. OneDatagram(c)' /\ Requested(c)' /\ GetBlock(c)' /\ PutBlock(c)' /\ PutAcked(c)'
      BY <1>3, <1>7, <2>2 DEF OneDatagram, Requested, GetBlock, PutBlock, PutAcked
    <2>5. NoSession(c)' /\ Fresh(c)'
      BY <1>7, <2>3 DEF NoSession, Fresh
    <2>6. GetAcked(c)'
      <3>1. pc'[c] = "get" => ~Short(m.data)
        BY <1>7
      <3>2. pc'[c] = "get" /\ kind[c] = "Read" => ReadSession(c, m.num, Len(out[c]), FALSE)'
        <4>1. SUFFICES ASSUME pc'[c] = "get", kind[c] = "Read"
                       PROVE  ReadSession(c, m.num, Len(out[c]), FALSE)'
          OBVIOUS
        <4>2. ReadSession(c, m.num, Len(out'[c]), FALSE)
          BY <1>7, <2>1, <3>1, <4>1 DEF ReadSession, Short
        <4> QED
          BY <2>3, <4>2 DEF ReadSession
      <3> QED
        BY <1>1, <1>7, <2>1, <2>2, <2>3, <3>2 DEF GetAcked, ReadSession
    <2>7. GetSoFar(c)'
      <3>1. file[c] \in Name /\ out[c] \o m.data \in Content
        BY <1>1, <1>4, ContentFacts DEF GetSoFar
      <3>2. promise[c] # NoFile => Settled(file[c], promise[c])'
        BY <1>1, <2>3 DEF GetSoFar, Settled, Writers
      <3> QED
        BY <1>7, <2>1, <2>3, <3>1, <3>2 DEF GetSoFar, Settled, Writers
    <2>8. PutSoFar(c)'
      BY <1>1, <1>7, <2>1, <2>3 DEF PutSoFar
    <2> QED
      BY <2>4, <2>5, <2>6, <2>7, <2>8
  <1> QED
    BY <1>5, <1>6, <1>7

LEMMA PutFileDialogue ==
    ASSUME FileInv, NEW c \in Client, Dialogue(c), NEW f \in Name, PutFile(c, f)
    PROVE  Dialogue(c)'
  <1> USE DEF Dialogue
  <1>0. /\ TypeOK
        /\ pc \in [Client -> {"idle", "get", "put", "got", "stored", "failed"}]
        /\ file \in [Client -> Name \cup {EmptyName}]
        /\ IoResult \subseteq BOOLEAN
    BY ClientTypes
  <1>1. /\ pc[c] = "idle" /\ up[c] = {} /\ down[c] = {} /\ kind[c] = "none"
        /\ blockNo[c] = 0 /\ pos[c] = 0 /\ ~complete[c]
    BY DEF PutFile, Fresh
  <1>2. /\ UNCHANGED <<blockNo, pos, complete, down>>
        /\ UNCHANGED <<kind, counter, stream, sfile, spos, readComplete, written, disk, closing>>
        /\ file'[c] = f
    BY <1>0 DEF PutFile, serverVars, sessionVars
  <1>3. \/ pc'[c] = "failed" /\ up'[c] = {}
        \/ pc'[c] = "put" /\ up'[c] = {Wrq(f)}
    <2>1. CASE End(c, "failed") /\ UNCHANGED up
      BY <1>0, <1>1, <2>1 DEF End
    <2>2. ASSUME NEW sent \in IoResult,
                 SendUp(c, Wrq(f), sent), End(c, IF sent THEN "put" ELSE "failed")
          PROVE  \/ pc'[c] = "failed" /\ up'[c] = {}
                 \/ pc'[c] = "put" /\ up'[c] = {Wrq(f)}
      <3>1. up'[c] = IF sent THEN {Wrq(f)} ELSE {}
        BY <1>0, <1>1, <2>2, SendsUp
      <3> QED
        BY <1>0, <2>2, <3>1 DEF End
    <2> QED
      BY <2>1, <2>2 DEF PutFile
  <1>4. NoSession(c)' /\ Fresh(c)' /\ GetSoFar(c)'
    BY <1>2, <1>3 DEF NoSession, Fresh, GetSoFar
  <1>5. PutSoFar(c)'
    BY <1>1, <1>2, <1>3 DEF PutSoFar
  <1>6. CASE pc'[c] = "failed" /\ up'[c] = {}
    BY <1>1, <1>2, <1>4, <1>5, <1>6, Silent
  <1>7. CASE pc'[c] = "put" /\ up'[c] = {Wrq(f)}
    <2>1. down'[c] = {} /\ \A m \in up'[c] : m.op = "WRQ" /\ m.name = f
      BY <1>1, <1>2, <1>7, Differ
    <2>2. OneDatagram(c)' /\ Requested(c)'
      BY <1>1, <1>2, <1>7, <2>1 DEF OneDatagram, Requested
    <2>3. GetBlock(c)' /\ GetAcked(c)' /\ PutBlock(c)' /\ PutAcked(c)'
      BY <2>1 DEF GetBlock, GetAcked, PutBlock, PutAcked
    <2> QED
      BY <1>4, <1>5, <2>2, <2>3
  <1> QED
    BY <1>3, <1>6, <1>7

\* The block that putFile reads next continues what it has sent.
LEMMA NextSent ==
    ASSUME TypeOK, NEW c \in Client, pos[c] <= Len(Source[c])
    PROVE  LET d == Chunk(Source[c], pos[c])
           IN  /\ d \in Content /\ pos[c] + Len(d) \in Nat /\ pos[c] + Len(d) <= Len(Source[c])
               /\ Sent(c) \in Content
               /\ Sent(c) \o d = SubSeq(Source[c], 1, pos[c] + Len(d))
               /\ Short(d) => pos[c] + Len(d) = Len(Source[c])
  <1> DEFINE S == Source[c]
             n == pos[c]
             d == Chunk(S, n)
  <1>1. S \in Content /\ n \in Nat /\ Len(S) \in Nat /\ n <= Len(S)
    BY Constants, ContentFacts DEF TypeOK
  <1>2. Sent(c) \in Content /\ Len(Sent(c)) = n
    BY <1>1, PrefixType DEF Sent
  <1>3. Prefix(Sent(c), S)
    BY <1>1, <1>2 DEF Prefix, Sent
  <1>4. /\ d \in Content /\ Prefix(Sent(c) \o d, S)
        /\ Len(Sent(c) \o d) = n + Len(d)
        /\ Short(d) => Sent(c) \o d = S
    BY <1>1, <1>2, <1>3, ChunkNext
  <1> HIDE DEF d, n, S
  <1>5. Sent(c) \o d = SubSeq(S, 1, n + Len(d)) /\ n + Len(d) <= Len(S)
    BY <1>4 DEF Prefix
  <1>6. n + Len(d) \in Nat
    BY <1>1, <1>4, ContentFacts
  <1> QED
    BY <1>2, <1>4, <1>5, <1>6 DEF d, n, S

LEMMA PutAckDialogue ==
    ASSUME FileInv, NEW c \in Client, Dialogue(c), dups = 0, dups' = 0, PutAck(c)
    PROVE  Dialogue(c)'
  <1> USE DEF Dialogue
  <1> DEFINE d == Chunk(Source[c], pos[c])
             n == Inc(blockNo[c])
  <1>0. /\ TypeOK
        /\ pc \in [Client -> {"idle", "get", "put", "got", "stored", "failed"}]
        /\ blockNo \in [Client -> Num] /\ pos \in [Client -> Nat]
        /\ complete \in [Client -> BOOLEAN]
    BY ClientTypes
  <1>1. /\ pc[c] = "put"
        /\ UNCHANGED <<file, out, promise, serverVars>>
    BY DEF PutAck
  <1>2. PICK m \in down[c] :
        /\ m.op = "ACK" /\ TakeDown(c, m)
        /\ \/ End(c, "failed") /\ UNCHANGED <<blockNo, pos, complete, up>>
           \/ complete[c] /\ End(c, "stored") /\ UNCHANGED <<blockNo, pos, complete, up>>
           \/ /\ InOrder(m, blockNo[c]) /\ ~complete[c]
              /\ blockNo' = [blockNo EXCEPT ![c] = n]
              /\ pos' = [pos EXCEPT ![c] = @ + Len(d)]
              /\ complete' = [complete EXCEPT ![c] = Short(d)]
              /\ \E sent \in IoResult :
                   /\ SendUp(c, Data(n, d), sent)
                   /\ End(c, IF sent THEN "put" ELSE "failed")
    BY DEF PutAck
  <1>3. down[c] = {m} /\ down'[c] = {} /\ up[c] = {}
    BY <1>0, <1>2, TakesDown
  <1>4. /\ UNCHANGED <<kind, counter, stream, sfile, spos, readComplete>>
        /\ UNCHANGED <<disk, written, closing>>
    BY <1>1 DEF serverVars, sessionVars
  <1>5. NoSession(c)'
    BY <1>4 DEF NoSession
  <1>6. CASE End(c, "failed") /\ UNCHANGED <<blockNo, pos, complete, up>>
    BY <1>0, <1>1, <1>3, <1>6, FailDialogue DEF End
  <1>7. CASE complete[c] /\ End(c, "stored") /\ UNCHANGED <<blockNo, pos, complete, up>>
    <2>1. pc'[c] = "stored" /\ up'[c] = {}
      BY <1>0, <1>3, <1>7 DEF End
    <2>2. IsStored(c) /\ file[c] \in Name
      BY <1>1, <1>2, <1>7 DEF PutAcked, PutSoFar
    <2>3. IsStored(c)'
      BY <1>1, <1>4, <2>2 DEF IsStored, Settled, Writers
    <2>4. PutSoFar(c)'
      BY <1>1, <1>4, <1>7, <2>1, <2>2, <2>3 DEF PutSoFar
    <2>5. Fresh(c)' /\ GetSoFar(c)'
      BY <2>1 DEF Fresh, GetSoFar
    <2> QED
      BY <1>3, <1>5, <2>1, <2>4, <2>5, Silent
  <1>8. CASE /\ InOrder(m, blockNo[c]) /\ ~complete[c]
             /\ blockNo' = [blockNo EXCEPT ![c] = n]
             /\ pos' = [pos EXCEPT ![c] = @ + Len(d)]
             /\ complete' = [complete EXCEPT ![c] = Short(d)]
             /\ \E sent \in IoResult :
                  /\ SendUp(c, Data(n, d), sent)
                  /\ End(c, IF sent THEN "put" ELSE "failed")
    <2>1. /\ d \in Content /\ pos[c] + Len(d) <= Len(Source[c])
          /\ Sent(c) \in Content
          /\ Sent(c) \o d = SubSeq(Source[c], 1, pos[c] + Len(d))
          /\ Short(d) => pos[c] + Len(d) = Len(Source[c])
      <3>1. pos[c] <= Len(Source[c])
        BY DEF PutSoFar
      <3> QED
        BY <1>0, <3>1, NextSent
    <2>2. n \in Num
      BY <1>0, IncType DEF Num
    <2> HIDE DEF d, n
    <2>3. /\ blockNo'[c] = n /\ pos'[c] = pos[c] + Len(d)
          /\ (complete'[c] <=> Short(d))
      <3>1. blockNo'[c] = n /\ pos'[c] = pos[c] + Len(d)
        BY <1>0, <1>8
      <3>2. complete'[c] = Short(d)
        BY <1>0, <1>8, Zenon
      <3> QED
        BY <3>1, <3>2 DEF Short
    <2>4. \/ pc'[c] = "put" /\ up'[c] = {Data(n, d)}
          \/ pc'[c] = "failed" /\ up'[c] = {}
      <3>1. PICK sent \in IoResult : SendUp(c, Data(n, d), sent)
                                     /\ End(c, IF sent THEN "put" ELSE "failed")
        BY <1>8
      <3>2. up'[c] = IF sent THEN {Data(n, d)} ELSE {}
        BY <1>0, <1>3, <3>1, SendsUp
      <3> QED
        BY <1>0, <3>1, <3>2 DEF End
    <2>5. PutSoFar(c)'
      BY <1>1, <1>4, <2>1, <2>3, <2>4 DEF PutSoFar
    <2>6. Fresh(c)' /\ GetSoFar(c)'
      BY <2>4 DEF Fresh, GetSoFar
    <2>7. CASE pc'[c] = "failed" /\ up'[c] = {}
      BY <1>3, <1>5, <2>5, <2>6, <2>7, Silent
    <2>8. CASE pc'[c] = "put" /\ up'[c] = {Data(n, d)}
      <3>1. \A a \in up'[c] : a.op = "DATA" /\ a.num = n /\ a.data = d
        BY <2>1, <2>2, <2>8, Differ
      <3>2. OneDatagram(c)' /\ Requested(c)' /\ GetBlock(c)' /\ GetAcked(c)' /\ PutAcked(c)'
        BY <1>3, <2>8, <3>1 DEF OneDatagram, Requested, GetBlock, GetAcked, PutAcked
      <3>3. /\ m.num = blockNo[c] /\ closing # c /\ kind[c] \in {"none", "Write"}
            /\ kind[c] = "Write" => counter[c] = m.num /\ WriteSession(c, <<>>, Sent(c))
        BY <1>1, <1>2, <1>8 DEF PutAcked
      <3>4. kind[c] = "Write" =>
              \/ stream'[c] = "open" /\ sfile'[c] = file'[c] /\ written'[c] \o d = Sent(c)'
              \/ stream'[c] = "closed" /\ file'[c] \in Unopenable
        <4>1. written[c] \in Content /\ written[c] \o <<>> = written[c]
          BY <1>0, ConcatEmptySeq DEF TypeOK, Content
        <4>2. Sent(c)' = Sent(c) \o d
          BY <2>1, <2>3 DEF Sent
        <4> QED
          BY <1>1, <1>4, <3>3, <4>1, <4>2 DEF WriteSession
      <3>5. PutBlock(c)'
        BY <1>4, <2>3, <2>8, <3>1, <3>3, <3>4, ZenonT(60) DEF PutBlock, WriteSession, n
      <3> QED
        BY <1>5, <2>5, <2>6, <3>2, <3>5
    <2> QED
      BY <2>4, <2>7, <2>8
  <1> QED
    BY <1>2, <1>6, <1>7, <1>8

\* A datagram that is read and ignored, or lost.
LEMMA EmptiedDialogue ==
    ASSUME NEW c \in Client, Dialogue(c), UNCHANGED <<pc, file, out, pos, complete, promise>>,
           UNCHANGED serverVars, up'[c] = {}, down'[c] = {},
           pc[c] # "idle" \/ blockNo' = blockNo
    PROVE  Dialogue(c)'
  <1> USE DEF Dialogue
  <1>1. NoSession(c)' /\ Fresh(c)'
    BY DEF NoSession, Fresh, serverVars, sessionVars
  <1>2. GetSoFar(c)'
    BY DEF GetSoFar, Settled, Writers, serverVars, sessionVars
  <1>3. PutSoFar(c)'
    BY DEF PutSoFar, IsStored, Settled, Writers, serverVars, sessionVars
  <1> QED
    BY <1>1, <1>2, <1>3, Silent

LEMMA RecvFailsDialogue ==
    ASSUME FileInv, NEW c \in Client, Dialogue(c), RecvFails(c)
    PROVE  Dialogue(c)'
  <1> USE DEF Dialogue
  <1>1. /\ pc[c] \in {"get", "put"} /\ pc'[c] = "failed"
        /\ UNCHANGED <<file, blockNo, out, pos, complete, promise, up, down>>
        /\ UNCHANGED <<kind, counter, stream, sfile, spos, readComplete, written, disk, closing>>
    BY ClientTypes DEF RecvFails, End, serverVars, sessionVars
  <1>2. NoSession(c)' /\ OneDatagram(c)' /\ Fresh(c)' /\ Requested(c)'
    BY <1>1 DEF NoSession, OneDatagram, Fresh, Requested
  <1>3. GetBlock(c)' /\ GetAcked(c)' /\ GetSoFar(c)' /\ PutAcked(c)'
    BY <1>1 DEF GetBlock, GetAcked, GetSoFar, PutAcked
  <1>4. PutBlock(c)' /\ PutSoFar(c)'
    BY <1>1 DEF PutBlock, PutSoFar, WriteSession, Sent
  <1> QED
    BY <1>2, <1>3, <1>4

LEMMA ClientDialogue ==
    ASSUME FileInv, NEW c \in Client, Dialogue(c), dups = 0, dups' = 0, reuses = 0, reuses' = 0,
           Begin(c) \/ ClientStep(c) \/ Lose(c) \/ Reuse(c)
    PROVE  Dialogue(c)'
  <1>0. TypeOK /\ OneDatagram(c)
    BY DEF FileInv, TypeInv, Dialogue
  <1>1. CASE Begin(c)
    BY <1>1, GetFileDialogue, PutFileDialogue DEF Begin
  <1>2. CASE GetError(c) \/ PutError(c)
    <2>1. PICK m : TakeDown(c, m)
      BY <1>2 DEF GetError, PutError
    <2>2. down'[c] = {} /\ up[c] = {}
      BY <1>0, <2>1, TakesDown
    <2> QED
      BY <1>2, <2>2, ClientTypes, FailDialogue DEF GetError, PutError, AbandonGet, End
  <1>3. CASE GetData(c)
    BY <1>3, GetDataDialogue
  <1>4. CASE GetOther(c) \/ PutOther(c)
    <2>1. PICK m : TakeDown(c, m)
      BY <1>4 DEF GetOther, PutOther
    <2>2. down'[c] = {} /\ up[c] = {}
      BY <1>0, <2>1, TakesDown
    <2> QED
      BY <1>4, <2>2, EmptiedDialogue DEF GetOther, PutOther, clientVars
  <1>5. CASE PutAck(c)
    BY <1>5, PutAckDialogue
  <1>6. CASE RecvFails(c)
    BY <1>6, RecvFailsDialogue
  <1>7. CASE Lose(c)
    <2>1. up'[c] = {} /\ down'[c] = {}
      <3>1. CASE \E m \in up[c] : up' = [up EXCEPT ![c] = @ \ {m}] /\ UNCHANGED down
        BY <1>0, <3>1 DEF OneDatagram, TypeOK
      <3>2. CASE \E m \in down[c] : down' = [down EXCEPT ![c] = @ \ {m}] /\ UNCHANGED up
        BY <1>0, <3>2 DEF OneDatagram, TypeOK
      <3> QED
        BY <1>7, <3>1, <3>2 DEF Lose
    <2> QED
      BY <1>7, <2>1, EmptiedDialogue DEF Lose, clientVars
  <1>8. CASE Reuse(c)
    BY <1>8 DEF Reuse
  <1> QED
    BY <1>1, <1>2, <1>3, <1>4, <1>5, <1>6, <1>7, <1>8 DEF ClientStep

(***************************************************************************)
(* The steps of the session, one lemma for each handler.                   *)
(***************************************************************************)
LEMMA ServerTypes ==
    ASSUME FileInv
    PROVE  /\ TypeOK
           /\ kind \in [Client -> {"none", "Read", "Write"}]
           /\ counter \in [Client -> Num]
           /\ stream \in [Client -> {"closed", "open", "failed"}]
           /\ sfile \in [Client -> Name \cup {EmptyName}]
           /\ spos \in [Client -> Nat]
           /\ readComplete \in [Client -> BOOLEAN]
           /\ written \in [Client -> Content]
           /\ disk \in [Name -> Content \cup {NoFile}]
  BY DEF FileInv, TypeInv, TypeOK

\* While the server is not closing a file, what is stored is settled.
LEMMA StoredStays ==
    ASSUME FileInv, [Next]_vars, NEW c \in Client, IsStored(c), file[c] \in Name,
           file' = file, closing = NoClient
    PROVE  IsStored(c)'
  <1>1. file[c] \in Unopenable \/ Settled(file[c], Source[c])
    BY Constants DEF IsStored
  <1>2. \A f \in Name, s \in Content : Settled(f, s) => disk'[f] = s /\ Writers(f)' = {}
    BY SettledStays DEF Settled
  <1>3. CASE file[c] \in Unopenable
    BY <1>3 DEF IsStored
  <1>4. CASE Settled(file[c], Source[c])
    <2>1. disk'[file[c]] = Source[c] /\ Writers(file[c])' = {}
      BY <1>2, <1>4, Constants DEF Writers
    <2>2. Settled(file[c], Source[c])'
      BY <2>1 DEF Settled
    <2> QED
      BY <2>2 DEF IsStored
  <1> QED
    BY <1>1, <1>3, <1>4

\* What every handler of a datagram leaves to be shown.
LEMMA Handled ==
    ASSUME FileInv, [Next]_vars, NEW c \in Client, Dialogue(c), UNCHANGED clientVars,
           pc[c] # "idle", closing = NoClient, NoSession(c)',
           kind'[c] = "Write" /\ stream'[c] # "closed" =>
              /\ stream'[c] = "open" /\ sfile'[c] = file[c]
              /\ pc[c] \in {"put", "stored", "failed"} /\ Prefix(written'[c], Source[c])
    PROVE  /\ Fresh(c)' /\ GetSoFar(c)' /\ PutSoFar(c)'
           /\ /\ OneDatagram(c)' /\ Requested(c)' /\ GetBlock(c)' /\ GetAcked(c)'
              /\ PutBlock(c)' /\ PutAcked(c)'
              => Dialogue(c)'
  <1> USE DEF Dialogue
  <1>1. /\ UNCHANGED <<pc, file, blockNo, out, pos, complete, promise>>
        /\ SameClient(c)
    BY DEF clientVars, SameClient
  <1>2. Fresh(c)'
    BY <1>1 DEF Fresh
  <1>3. GetSoFar(c)'
    BY <1>1, GetSoFarStays
  <1>4. pc[c] = "stored" => IsStored(c)'
    BY <1>1, StoredStays DEF PutSoFar
  <1>5. PutSoFar(c)'
    BY <1>1, <1>4 DEF PutSoFar
  <1> QED
    BY <1>2, <1>3, <1>5

LEMMA ReadRequestDialogue ==
    ASSUME FileInv, [Next]_vars, NEW c \in Client, Dialogue(c), dups = 0, dups' = 0,
           ReadRequest(c)
    PROVE  Dialogue(c)'
  <1> USE DEF Dialogue
  <1>0. /\ TypeOK /\ kind \in [Client -> {"none", "Read", "Write"}]
        /\ counter \in [Client -> Num] /\ stream \in [Client -> {"closed", "open", "failed"}]
        /\ sfile \in [Client -> Name \cup {EmptyName}] /\ spos \in [Client -> Nat]
        /\ readComplete \in [Client -> BOOLEAN]
        /\ disk \in [Name -> Content \cup {NoFile}]
    BY ServerTypes
  <1>1. closing = NoClient /\ kind'[c] = "Read" /\ UNCHANGED clientVars /\ UNCHANGED disk
    BY <1>0 DEF ReadRequest, Ready
  <1>2. PICK m \in up[c] :
        /\ m.op = "RRQ" /\ TakeUp(c, m)
        /\ \/ UNCHANGED down
           \/ /\ stream[c] = "closed" /\ disk[m.name] # NoFile
              /\ stream' = [stream EXCEPT ![c] = "open"]
              /\ sfile' = [sfile EXCEPT ![c] = m.name]
              /\ SendBlockOfData(c, Chunk(disk[m.name], 0), 0)
           \/ OpenFails(c)
    BY DEF ReadRequest
  <1>3. up[c] = {m} /\ up'[c] = {} /\ down[c] = {} /\ pc[c] # "idle"
    BY <1>0, <1>2, TakesUp DEF Fresh
  <1>4. /\ m.name = file[c] /\ file[c] \in Name /\ kind[c] = "none" /\ blockNo[c] = 0
        /\ pc[c] = "get" => out[c] = <<>>
        /\ counter[c] = 0 /\ ~readComplete[c]
    BY <1>2 DEF Requested, NoSession
  <1>5. NoSession(c)'
    BY <1>1 DEF NoSession
  <1>6. /\ Fresh(c)' /\ GetSoFar(c)' /\ PutSoFar(c)'
        /\ /\ OneDatagram(c)' /\ Requested(c)' /\ GetBlock(c)' /\ GetAcked(c)'
           /\ PutBlock(c)' /\ PutAcked(c)'
           => Dialogue(c)'
    BY <1>1, <1>3, <1>5, Handled
  <1>7. CASE UNCHANGED down
    BY <1>3, <1>6, <1>7, Silent
  <1>8. CASE OpenFails(c)
    <2>1. down'[c] = {} \/ \E e \in ErrorCode : down'[c] = {Error(e)}
      BY <1>0, <1>3, <1>8, Replies DEF OpenFails, ErrorCode
    <2> QED
      BY <1>3, <1>6, <2>1, Silent
  <1>9. CASE /\ stream[c] = "closed" /\ disk[m.name] # NoFile
             /\ stream' = [stream EXCEPT ![c] = "open"]
             /\ sfile' = [sfile EXCEPT ![c] = m.name]
             /\ SendBlockOfData(c, Chunk(disk[m.name], 0), 0)
    <2> DEFINE t == disk[file[c]]
               d == Chunk(t, 0)
               n == Inc(blockNo[c])
    <2>1. t \in Content /\ t # NoFile
      BY <1>0, <1>4, <1>9
    <2>2. /\ d \in Content /\ Prefix(<<>> \o d, t) /\ Len(<<>> \o d) = 0 + Len(d)
          /\ Short(d) => <<>> \o d = t
      BY <2>1, ChunkNext, PrefixFacts, ContentFacts
    <2>3. n \in Num
      BY <1>0, IncType, ClientTypes DEF Num
    <2>4. /\ counter'[c] = n /\ stream'[c] = "open" /\ sfile'[c] = file[c]
          /\ spos'[c] = 0 + Len(d) /\ (readComplete'[c] <=> Short(d))
      BY <1>0, <1>4, <1>9 DEF SendBlockOfData, Short
    <2>5. down'[c] \in {{}, {Data(n, d)}}
      BY <1>0, <1>3, <1>4, <1>9, Replies DEF SendBlockOfData
    <2> HIDE DEF d, n, t
    <2>6. CASE down'[c] = {}
      BY <1>3, <1>6, <2>6, Silent
    <2>7. CASE down'[c] = {Data(n, d)}
      <3>1. \A a \in down'[c] : a.op = "DATA" /\ a.num = n /\ a.data = d
        BY <2>2, <2>3, <2>7, Differ
      <3>2. OneDatagram(c)' /\ Requested(c)' /\ GetAcked(c)' /\ PutBlock(c)' /\ PutAcked(c)'
        BY <1>3, <2>7, <3>1 DEF OneDatagram, Requested, GetAcked, PutBlock, PutAcked
      <3>3. pc[c] = "get" /\ promise[c] # NoFile => t = promise[c]
        BY DEF GetSoFar, Settled, t
      <3>4. UNCHANGED <<pc, file, blockNo, out, promise>>
        BY <1>1 DEF clientVars
      <3>5. GetBlock(c)'
        BY <1>1, <1>4, <2>1, <2>2, <2>4, <3>1, <3>3, <3>4 DEF GetBlock, ReadSession, t, n
      <3> QED
        BY <1>6, <3>2, <3>5
    <2> QED
      BY <2>5, <2>6, <2>7
  <1> QED
    BY <1>2, <1>7, <1>8, <1>9

LEMMA ReadAckDialogue ==
    ASSUME FileInv, [Next]_vars, NEW c \in Client, Dialogue(c), dups = 0, dups' = 0,
           ReadAck(c)
    PROVE  Dialogue(c)'
  <1> USE DEF Dialogue
  <1> DEFINE d == IF stream[c] = "open" THEN Chunk(disk[sfile[c]], spos[c]) ELSE <<>>
             n == Inc(counter[c])
  <1>0. /\ TypeOK /\ kind \in [Client -> {"none", "Read", "Write"}]
        /\ counter \in [Client -> Num] /\ stream \in [Client -> {"closed", "open", "failed"}]
        /\ sfile \in [Client -> Name \cup {EmptyName}] /\ spos \in [Client -> Nat]
        /\ readComplete \in [Client -> BOOLEAN] /\ written \in [Client -> Content]
        /\ disk \in [Name -> Content \cup {NoFile}]
    BY ServerTypes
  <1>1. closing = NoClient /\ kind[c] = "Read" /\ UNCHANGED clientVars /\ UNCHANGED disk
    BY <1>0 DEF ReadAck, Ready
  <1>2. PICK m \in up[c] :
        /\ m.op = "ACK" /\ TakeUp(c, m)
        /\ \/ Reply(c, Error("UnknownTransferId")) /\ UNCHANGED sessionVars
           \/ Erase(c) /\ UNCHANGED down
           \/ /\ ~readComplete[c]
              /\ SendBlockOfData(c, d, spos[c])
              /\ UNCHANGED <<kind, stream, sfile, written>>
    BY DEF ReadAck
  <1>3. up[c] = {m} /\ up'[c] = {} /\ down[c] = {} /\ pc[c] # "idle"
    BY <1>0, <1>2, TakesUp DEF Fresh
  <1>4. kind'[c] \in {"none", "Read"} /\ NoSession(c)'
    <2>1. CASE UNCHANGED sessionVars
      BY <1>1, <2>1 DEF sessionVars, NoSession
    <2>2. CASE Erase(c)
      BY <1>0, <2>2 DEF Erase, NoSession
    <2>3. CASE UNCHANGED <<kind, stream, sfile, written>>
      BY <1>1, <2>3 DEF NoSession
    <2> QED
      BY <1>2, <2>1, <2>2, <2>3
  <1>5. /\ OneDatagram(c)' /\ Requested(c)' /\ GetBlock(c)' /\ GetAcked(c)'
        /\ PutBlock(c)' /\ PutAcked(c)'
        => Dialogue(c)'
    BY <1>1, <1>3, <1>4, Handled
  <1>6. CASE Reply(c, Error("UnknownTransferId"))
    <2>1. down'[c] = {} \/ \E e \in ErrorCode : down'[c] = {Error(e)}
      BY <1>0, <1>3, <1>6, Replies DEF ErrorCode
    <2> QED
      BY <1>3, <1>5, <2>1, Silent
  <1>7. CASE UNCHANGED down
    BY <1>3, <1>5, <1>7, Silent
  <1>8. CASE /\ ~readComplete[c]
             /\ SendBlockOfData(c, d, spos[c])
             /\ UNCHANGED <<kind, stream, sfile, written>>
    <2>1. d \in Content
      <3>1. CASE stream[c] = "open"
        <4>1. disk[sfile[c]] \in Content
          BY <1>0, <3>1 DEF FileInv, TypeInv, StreamsOpen
        <4> QED
          BY <1>0, <3>1, <4>1, ChunkType
      <3> QED
        BY <3>1, ContentFacts
    <2>2. n \in Num
      BY <1>0, IncType DEF Num
    <2>3. /\ counter'[c] = n
          /\ spos'[c] = spos[c] + Len(d) /\ (readComplete'[c] <=> Short(d))
      BY <1>0, <1>8 DEF SendBlockOfData, Short
    <2>4. down'[c] \in {{}, {Data(n, d)}}
      BY <1>0, <1>3, <1>8, Replies DEF SendBlockOfData
    <2>5. CASE down'[c] = {}
      BY <1>3, <1>5, <2>5, Silent
    <2>6. CASE down'[c] = {Data(n, d)}
      <3>1. \A a \in down'[c] : a.op = "DATA" /\ a.num = n /\ a.data = d
        BY <2>1, <2>2, <2>6, Differ
      <3>2. OneDatagram(c)' /\ Requested(c)' /\ GetAcked(c)' /\ PutBlock(c)' /\ PutAcked(c)'
        BY <1>3, <2>6, <3>1 DEF OneDatagram, Requested, GetAcked, PutBlock, PutAcked
      <3>3. UNCHANGED <<pc, file, blockNo, out, promise, kind, stream, sfile, disk>>
        BY <1>1, <1>8 DEF clientVars
      <3>4. CASE pc[c] # "get"
        BY <1>5, <3>2, <3>3, <3>4 DEF GetBlock
      <3>5. CASE pc[c] = "get"
        <4> DEFINE t == disk[file[c]]
        <4>1. /\ m.num = blockNo[c] /\ t # NoFile /\ Prefix(out[c], t)
              /\ counter[c] = m.num /\ stream[c] = "open" /\ sfile[c] = file[c]
              /\ spos[c] = Len(out[c])
          BY <1>1, <1>2, <3>5 DEF GetAcked, ReadSession
        <4>2. out[c] \in Content /\ file[c] \in Name /\ t \in Content
          BY <1>0, <3>5, <4>1 DEF GetSoFar
        <4>3. d = Chunk(t, Len(out[c]))
          BY <4>1
        <4> HIDE DEF d, t
        <4>4. /\ Prefix(out[c] \o d, t) /\ Len(out[c] \o d) = spos[c] + Len(d)
              /\ Short(d) => out[c] \o d = t
          BY <4>1, <4>2, <4>3, ChunkNext
        <4>5. promise[c] # NoFile => t = promise[c]
          BY <3>5 DEF GetSoFar, Settled, t
        <4>6. n = Inc(blockNo[c])
          BY <4>1
        <4> HIDE DEF n
        <4>7. GetBlock(c)'
          BY <1>1, <2>3, <3>1, <3>3, <4>1, <4>4, <4>5, <4>6 DEF GetBlock, ReadSession, t
        <4> QED
          BY <1>5, <3>2, <4>7
      <3> QED
        BY <3>4, <3>5
    <2> QED
      BY <2>4, <2>5, <2>6
  <1> QED
    BY <1>2, <1>6, <1>7, <1>8

LEMMA WriteRequestDialogue ==
    ASSUME FileInv, [Next]_vars, NEW c \in Client, Dialogue(c), dups = 0, dups' = 0,
           WriteRequest(c)
    PROVE  Dialogue(c)'
  <1> USE DEF Dialogue
  <1>0. /\ TypeOK /\ kind \in [Client -> {"none", "Read", "Write"}]
        /\ stream \in [Client -> {"closed", "open", "failed"}]
        /\ sfile \in [Client -> Name \cup {EmptyName}]
        /\ written \in [Client -> Content]
    BY ServerTypes
  <1>1. /\ closing = NoClient /\ kind'[c] = "Write" /\ UNCHANGED clientVars
        /\ UNCHANGED <<counter, written, closing>>
    BY <1>0 DEF WriteRequest, Ready
  <1>2. PICK m \in up[c] :
        /\ m.op = "WRQ" /\ TakeUp(c, m)
        /\ \/ UNCHANGED <<stream, sfile, down>>
           \/ /\ \E e \in ErrorCode : Reply(c, Error(e))
              /\ UNCHANGED <<stream, sfile>>
           \/ /\ \/ /\ stream' = [stream EXCEPT ![c] = "open"]
                    /\ sfile' = [sfile EXCEPT ![c] = m.name]
                 \/ m.name \in Unopenable /\ UNCHANGED <<stream, sfile>>
                 \/ stream[c] # "closed"
              /\ Reply(c, Ack(counter[c]))
    BY DEF WriteRequest, ErrorCode
  <1>3. up[c] = {m} /\ up'[c] = {} /\ down[c] = {} /\ pc[c] # "idle"
    BY <1>0, <1>2, TakesUp DEF Fresh
  <1>4. /\ m.name = file[c] /\ file[c] \in Name /\ kind[c] = "none" /\ blockNo[c] = 0
        /\ pc[c] \in {"put", "failed"} /\ pos[c] = 0 /\ ~complete[c]
        /\ counter[c] = 0 /\ stream[c] = "closed" /\ written[c] = <<>>
    BY <1>2 DEF Requested, NoSession
  <1>5. \/ stream'[c] = "closed"
        \/ stream'[c] = "open" /\ sfile'[c] = file[c]
    BY <1>0, <1>2, <1>4
  <1>6. Prefix(written'[c], Source[c])
    BY <1>1, <1>4, Constants, PrefixFacts
  <1>7. NoSession(c)'
    BY <1>1 DEF NoSession
  <1>8. /\ OneDatagram(c)' /\ Requested(c)' /\ GetBlock(c)' /\ GetAcked(c)'
        /\ PutBlock(c)' /\ PutAcked(c)'
        => Dialogue(c)'
    BY <1>1, <1>3, <1>4, <1>5, <1>6, <1>7, Handled
  <1>9. CASE UNCHANGED down
    BY <1>3, <1>8, <1>9, Silent
  <1>10. CASE \E e \in ErrorCode : Reply(c, Error(e))
    <2>1. down'[c] = {} \/ \E e \in ErrorCode : down'[c] = {Error(e)}
      BY <1>0, <1>3, <1>10, Replies
    <2> QED
      BY <1>3, <1>8, <2>1, Silent
  <1>11. CASE /\ \/ /\ stream' = [stream EXCEPT ![c] = "open"]
                    /\ sfile' = [sfile EXCEPT ![c] = m.name]
                 \/ m.name \in Unopenable /\ UNCHANGED <<stream, sfile>>
                 \/ stream[c] # "closed"
              /\ Reply(c, Ack(counter[c]))
    <2>1. down'[c] \in {{}, {Ack(counter[c])}}
      BY <1>0, <1>3, <1>11, Replies
    <2>2. CASE down'[c] = {}
      BY <1>3, <1>8, <2>2, Silent
    <2>3. CASE down'[c] = {Ack(counter[c])}
      <3>1. \A a \in down'[c] : a.op = "ACK" /\ a.num = counter[c]
        BY <2>3, Differ, ServerTypes
      <3>2. OneDatagram(c)' /\ Requested(c)' /\ GetAcked(c)' /\ PutBlock(c)' /\ GetBlock(c)'
        BY <1>3, <2>3, <3>1 DEF OneDatagram, Requested, GetAcked, PutBlock, GetBlock
      <3>3. UNCHANGED <<pc, file, blockNo, pos, complete>>
        BY <1>1 DEF clientVars
      <3>4. Sent(c)' = <<>> /\ <<>> \o <<>> = <<>>
        BY <1>4, <3>3, SubSeqEmpty DEF Sent
      <3>5. WriteSession(c, <<>>, Sent(c))'
        BY <1>0, <1>1, <1>4, <1>11, <3>3, <3>4 DEF WriteSession
      <3>6. closing' # c
        BY <1>1, Constants
      <3>7. PutAcked(c)'
        BY <1>1, <1>4, <3>1, <3>3, <3>5, <3>6 DEF PutAcked
      <3> QED
        BY <1>8, <3>2, <3>7
    <2> QED
      BY <2>1, <2>2, <2>3
  <1> QED
    BY <1>2, <1>9, <1>10, <1>11

LEMMA WriteDataDialogue ==
    ASSUME FileInv, [Next]_vars, NEW c \in Client, Dialogue(c), dups = 0, dups' = 0,
           WriteData(c)
    PROVE  Dialogue(c)'
  <1> USE DEF Dialogue
  <1>0. /\ TypeOK /\ kind \in [Client -> {"none", "Read", "Write"}]
        /\ counter \in [Client -> Num] /\ written \in [Client -> Content]
    BY ServerTypes
  <1>1. /\ closing = NoClient /\ kind[c] = "Write" /\ UNCHANGED clientVars
        /\ counter'[c] = Inc(counter[c]) /\ UNCHANGED <<kind, stream, sfile>>
    BY <1>0 DEF WriteData, Ready
  <1>2. PICK m \in up[c] :
        /\ m.op = "DATA" /\ TakeUp(c, m)
        /\ \/ ~InOrder(m, Inc(counter[c]))
           \/ /\ \/ stream[c] = "open" /\ written' = [written EXCEPT ![c] = @ \o m.data]
                 \/ stream[c] # "open" /\ UNCHANGED written
              /\ \E sent \in IoResult :
                   /\ SendDown(c, Ack(m.num), sent)
                   /\ closing' = IF sent /\ Short(m.data) THEN c ELSE NoClient
    BY DEF WriteData
  <1>3. up[c] = {m} /\ up'[c] = {} /\ down[c] = {} /\ pc[c] # "idle"
    BY <1>0, <1>2, TakesUp DEF Fresh
  <1>4. /\ pc[c] \in {"put", "failed"} /\ m.num = blockNo[c]
        /\ (complete[c] <=> Short(m.data))
        /\ Inc(counter[c]) = m.num /\ WriteSession(c, m.data, Sent(c))
    BY <1>1, <1>2 DEF PutBlock
  <1>5. m.num \in Num /\ m.data \in Content
    BY <1>0, <1>2, Datagrams
  <1>6. PICK sent \in IoResult :
          /\ SendDown(c, Ack(m.num), sent)
          /\ closing' = IF sent /\ Short(m.data) THEN c ELSE NoClient
    BY <1>2, <1>4 DEF InOrder
  <1>7. /\ Sent(c) \in Content /\ Prefix(Sent(c), Source[c])
        /\ complete[c] => Sent(c) = Source[c]
    <2>1. /\ pos[c] \in Nat /\ pos[c] <= Len(Source[c]) /\ Source[c] \in Content
          /\ Len(Source[c]) \in Nat
      BY ClientTypes, Constants, ContentFacts DEF PutSoFar
    <2>2. Sent(c) \in Content /\ Len(Sent(c)) = pos[c]
      BY <2>1, PrefixType DEF Sent
    <2>3. Prefix(Sent(c), Source[c])
      BY <2>1, <2>2 DEF Prefix, Sent
    <2>4. complete[c] => Sent(c) = Source[c]
      BY <2>1, SubSeqFull DEF PutSoFar, Sent, Content
    <2> QED
      BY <2>2, <2>3, <2>4
  <1>8. \/ stream[c] = "open" /\ sfile[c] = file[c] /\ written'[c] = Sent(c)
        \/ stream[c] = "closed" /\ file[c] \in Unopenable
    BY <1>0, <1>2, <1>4 DEF WriteSession, InOrder
  <1>9. NoSession(c)'
    BY <1>1 DEF NoSession
  <1>10. /\ OneDatagram(c)' /\ Requested(c)' /\ GetBlock(c)' /\ GetAcked(c)'
         /\ PutBlock(c)' /\ PutAcked(c)'
         => Dialogue(c)'
    BY <1>1, <1>3, <1>4, <1>7, <1>8, <1>9, Handled
  <1>11. down'[c] = IF sent THEN {Ack(m.num)} ELSE {}
    BY <1>0, <1>3, <1>6 DEF SendDown, TypeOK
  <1>12. CASE ~sent
    BY <1>3, <1>10, <1>11, <1>12, Silent
  <1>13. CASE sent
    <2>1. /\ down'[c] = {Ack(m.num)}
          /\ \A a \in down'[c] : a.op = "ACK" /\ a.num = m.num
      BY <1>5, <1>11, <1>13, Differ
    <2>2. OneDatagram(c)' /\ Requested(c)' /\ GetAcked(c)' /\ PutBlock(c)' /\ GetBlock(c)'
      BY <1>3, <2>1 DEF OneDatagram, Requested, GetAcked, PutBlock, GetBlock
    <2>3. UNCHANGED <<pc, file, blockNo, pos, complete>>
      BY <1>1 DEF clientVars
    <2>4. complete[c] => IsStored(c)'
      BY <1>1, <1>4, <1>6, <1>7, <1>8, <1>13, <2>3 DEF IsStored
    <2>5. ~complete[c] => closing' # c
      BY <1>4, <1>6, Constants
    <2>6. WriteSession(c, <<>>, Sent(c))'
      <3>1. Sent(c) \o <<>> = Sent(c)
        BY <1>7, ConcatEmptySeq DEF Content
      <3>2. Sent(c)' = Sent(c)
        BY <2>3 DEF Sent
      <3> QED
        BY <1>1, <1>8, <2>3, <3>1, <3>2 DEF WriteSession
    <2>7. PutAcked(c)'
      BY <1>1, <1>4, <2>1, <2>3, <2>4, <2>5, <2>6 DEF PutAcked
    <2> QED
      BY <1>10, <2>2, <2>7
  <1> QED
    BY <1>12, <1>13

LEMMA CloseFileDialogue ==
    ASSUME FileInv, [Next]_vars, NEW c \in Client, Dialogue(c), CloseFile(c)
    PROVE  Dialogue(c)'
  <1> USE DEF Dialogue
  <1>0. /\ TypeOK /\ kind \in [Client -> {"none", "Read", "Write"}]
        /\ counter \in [Client -> Num] /\ stream \in [Client -> {"closed", "open", "failed"}]
        /\ sfile \in [Client -> Name \cup {EmptyName}] /\ spos \in [Client -> Nat]
        /\ readComplete \in [Client -> BOOLEAN] /\ written \in [Client -> Content]
        /\ disk \in [Name -> Content \cup {NoFile}]
    BY ServerTypes
  <1>1. /\ closing = c /\ c # NoClient /\ kind[c] = "Write"
    BY Constants DEF CloseFile, FileInv, ClosingWrites
  <1>2. /\ UNCHANGED <<pc, file, blockNo, out, pos, complete, promise, up, down>>
        /\ kind'[c] = "none" /\ counter'[c] = 0 /\ stream'[c] = "closed" /\ spos'[c] = 0
        /\ ~readComplete'[c] /\ written'[c] = <<>>
    BY <1>0 DEF CloseFile, Erase, clientVars
  <1>3. up[c] = {} /\ pc[c] # "idle"
    <2>1. \A m \in up[c] : m.op \in {"RRQ", "WRQ", "DATA", "ACK"}
      BY <1>0, Datagrams
    <2> QED
      BY <1>1, <2>1 DEF Requested, GetAcked, PutBlock, Fresh
  <1>4. NoSession(c)' /\ OneDatagram(c)' /\ Fresh(c)'
    BY <1>2, <1>3 DEF NoSession, OneDatagram, Fresh
  <1>5. Requested(c)' /\ GetAcked(c)' /\ PutBlock(c)'
    BY <1>2, <1>3 DEF Requested, GetAcked, PutBlock
  <1>6. GetBlock(c)'
    <2>1. \A m \in down[c] : m.op = "DATA" => pc[c] # "get"
      BY <1>1 DEF GetBlock
    <2> QED
      BY <1>2, <2>1 DEF GetBlock
  <1>7. GetSoFar(c)'
    BY <1>2, GetSoFarStays DEF SameClient
  <1>8. IsStored(c) /\ file[c] \in Name => IsStored(c)'
    <2>1. SUFFICES ASSUME IsStored(c), file[c] \in Name PROVE IsStored(c)'
      OBVIOUS
    <2>2. CASE file[c] \in Unopenable
      BY <1>2, <2>2 DEF IsStored
    <2>3. CASE Settled(file[c], Source[c])
      <3>1. \A f \in Name, s \in Content : Settled(f, s) => disk'[f] = s /\ Writers(f)' = {}
        BY SettledStays DEF Settled
      <3>2. disk'[file[c]] = Source[c] /\ Writers(file[c])' = {}
        BY <1>2, <2>1, <2>3, <3>1, Constants DEF Writers
      <3>3. Settled(file[c], Source[c])'
        BY <1>2, <3>2 DEF Settled
      <3> QED
        BY <3>3 DEF IsStored
    <2>4. CASE stream[c] = "open" /\ sfile[c] = file[c] /\ written[c] = Source[c]
      <3>1. disk'[file[c]] = Source[c]
        BY <1>0, <2>1, <2>4 DEF CloseFile
      <3>2. \A b \in Client : b # c => b \notin Writers(file[c])
        BY <1>1, <2>1, <2>4 DEF FileInv, OneWriter, Writers
      <3>3. \A b \in Client : b # c => SameSession(b)
        BY ServerEffect DEF ServerStep, Effect
      <3>4. Writers(file[c])' = {}
        BY <1>2, <3>2, <3>3 DEF Writers, SameSession
      <3>5. Settled(file[c], Source[c])'
        BY <1>2, <3>1, <3>4 DEF Settled
      <3> QED
        BY <3>5 DEF IsStored
    <2> QED
      BY <2>1, <2>2, <2>3, <2>4 DEF IsStored
  <1>9. PutSoFar(c)'
    BY <1>2, <1>8 DEF PutSoFar
  <1>10. PutAcked(c)'
    <2>1. \A m \in down[c] : m.op = "ACK" /\ pc[c] = "put" =>
             complete[c] /\ m.num = blockNo[c] /\ IsStored(c)'
      BY <1>1, <1>8 DEF PutAcked, PutSoFar
    <2> QED
      BY <1>2, <2>1 DEF PutAcked
  <1> QED
    BY <1>4, <1>5, <1>6, <1>7, <1>9, <1>10

LEMMA ServerDialogue ==
    ASSUME FileInv, [Next]_vars, NEW c \in Client, Dialogue(c), dups = 0, dups' = 0,
           ServerStep(c)
    PROVE  Dialogue(c)'
  <1>0. TypeOK /\ OneDatagram(c)
    BY DEF FileInv, TypeInv, Dialogue
  <1>1. CASE Ignore(c) \/ Stray(c)
    <2>1. PICK m \in up[c] : TakeUp(c, m)
      BY <1>1 DEF Ignore, Stray
    <2>2. up[c] = {m} /\ up'[c] = {} /\ down[c] = {} /\ pc[c] # "idle"
      BY <1>0, <2>1, TakesUp DEF Dialogue, Fresh
    <2>3. down'[c] = {} \/ \E e \in ErrorCode : down'[c] = {Error(e)}
      <3>1. CASE Ignore(c)
        BY <2>2, <3>1 DEF Ignore
      <3>2. CASE Stray(c)
        BY <1>0, <2>2, <3>2, Replies DEF Stray, ErrorCode
      <3> QED
        BY <1>1, <3>1, <3>2
    <2>4. closing = NoClient /\ UNCHANGED clientVars /\ UNCHANGED serverVars
      BY <1>1 DEF Ignore, Stray, Ready
    <2>5. NoSession(c)'
      BY <2>4 DEF Dialogue, NoSession, serverVars, sessionVars
    <2>6. kind'[c] = "Write" /\ stream'[c] # "closed" =>
            /\ stream'[c] = "open" /\ sfile'[c] = file[c]
            /\ pc[c] \in {"put", "stored", "failed"} /\ Prefix(written'[c], Source[c])
      BY <2>4 DEF Dialogue, PutSoFar, serverVars, sessionVars
    <2> QED
      BY <2>2, <2>3, <2>4, <2>5, <2>6, Handled, Silent
  <1> QED
    BY <1>1, ReadRequestDialogue, ReadAckDialogue, WriteRequestDialogue, WriteDataDialogue,
       CloseFileDialogue DEF ServerStep

(***************************************************************************)
(* The other clients and their sessions.                                   *)
(***************************************************************************)
LEMMA NetworkFrame ==
    ASSUME TypeOK, NEW c \in Client, NEW d \in Client, d # c, NEW m
    PROVE  /\ TakeUp(c, m) => up'[d] = up[d]
           /\ TakeDown(c, m) => down'[d] = down[d]
           /\ \A sent \in IoResult :
                /\ SendUp(c, m, sent) => up'[d] = up[d]
                /\ SendDown(c, m, sent) => down'[d] = down[d]
           /\ Reply(c, m) => down'[d] = down[d]
  BY DEF TakeUp, TakeDown, SendUp, SendDown, Reply, TypeOK

LEMMA ClientElsewhere ==
    ASSUME FileInv, NEW c \in Client, NEW d \in Client, d # c,
           Begin(c) \/ ClientStep(c) \/ Lose(c) \/ Reuse(c)
    PROVE  SameClient(d) /\ SameServer(d) /\ SameNetwork(d) /\ (closing' = d <=> closing = d)
  <1>0. TypeOK
    BY DEF FileInv, TypeInv
  <1>1. SameServer(d) /\ (closing' = d <=> closing = d)
    BY DEF SameServer, Begin, ClientStep, Lose, Reuse, GetFile, PutFile, GetError, GetData,
           GetOther, PutError, PutAck, PutOther, RecvFails, serverVars, sessionVars
  <1>2. SameNetwork(d)
    <2>1. CASE \E f \in Name : GetFile(c, f) \/ PutFile(c, f)
      BY <1>0, <2>1, NetworkFrame DEF GetFile, PutFile, SameNetwork
    <2>2. CASE GetData(c)
      BY <1>0, <2>2, NetworkFrame DEF GetData, SameNetwork
    <2>3. CASE PutAck(c)
      BY <1>0, <2>3, NetworkFrame DEF PutAck, SameNetwork
    <2>4. CASE GetError(c) \/ GetOther(c) \/ PutError(c) \/ PutOther(c)
      BY <1>0, <2>4, NetworkFrame DEF GetError, GetOther, PutError, PutOther, SameNetwork
    <2>5. CASE RecvFails(c) \/ Reuse(c)
      BY <2>5 DEF RecvFails, Reuse, SameNetwork
    <2>6. CASE Lose(c)
      BY <1>0, <2>6 DEF Lose, SameNetwork, TypeOK
    <2> QED
      BY <2>1, <2>2, <2>3, <2>4, <2>5, <2>6 DEF Begin, ClientStep
  <1>3. SameClient(d)
    <2>1. CASE \E f \in Name : GetFile(c, f) \/ PutFile(c, f)
      BY <2>1, ClientTypes, ZenonT(60) DEF GetFile, PutFile, SameClient, End
    <2>2. CASE GetData(c)
      BY <2>2, ClientTypes DEF GetData, AbandonGet, End, SameClient
    <2>3. CASE PutAck(c)
      BY <2>3, ClientTypes DEF PutAck, End, SameClient
    <2>4. CASE GetError(c) \/ GetOther(c) \/ PutError(c) \/ PutOther(c) \/ Lose(c)
      BY <2>4, ClientTypes DEF GetError, GetOther, PutError, PutOther, Lose, AbandonGet, End,
         clientVars, SameClient
    <2>5. CASE RecvFails(c) \/ Reuse(c)
      BY <2>5, ClientTypes DEF RecvFails, Reuse, End, SameClient
    <2> QED
      BY <2>1, <2>2, <2>3, <2>4, <2>5 DEF Begin, ClientStep
  <1> QED
    BY <1>1, <1>2, <1>3

LEMMA ServerElsewhere ==
    ASSUME FileInv, NEW c \in Client, NEW d \in Client, d # c, ServerStep(c)
    PROVE  SameClient(d) /\ SameServer(d) /\ SameNetwork(d) /\ (closing' = d <=> closing = d)
  <1>0. TypeOK
    BY DEF FileInv, TypeInv
  <1>1. SameClient(d)
    BY DEF SameClient, ServerStep, ReadRequest, ReadAck, WriteRequest, WriteData, CloseFile,
           Ignore, Stray, clientVars
  <1>2. SameNetwork(d)
    <2>1. CASE ReadRequest(c)
      BY <1>0, <2>1, NetworkFrame DEF ReadRequest, SendBlockOfData, OpenFails, SameNetwork
    <2>2. CASE ReadAck(c)
      BY <1>0, <2>2, NetworkFrame DEF ReadAck, SendBlockOfData, SameNetwork
    <2>3. CASE WriteRequest(c)
      BY <1>0, <2>3, NetworkFrame DEF WriteRequest, SameNetwork
    <2>4. CASE WriteData(c)
      BY <1>0, <2>4, NetworkFrame DEF WriteData, SameNetwork
    <2>5. CASE Ignore(c) \/ Stray(c) \/ CloseFile(c)
      BY <1>0, <2>5, NetworkFrame DEF Ignore, Stray, CloseFile, SameNetwork
    <2> QED
      BY <2>1, <2>2, <2>3, <2>4, <2>5 DEF ServerStep
  <1>3. SameServer(d)
    <2>1. CASE ReadRequest(c)
      BY <2>1, ServerTypes DEF ReadRequest, SendBlockOfData, OpenFails, SameServer
    <2>2. CASE ReadAck(c)
      BY <2>2, ServerTypes DEF ReadAck, SendBlockOfData, Erase, SameServer, sessionVars
    <2>3. CASE WriteRequest(c)
      BY <2>3, ServerTypes DEF WriteRequest, SameServer
    <2>4. CASE WriteData(c)
      BY <2>4, ServerTypes DEF WriteData, SameServer
    <2>5. CASE Ignore(c) \/ Stray(c) \/ CloseFile(c)
      BY <2>5, ServerTypes DEF Ignore, Stray, CloseFile, Erase, SameServer, serverVars, sessionVars
    <2> QED
      BY <2>1, <2>2, <2>3, <2>4, <2>5 DEF ServerStep
  <1>4. closing' = d <=> closing = d
    <2>1. CASE WriteData(c)
      <3>1. closing = NoClient /\ closing' \in {c, closing}
        BY <2>1 DEF WriteData, Ready
      <3> QED
        BY <3>1, Constants
    <2>2. CASE CloseFile(c)
      BY <2>2, Constants DEF CloseFile
    <2>3. CASE ReadRequest(c) \/ ReadAck(c) \/ WriteRequest(c) \/ Ignore(c) \/ Stray(c)
      BY <2>3 DEF ReadRequest, ReadAck, WriteRequest, Ignore, Stray, serverVars
    <2> QED
      BY <2>1, <2>2, <2>3 DEF ServerStep
  <1> QED
    BY <1>1, <1>2, <1>3, <1>4

LEMMA StopDialogue ==
    ASSUME FileInv, [Next]_vars, NEW c \in Client, Dialogue(c), Stop
    PROVE  Dialogue(c)'
  <1> USE DEF Dialogue
  <1>1. /\ closing = NoClient /\ closing' = NoClient
        /\ UNCHANGED <<pc, file, blockNo, out, pos, complete, promise, up, down>>
        /\ kind'[c] = "none" /\ counter'[c] = 0 /\ stream'[c] = "closed" /\ spos'[c] = 0
        /\ ~readComplete'[c] /\ written'[c] = <<>>
    BY DEF Stop, Ready, clientVars
  <1>2. NoSession(c)' /\ OneDatagram(c)' /\ Fresh(c)' /\ Requested(c)'
    BY <1>1 DEF NoSession, OneDatagram, Fresh, Requested
  <1>3. GetSoFar(c)'
    BY <1>1, GetSoFarStays DEF SameClient
  <1>4. GetBlock(c)'
    <2>1. ASSUME NEW m \in down[c], m.op = "DATA", pc[c] = "get"
          PROVE  disk'[file[c]] # NoFile /\ Prefix(out[c] \o m.data, disk'[file[c]])
      <3>1. /\ disk[file[c]] # NoFile /\ Prefix(out[c] \o m.data, disk[file[c]])
            /\ file[c] \in Name /\ out[c] \in Content
        BY <2>1 DEF GetBlock, GetSoFar
      <3>2. m.data \in Content
        BY <2>1, Datagrams DEF FileInv, TypeInv
      <3> QED
        BY <3>1, <3>2, ContentFacts, PrefixStays
    <2> QED
      BY <1>1, <2>1 DEF GetBlock
  <1>5. GetAcked(c)'
    <2>1. ASSUME NEW m \in up[c], m.op = "ACK", pc[c] = "get"
          PROVE  disk'[file[c]] # NoFile /\ Prefix(out[c], disk'[file[c]])
      BY <2>1, PrefixStays DEF GetAcked, GetSoFar
    <2> QED
      BY <1>1, <2>1 DEF GetAcked
  <1>6. PutBlock(c)'
    BY <1>1, Constants DEF PutBlock
  <1>7. PutAcked(c)'
    <2>1. ASSUME NEW m \in down[c], m.op = "ACK", pc[c] = "put", complete[c]
          PROVE  IsStored(c)'
      BY <1>1, <2>1, StoredStays DEF PutAcked, PutSoFar
    <2> QED
      BY <1>1, <2>1, Constants DEF PutAcked
  <1>8. PutSoFar(c)'
    <2>1. pc[c] = "stored" => IsStored(c)'
      BY <1>1, StoredStays DEF PutSoFar
    <2> QED
      BY <1>1, <2>1 DEF PutSoFar
  <1> QED
    BY <1>2, <1>3, <1>4, <1>5, <1>6, <1>7, <1>8

(***************************************************************************)
(* The theorems.                                                           *)
(***************************************************************************)
\* Neither a second delivery nor a change of owner can be undone.
LEMMA OnceDisturbed ==
    ASSUME TypeOK, [Next]_vars
    PROVE  (dups' = 0 => dups = 0) /\ (reuses' = 0 => reuses = 0)
  <1>0. dups \in Nat /\ reuses \in Nat
    BY DEF TypeOK
  <1>1. reuses' = reuses \/ reuses' = reuses + 1
    BY ZenonT(60) DEF Next, Begin, ClientStep, ServerStep, Lose, Reuse, GetFile, PutFile, GetError, GetData,
           GetOther, PutError, PutAck, PutOther, RecvFails, ReadRequest, ReadAck, WriteRequest,
           WriteData, CloseFile, Ignore, Stray, Stop, Start, vars
  <1>2. dups' = dups \/ dups' = dups + 1
    <2>1. CASE \E c \in Client : ClientStep(c)
      BY <2>1, ZenonT(60) DEF ClientStep, GetError, GetData, GetOther, PutError, PutAck, PutOther,
                  RecvFails, TakeDown
    <2>2. ASSUME NEW c \in Client, ServerStep(c) PROVE dups' = dups \/ dups' = dups + 1
      <3>1. CASE CloseFile(c)
        BY <3>1 DEF CloseFile
      <3>2. CASE \E m : TakeUp(c, m)
        BY <3>2 DEF TakeUp
      <3>3. CloseFile(c) \/ \E m : TakeUp(c, m)
        BY <2>2 DEF ServerStep, ReadRequest, ReadAck, WriteRequest, WriteData, Ignore, Stray
      <3> QED
        BY <3>1, <3>2, <3>3
    <2>3. CASE \/ \E c \in Client : Begin(c) \/ Lose(c) \/ Reuse(c)
               \/ Stop \/ Start \/ UNCHANGED vars
      BY <2>3 DEF Begin, Lose, Reuse, GetFile, PutFile, Stop, Start, vars
    <2> QED
      BY <2>1, <2>2, <2>3 DEF Next
  <1> QED
    BY <1>0, <1>1, <1>2

LEMMA TransferStep == TransferInv /\ [Next]_vars => TransferInv'
  <1> SUFFICES ASSUME TransferInv, [Next]_vars PROVE TransferInv'
    OBVIOUS
  <1>1. FileInv /\ FileInv' /\ TypeOK
    BY FileStep DEF TransferInv, FileInv, TypeInv
  <1>2. ASSUME Undisturbed', NEW d \in Client PROVE Dialogue(d)'
    <2>1. dups = 0 /\ dups' = 0 /\ reuses = 0 /\ reuses' = 0
      BY <1>1, <1>2, OnceDisturbed DEF Undisturbed
    <2>2. Dialogue(d)
      BY <1>2, <2>1 DEF TransferInv, Undisturbed
    <2>3. ASSUME NEW c \in Client, ServerStep(c) PROVE Dialogue(d)'
      <3>1. CASE c = d
        BY <1>1, <2>1, <2>2, <2>3, <3>1, ServerDialogue
      <3>2. CASE c # d
        BY <1>1, <2>2, <2>3, <3>2, ServerElsewhere, Elsewhere
      <3> QED
        BY <3>1, <3>2
    <2>4. ASSUME NEW c \in Client, Begin(c) \/ ClientStep(c) \/ Lose(c) \/ Reuse(c)
          PROVE  Dialogue(d)'
      <3>1. CASE c = d
        BY <1>1, <2>1, <2>2, <2>4, <3>1, ClientDialogue
      <3>2. CASE c # d
        BY <1>1, <2>2, <2>4, <3>2, ClientElsewhere, Elsewhere
      <3> QED
        BY <3>1, <3>2
    <2>5. CASE Stop
      BY <1>1, <2>2, <2>5, StopDialogue
    <2>6. CASE Start \/ UNCHANGED vars
      <3>1. SameClient(d) /\ SameServer(d) /\ SameNetwork(d) /\ closing' = closing
        BY <2>6 DEF Start, vars, clientVars, serverVars, sessionVars, SameClient, SameServer,
                    SameNetwork
      <3> QED
        BY <1>1, <2>2, <3>1, Elsewhere
    <2> QED
      BY <2>3, <2>4, <2>5, <2>6 DEF Next
  <1> QED
    BY <1>1, <1>2 DEF TransferInv

LEMMA TransferInit == Init => TransferInv
  <1> SUFFICES ASSUME Init, NEW c \in Client PROVE Dialogue(c)
    BY FileInit DEF TransferInv
  <1>1. /\ pc[c] = "idle" /\ kind[c] = "none" /\ counter[c] = 0 /\ stream[c] = "closed"
        /\ spos[c] = 0 /\ ~readComplete[c] /\ written[c] = <<>> /\ up[c] = {} /\ down[c] = {}
        /\ blockNo[c] = 0 /\ pos[c] = 0 /\ ~complete[c] /\ promise[c] = NoFile
    BY DEF Init
  <1>2. Len(Source[c]) \in Nat
    BY Constants, ContentFacts
  <1> QED
    BY <1>1, <1>2 DEF Dialogue, NoSession, OneDatagram, Fresh, Requested, GetBlock, GetAcked,
         GetSoFar, PutBlock, PutAcked, PutSoFar

\* As long as no datagram is delivered twice and no port changes hands, every
\* client and its session agree on the block between them, through losses,
\* failed sends and receives, other clients' transfers and restarts.
THEOREM TransferInvariant == Spec => []TransferInv
  BY TransferInit, TransferStep, PTL DEF Spec

\* A transfer is a strict dialogue: until a datagram is delivered twice or a
\* port changes hands, a client and its session never have two datagrams
\* between them, so nothing on the network can be overtaken.
THEOREM Dialogues == Spec => [](Undisturbed => StopAndWait)
  <1>1. TransferInv => (Undisturbed => StopAndWait)
    <2> SUFFICES ASSUME TransferInv, Undisturbed, NEW c \in Client
                 PROVE  Cardinality(up[c]) + Cardinality(down[c]) <= 1
      BY DEF StopAndWait
    <2>1. OneDatagram(c)
      BY DEF TransferInv, Dialogue
    <2>2. ASSUME NEW S, \A m, n \in S : m = n
          PROVE  Cardinality(S) \in {0, 1} /\ (S = {} => Cardinality(S) = 0)
      <3>1. CASE S = {}
        BY <3>1, FS_EmptySet
      <3>2. CASE S # {}
        <4>1. PICK m : m \in S
          BY <3>2
        <4>2. S = {m}
          BY <2>2, <4>1
        <4> QED
          BY <3>2, <4>2, FS_Singleton
      <3> QED
        BY <3>1, <3>2
    <2>3. /\ Cardinality(up[c]) \in {0, 1} /\ Cardinality(down[c]) \in {0, 1}
          /\ Cardinality(up[c]) = 0 \/ Cardinality(down[c]) = 0
      BY <2>1, <2>2 DEF OneDatagram
    <2> QED
      BY <2>3
  <1> QED
    BY <1>1, TransferInvariant, PTL

\* Whatever getFile has written is a beginning of the server's file, also when
\* the file is still being put, when the block numbers wrap and after a restart
\* in the middle of the transfer (tftp-client.cpp:232-279).
THEOREM GetsPrefix == Spec => [](Undisturbed => GetPrefix)
  <1>1. TransferInv => (Undisturbed => GetPrefix)
    BY DEF TransferInv, Dialogue, GetSoFar, GetPrefix
  <1> QED
    BY <1>1, TransferInvariant, PTL

\* A getFile that returns true holds every block of the file, in order and once
\* (tftp-client.cpp:207-286, tftp-server.cpp:257-418), if no datagram was
\* delivered twice.
THEOREM GetsWhole == Spec => [](dups = 0 => GetIntact)
  <1>1. TransferInv => (dups = 0 => GetIntact)
    BY DEF TransferInv, Undisturbed, Dialogue, GetSoFar, GetIntact
  <1> QED
    BY <1>1, TransferInvariant, PTL

\* A putFile that returns true has left its whole file on the server, the
\* buffered bytes of the last block included once the file is closed
\* (tftp-client.cpp:381-384, tftp-server.cpp:561-571), if no datagram was
\* delivered twice.
THEOREM PutsWhole == Spec => [](dups = 0 => PutIntact)
  <1>1. TransferInv => (dups = 0 => PutIntact)
    BY DEF TransferInv, Undisturbed, Dialogue, PutSoFar, IsStored, Settled, PutIntact
  <1> QED
    BY <1>1, TransferInvariant, PTL

\* On a network that may lose datagrams but delivers none twice, and with a
\* port for every client, all four hold without exception.
THEOREM LossyTransfers ==
    ASSUME MaxDup = 0, MaxReuse = 0
    PROVE  Spec => [](StopAndWait /\ GetPrefix /\ GetIntact /\ PutIntact)
  <1>1. TypeOK => Undisturbed /\ dups = 0
    BY DEF TypeOK, Undisturbed
  <1> QED
    BY <1>1, TypeCorrect, Dialogues, GetsPrefix, GetsWhole, PutsWhole, PTL

(***************************************************************************)
(* Tftp implements FileService: every step of the two programs is a step   *)
(* of the file service or leaves it alone.                                 *)
(***************************************************************************)

\* What the steps are shown under.
Quiet == TransferInv /\ Undisturbed

(***************************************************************************)
(* The file as the service sees it.                                        *)
(***************************************************************************)
LEMMA ContentIs ==
    ASSUME FileInv, NEW f \in Name
    PROVE  /\ closing = NoClient => ContentOf(f) = disk[f]
           /\ Writers(f) = {} => ContentOf(f) = disk[f]
           /\ \A c \in Client : closing = c /\ stream[c] # "closed" /\ sfile[c] = f =>
                ContentOf(f) = written[c] /\ Writers(f) # {}
           /\ disk[f] # NoFile =>
                /\ disk[f] \in Content /\ ContentOf(f) \in Content
                /\ Prefix(disk[f], ContentOf(f))
  <1>0. /\ written \in [Client -> Content] /\ disk \in [Name -> Content \cup {NoFile}]
        /\ ClosingWrites /\ Ahead
    BY DEF FileInv, TypeInv, TypeOK
  <1>1. closing = NoClient => ContentOf(f) = disk[f]
    BY DEF ContentOf
  <1>2. Writers(f) = {} => ContentOf(f) = disk[f]
    BY DEF ContentOf
  <1>3. ASSUME NEW c \in Client, closing = c, stream[c] # "closed", sfile[c] = f
        PROVE  ContentOf(f) = written[c] /\ Writers(f) # {}
    <2>1. c \in Writers(f) /\ c # NoClient
      BY <1>0, <1>3, Constants DEF Writers, ClosingWrites
    <2> QED
      BY <1>3, <2>1 DEF ContentOf
  <1>4. ASSUME disk[f] # NoFile
        PROVE  /\ disk[f] \in Content /\ ContentOf(f) \in Content
               /\ Prefix(disk[f], ContentOf(f))
    <2>1. disk[f] \in Content /\ Prefix(disk[f], disk[f])
      BY <1>0, <1>4, PrefixFacts
    <2>2. CASE closing # NoClient /\ closing \in Writers(f)
      <3>1. /\ closing \in Client /\ kind[closing] = "Write" /\ stream[closing] # "closed"
            /\ sfile[closing] = f
        BY <2>2 DEF Writers
      <3>2. Prefix(disk[f], written[closing]) /\ written[closing] \in Content
        BY <1>0, <3>1 DEF Ahead
      <3> QED
        BY <2>1, <2>2, <3>2 DEF ContentOf
    <2>3. CASE ~(closing # NoClient /\ closing \in Writers(f))
      BY <2>1, <2>3 DEF ContentOf
    <2> QED
      BY <2>2, <2>3
  <1> QED
    BY <1>1, <1>2, <1>3, <1>4

\* Steps of a client do not touch the store.
LEMMA StoreFrame ==
    ASSUME UNCHANGED <<kind, stream, sfile, written, disk, closing>>
    PROVE  /\ [f \in Name |-> ContentOf(f)]' = [f \in Name |-> ContentOf(f)]
           /\ {f \in Name : Writers(f) # {}}' = {f \in Name : Writers(f) # {}}
  BY DEF ContentOf, Writers

\* Steps of the server do not touch the clients.
LEMMA ClientsFrame ==
    ASSUME UNCHANGED clientVars
    PROVE  /\ UNCHANGED <<pc, file, promise>>
           /\ [c \in Client |-> IF pc[c] = "got" THEN out[c] ELSE NoFile]'
                = [c \in Client |-> IF pc[c] = "got" THEN out[c] ELSE NoFile]
  BY DEF clientVars

\* A client that neither ends with a copy nor had one.
LEMMA CopyFrame ==
    ASSUME FileInv, NEW c \in Client, \A d \in Client : d # c => SameClient(d),
           pc[c] # "got", pc'[c] # "got"
    PROVE  [d \in Client |-> IF pc[d] = "got" THEN out[d] ELSE NoFile]'
                = [d \in Client |-> IF pc[d] = "got" THEN out[d] ELSE NoFile]
  BY DEF SameClient

LEMMA FailsService ==
    ASSUME FileInv, NEW c \in Client, pc[c] \in {"get", "put"}, pc' = [pc EXCEPT ![c] = "failed"],
           \A d \in Client : d # c => SameClient(d), UNCHANGED <<file, promise>>,
           UNCHANGED <<kind, stream, sfile, written, disk, closing>>
    PROVE  Service!Fail(c)
  <1>1. pc'[c] = "failed"
    BY ClientTypes
  <1> QED
    BY <1>1, StoreFrame, CopyFrame DEF Service!Fail

LEMMA QuietService ==
    ASSUME FileInv, NEW c \in Client, pc' = pc, pc[c] # "got",
           \A d \in Client : d # c => SameClient(d), UNCHANGED <<file, promise>>,
           UNCHANGED <<kind, stream, sfile, written, disk, closing>>
    PROVE  UNCHANGED Service!vars
  BY StoreFrame, CopyFrame DEF Service!vars

(***************************************************************************)
(* The steps of a client.                                                  *)
(***************************************************************************)
LEMMA BeginService ==
    ASSUME Quiet, NEW c \in Client, NEW f \in Name, GetFile(c, f) \/ PutFile(c, f)
    PROVE  \E task \in {"get", "put"} : Service!Begin(c, f, task)
  <1>0. FileInv /\ promise \in [Client -> Content \cup {NoFile}] /\ Begin(c)
    BY DEF Quiet, TransferInv, FileInv, TypeInv, TypeOK, Begin
  <1>1. pc[c] = "idle" /\ promise[c] = NoFile
    BY DEF GetFile, PutFile, Quiet, TransferInv, Dialogue, Fresh
  <1>2. UNCHANGED <<kind, stream, sfile, written, disk, closing>>
    BY <1>0, ClientFrame
  <1>3. \A d \in Client : d # c => SameClient(d)
    BY <1>0, ClientElsewhere
  <1>4. CASE GetFile(c, f)
    <2>1. \E s \in {"get", "failed"} : pc' = [pc EXCEPT ![c] = s]
      BY <1>4 DEF GetFile, End
    <2>2. pc'[c] # "got"
      BY <1>0, <2>1, ClientTypes
    <2>3. f \notin {g \in Name : Writers(g) # {}} <=> Writers(f) = {}
      OBVIOUS
    <2>4. Writers(f) = {} => [g \in Name |-> ContentOf(g)][f] = disk[f]
      BY <1>0, ContentIs
    <2>5. promise' = [promise EXCEPT ![c] =
             IF "get" = "get" /\ f \notin {g \in Name : Writers(g) # {}}
             THEN [g \in Name |-> ContentOf(g)][f] ELSE NoFile]
      BY <1>4, <2>3, <2>4 DEF GetFile
    <2>6. Service!Begin(c, f, "get")
      BY <1>0, <1>1, <1>2, <1>3, <1>4, <2>1, <2>2, <2>5, StoreFrame, CopyFrame
         DEF Service!Begin, GetFile
    <2> QED
      BY <2>6
  <1>5. CASE PutFile(c, f)
    <2>1. \E s \in {"put", "failed"} : pc' = [pc EXCEPT ![c] = s]
      BY <1>5 DEF PutFile, End
    <2>2. pc'[c] # "got"
      BY <1>0, <2>1, ClientTypes
    <2>3. promise' = [promise EXCEPT ![c] = NoFile]
      BY <1>0, <1>1, <1>5 DEF PutFile
    <2>4. Service!Begin(c, f, "put")
      BY <1>0, <1>1, <1>2, <1>3, <1>5, <2>1, <2>2, <2>3, StoreFrame, CopyFrame
         DEF Service!Begin, PutFile
    <2> QED
      BY <2>4
  <1> QED
    BY <1>4, <1>5

\* getFile returns true: its last block completes a beginning of the file, the
\* whole file if nobody was writing it.
LEMMA GotService ==
    ASSUME Quiet, Quiet', NEW c \in Client, GetData(c), pc'[c] = "got"
    PROVE  Service!Got(c)
  <1>0. FileInv /\ TypeOK /\ ClientStep(c)
    BY DEF Quiet, TransferInv, FileInv, TypeInv, ClientStep
  <1>1. /\ pc[c] = "get" /\ UNCHANGED <<file, promise>>
        /\ pc' = [pc EXCEPT ![c] = "got"]
    BY <1>0, ClientTypes DEF GetData, End, AbandonGet
  <1>2. UNCHANGED <<kind, stream, sfile, written, disk, closing>>
    BY <1>0, ClientFrame
  <1>3. \A d \in Client : d # c => SameClient(d)
    BY <1>0, ClientElsewhere
  <1>4. /\ file[c] \in Name /\ out'[c] \in Content /\ disk[file[c]] # NoFile
        /\ promise[c] # NoFile => out'[c] = promise[c]
        /\ out'[c] # <<>> => Prefix(out'[c], disk[file[c]])
    BY <1>1, <1>2 DEF Quiet, TransferInv, Dialogue, GetSoFar
  <1> DEFINE C == ContentOf(file[c])
             k == Len(out'[c])
  <1>5. C \in Content /\ disk[file[c]] \in Content /\ Prefix(disk[file[c]], C)
    BY <1>0, <1>4, ContentIs
  <1>6. Prefix(out'[c], C)
    <2>1. CASE out'[c] = <<>>
      BY <1>5, <2>1, PrefixFacts
    <2>2. CASE out'[c] # <<>>
      BY <1>4, <1>5, <2>2, PrefixTrans
    <2> QED
      BY <2>1, <2>2
  <1>7. k \in 0 .. Len(C) /\ SubSeq(C, 1, k) = out'[c]
    BY <1>4, <1>5, <1>6, ContentFacts DEF Prefix
  <1>8. [f \in Name |-> ContentOf(f)][file[c]] = C
    BY <1>4
  <1>9. C # NoFile
    BY <1>5, ContentFacts
  <1>10. [d \in Client |-> IF pc[d] = "got" THEN out[d] ELSE NoFile]'
           = [[d \in Client |-> IF pc[d] = "got" THEN out[d] ELSE NoFile]
                EXCEPT ![c] = out'[c]]
    BY <1>1, <1>3 DEF SameClient
  <1> HIDE DEF C, k
  <1>11. \E j \in 0 .. Len(C) :
            /\ promise[c] \in {NoFile, SubSeq(C, 1, j)}
            /\ [d \in Client |-> IF pc[d] = "got" THEN out[d] ELSE NoFile]'
                 = [[d \in Client |-> IF pc[d] = "got" THEN out[d] ELSE NoFile]
                      EXCEPT ![c] = SubSeq(C, 1, j)]
    BY <1>4, <1>7, <1>10
  <1> QED
    BY <1>1, <1>2, <1>8, <1>9, <1>11, StoreFrame DEF Service!Got

\* putFile returns true: the store has the file.
LEMMA StoredService ==
    ASSUME Quiet, Quiet', NEW c \in Client, PutAck(c), pc'[c] = "stored"
    PROVE  Service!Stored(c)
  <1>0. FileInv /\ TypeOK /\ ClientStep(c)
    BY DEF Quiet, TransferInv, FileInv, TypeInv, ClientStep
  <1>1. /\ pc[c] = "put" /\ UNCHANGED <<file, promise>>
        /\ pc' = [pc EXCEPT ![c] = "stored"]
    BY <1>0, ClientTypes DEF PutAck, End
  <1>2. UNCHANGED <<kind, stream, sfile, written, disk, closing>>
    BY <1>0, ClientFrame
  <1>3. \A d \in Client : d # c => SameClient(d)
    BY <1>0, ClientElsewhere
  <1>4. file[c] \in Name /\ IsStored(c)
    BY <1>1, <1>2 DEF Quiet, TransferInv, Dialogue, PutSoFar, IsStored, Settled, Writers
  <1>5. file[c] \in Unopenable \/ ContentOf(file[c]) = Source[c]
    BY <1>0, <1>4, ContentIs DEF IsStored, Settled
  <1>6. \/ file[c] \in Unopenable \cup {EmptyName}
        \/ [f \in Name |-> ContentOf(f)][file[c]] = Source[c]
    BY <1>4, <1>5
  <1> QED
    BY <1>0, <1>1, <1>2, <1>3, <1>6, StoreFrame, CopyFrame DEF Service!Stored

LEMMA ClientService ==
    ASSUME Quiet, Quiet', NEW c \in Client, ClientStep(c) \/ Lose(c)
    PROVE  Service!Fail(c) \/ Service!Got(c) \/ Service!Stored(c) \/ UNCHANGED Service!vars
  <1>0. FileInv /\ pc \in [Client -> {"idle", "get", "put", "got", "stored", "failed"}]
    BY DEF Quiet, TransferInv, FileInv, TypeInv, TypeOK
  <1>1. UNCHANGED <<kind, stream, sfile, written, disk, closing>>
    BY ClientFrame
  <1>2. \A d \in Client : d # c => SameClient(d)
    BY <1>0, ClientElsewhere
  <1>3. CASE GetError(c) \/ PutError(c) \/ RecvFails(c)
    BY <1>0, <1>1, <1>2, <1>3, FailsService DEF GetError, PutError, RecvFails, AbandonGet, End
  <1>4. CASE GetOther(c) \/ PutOther(c)
    BY <1>0, <1>1, <1>2, <1>4, QuietService DEF GetOther, PutOther, clientVars
  <1>5. CASE Lose(c)
    BY <1>1, <1>5, StoreFrame, ClientsFrame DEF Lose, Service!vars
  <1>6. CASE GetData(c)
    <2>1. /\ pc[c] = "get" /\ UNCHANGED <<file, promise>>
          /\ \E r \in {"failed", "get", "got"} : pc' = [pc EXCEPT ![c] = r]
      BY <1>6 DEF GetData, AbandonGet, End
    <2>2. CASE pc' = [pc EXCEPT ![c] = "failed"]
      BY <1>0, <1>1, <1>2, <2>1, <2>2, FailsService
    <2>3. CASE pc' = [pc EXCEPT ![c] = "get"]
      BY <1>0, <1>1, <1>2, <2>1, <2>3, QuietService
    <2>4. CASE pc' = [pc EXCEPT ![c] = "got"]
      BY <1>0, <1>6, <2>4, GotService
    <2> QED
      BY <2>1, <2>2, <2>3, <2>4
  <1>7. CASE PutAck(c)
    <2>1. /\ pc[c] = "put" /\ UNCHANGED <<file, promise>>
          /\ \E r \in {"failed", "put", "stored"} : pc' = [pc EXCEPT ![c] = r]
      BY <1>7 DEF PutAck, End
    <2>2. CASE pc' = [pc EXCEPT ![c] = "failed"]
      BY <1>0, <1>1, <1>2, <2>1, <2>2, FailsService
    <2>3. CASE pc' = [pc EXCEPT ![c] = "put"]
      BY <1>0, <1>1, <1>2, <2>1, <2>3, QuietService
    <2>4. CASE pc' = [pc EXCEPT ![c] = "stored"]
      BY <1>0, <1>7, <2>4, StoredService
    <2> QED
      BY <2>1, <2>2, <2>3, <2>4
  <1> QED
    BY <1>3, <1>4, <1>5, <1>6, <1>7 DEF ClientStep

(***************************************************************************)
(* The steps of the server.                                                *)
(***************************************************************************)
\* A step that closes files or makes them longer.
LEMMA WriteService ==
    ASSUME UNCHANGED clientVars,
           \A f \in Name : Writers(f)' # {} => Writers(f) # {},
           \A f \in Name : ContentOf(f)' # ContentOf(f) =>
              /\ Writers(f) # {} /\ Prefix(ContentOf(f), ContentOf(f)')
              /\ \E c \in Client : file[c] = f /\ Prefix(ContentOf(f)', Source[c])
    PROVE  Service!Write
  <1> DEFINE Fs == [f \in Name |-> ContentOf(f)]
             Os == {f \in Name : Writers(f) # {}}
  <1>1. Os' \subseteq Os
    OBVIOUS
  <1>2. DOMAIN Fs' = Name
    OBVIOUS
  <1>3. \A f \in Name : Fs'[f] # Fs[f] =>
           /\ f \in Os /\ Prefix(Fs[f], Fs'[f])
           /\ \E c \in Client : file[c] = f /\ Prefix(Fs'[f], Source[c])
    OBVIOUS
  <1>4. \A s, t : Prefix(s, t) <=> Service!Beginning(s, t)
    BY DEF Prefix, Service!Beginning
  <1> HIDE DEF Fs, Os
  <1>5. \A f \in Name : Fs'[f] # Fs[f] =>
           /\ f \in Os /\ Service!Beginning(Fs[f], Fs'[f])
           /\ \E c \in Client : file[c] = f /\ Service!Beginning(Fs'[f], Source[c])
    BY <1>3, <1>4
  <1> QED
    BY <1>1, <1>2, <1>5, ClientsFrame DEF Service!Write, Fs, Os

LEMMA StoreQuiet ==
    ASSUME UNCHANGED clientVars, UNCHANGED disk, closing = NoClient, closing' = NoClient,
           \A f \in Name : Writers(f)' # {} => Writers(f) # {}
    PROVE  Service!Write
  BY WriteService DEF ContentOf

LEMMA ReadService ==
    ASSUME Quiet, NEW c \in Client, ReadRequest(c) \/ ReadAck(c) \/ Ignore(c) \/ Stray(c)
    PROVE  Service!Write
  <1>1. /\ UNCHANGED clientVars /\ UNCHANGED disk /\ closing = NoClient /\ closing' = NoClient
    BY DEF ReadRequest, ReadAck, Ignore, Stray, Ready, serverVars
  <1>2. FileInv
    BY DEF Quiet, TransferInv
  <1>3. \A d \in Client : d # c => SameSession(d)
    BY <1>2, ServerEffect DEF ServerStep, Effect
  <1>4. kind'[c] # "Write" \/ (SameSession(c) /\ kind[c] = "Write")
    <2>1. CASE ReadRequest(c)
      BY <1>2, <2>1, ServerTypes DEF ReadRequest
    <2>2. CASE ReadAck(c)
      BY <1>2, <2>2, ServerTypes DEF ReadAck, Erase, sessionVars
    <2>3. CASE Ignore(c) \/ Stray(c)
      BY <2>3 DEF Ignore, Stray, serverVars, sessionVars, SameSession
    <2> QED
      BY <2>1, <2>2, <2>3
  <1>5. \A f \in Name : Writers(f)' \subseteq Writers(f)
    BY <1>3, <1>4 DEF Writers, SameSession
  <1> QED
    BY <1>1, <1>5, StoreQuiet

\* WRQ creates a file for the client that asked, or changes nothing.
LEMMA WriteRequestService ==
    ASSUME Quiet, Quiet', NEW c \in Client, WriteRequest(c)
    PROVE  Service!Write \/ \E f \in Name : Service!Create(f)
  <1>0. /\ FileInv /\ FileInv' /\ TypeOK
        /\ kind \in [Client -> {"none", "Read", "Write"}]
        /\ stream \in [Client -> {"closed", "open", "failed"}]
        /\ sfile \in [Client -> Name \cup {EmptyName}]
        /\ disk \in [Name -> Content \cup {NoFile}]
    BY DEF Quiet, TransferInv, FileInv, TypeInv, TypeOK
  <1>1. PICK m \in up[c], fs \in FsStatus :
        /\ m.op = "WRQ"
        /\ \/ UNCHANGED <<stream, sfile, disk>>
           \/ /\ m.name # EmptyName /\ disk[m.name] = NoFile /\ m.name \notin Unopenable
              /\ stream' = [stream EXCEPT ![c] = "open"]
              /\ sfile' = [sfile EXCEPT ![c] = m.name]
              /\ disk' = [disk EXCEPT ![m.name] = <<>>]
           \/ stream[c] # "closed"
    BY DEF WriteRequest, MayCreate
  <1>2. /\ UNCHANGED clientVars /\ closing = NoClient /\ closing' = NoClient
        /\ kind' = [kind EXCEPT ![c] = "Write"]
    BY DEF WriteRequest, Ready
  <1>3. /\ m.name = file[c] /\ file[c] \in Name /\ kind[c] = "none" /\ stream[c] = "closed"
        /\ pc[c] \in {"put", "failed"}
    BY <1>1 DEF Quiet, TransferInv, Dialogue, Requested, NoSession
  <1>4. \A d \in Client : d # c => SameSession(d)
    BY <1>0, ServerEffect DEF ServerStep, Effect
  <1>5. CASE UNCHANGED <<stream, sfile, disk>>
    <2>1. \A f \in Name : Writers(f)' \subseteq Writers(f)
      BY <1>3, <1>4, <1>5 DEF Writers, SameSession
    <2> QED
      BY <1>2, <1>5, <2>1, StoreQuiet
  <1>6. CASE /\ m.name # EmptyName /\ disk[m.name] = NoFile /\ m.name \notin Unopenable
             /\ stream' = [stream EXCEPT ![c] = "open"]
             /\ sfile' = [sfile EXCEPT ![c] = m.name]
             /\ disk' = [disk EXCEPT ![m.name] = <<>>]
    <2> DEFINE f == file[c]
    <2>1. stream'[c] = "open" /\ sfile'[c] = f /\ kind'[c] = "Write"
      BY <1>0, <1>2, <1>3, <1>6
    <2>2. \A g \in Name : IF g = f THEN Writers(g)' # {} ELSE Writers(g)' = Writers(g)
      <3>1. ASSUME NEW g \in Name, g = f PROVE c \in Writers(g)'
        BY <2>1, <3>1 DEF Writers
      <3>2. ASSUME NEW g \in Name, g # f PROVE Writers(g)' = Writers(g)
        BY <1>3, <1>4, <2>1, <3>2 DEF Writers, SameSession
      <3> QED
        BY <3>1, <3>2
    <2>3. {g \in Name : Writers(g) # {}}' = {g \in Name : Writers(g) # {}} \cup {f}
      BY <1>3, <2>2
    <2>4. [g \in Name |-> ContentOf(g)] = disk /\ [g \in Name |-> ContentOf(g)]' = disk'
      <3>1. \A g \in Name : ContentOf(g) = disk[g] /\ ContentOf(g)' = disk'[g]
        BY <1>2 DEF ContentOf
      <3> QED
        BY <1>0, <1>6, <3>1
    <2>5. disk[f] = NoFile /\ disk' = [disk EXCEPT ![f] = <<>>] /\ f \notin Unopenable \cup {EmptyName}
      BY <1>3, <1>6
    <2>6. \E b \in Client : file[b] = f /\ pc[b] \in {"put", "failed"}
      BY <1>3
    <2> HIDE DEF f
    <2>7. Service!Create(f)
      BY <1>2, <2>3, <2>4, <2>5, <2>6, ClientsFrame DEF Service!Create
    <2> QED
      BY <1>3, <2>7 DEF f
  <1> QED
    BY <1>1, <1>3, <1>5, <1>6

\* DATA makes the file of its client longer; with the last block the bytes that
\* are still buffered count.
LEMMA WriteDataService ==
    ASSUME Quiet, Quiet', NEW c \in Client, WriteData(c)
    PROVE  Service!Write
  <1>0. FileInv /\ FileInv' /\ ServerStep(c)
    BY DEF Quiet, TransferInv, ServerStep
  <1>1. /\ UNCHANGED clientVars /\ closing = NoClient /\ closing' \in {c, NoClient}
        /\ kind[c] = "Write" /\ UNCHANGED <<kind, stream, sfile>>
    BY DEF WriteData, Ready
  <1>2. \A d \in Client : d # c => SameSession(d)
    BY <1>0, ServerEffect DEF Effect
  <1>3. \A f \in Name : Writers(f)' = Writers(f)
    BY <1>1 DEF Writers
  <1>4. CASE stream[c] = "closed"
    <2>1. UNCHANGED disk
      BY <1>4 DEF WriteData
    <2>2. \A f \in Name : ContentOf(f)' = ContentOf(f)
      BY <1>1, <1>4, <2>1, Constants DEF ContentOf, Writers
    <2> QED
      BY <1>1, <1>3, <2>2, WriteService
  <1>5. CASE stream[c] # "closed"
    <2>1. /\ sfile[c] = file[c] /\ file[c] \in Name /\ disk[file[c]] # NoFile
          /\ disk[file[c]] \in Content
      BY <1>0, <1>1, <1>5
         DEF Quiet, TransferInv, Dialogue, PutSoFar, FileInv, TypeInv, TypeOK, StreamsOpen
    <2>2. /\ written'[c] \in Content /\ Prefix(written'[c], Source[c]) /\ Source[c] \in Content
          /\ disk'[file[c]] \in Content /\ Prefix(disk'[file[c]], written'[c])
          /\ Prefix(disk[file[c]], disk'[file[c]])
      <3>1. /\ written'[c] \in Content /\ disk'[file[c]] \in Content \cup {NoFile}
            /\ Source[c] \in Content
        BY <1>0, <2>1, Constants DEF FileInv, TypeInv, TypeOK
      <3>2. disk'[file[c]] # NoFile /\ Prefix(disk[file[c]], disk'[file[c]])
        BY <1>0, <2>1, FileStep DEF FilesKept, Next
      <3>3. Prefix(written'[c], Source[c])
        BY <1>1, <1>5 DEF Quiet, TransferInv, Dialogue, PutSoFar
      <3>4. Prefix(disk'[file[c]], written'[c])
        BY <1>0, <1>1, <1>5, <2>1 DEF FileInv, Ahead
      <3> QED
        BY <3>1, <3>2, <3>3, <3>4
    <2>3. \A f \in Name : f # file[c] => disk'[f] = disk[f]
      BY <1>0, <2>1 DEF WriteData, Flush, FileInv, TypeInv, TypeOK
    <2>4. ASSUME NEW f \in Name, f # file[c] PROVE ContentOf(f)' = ContentOf(f)
      <3>1. c \notin Writers(f)'
        BY <1>1, <2>1, <2>4 DEF Writers
      <3> QED
        BY <1>1, <2>3, <2>4, <3>1 DEF ContentOf
    <2>5. ASSUME NEW f \in Name, f = file[c]
          PROVE  /\ Writers(f) # {} /\ Prefix(ContentOf(f), ContentOf(f)')
                 /\ Prefix(ContentOf(f)', Source[c])
      <3>1. c \in Writers(f)
        BY <1>1, <1>5, <2>1, <2>5 DEF Writers
      <3>2. ContentOf(f) = disk[f] /\ ContentOf(f)' \in {disk'[f], written'[c]}
        BY <1>1 DEF ContentOf
      <3>3. Prefix(disk[f], written'[c]) /\ Prefix(disk'[f], Source[c])
        BY <2>1, <2>2, <2>5, PrefixTrans
      <3> QED
        BY <2>2, <2>5, <3>1, <3>2, <3>3
    <2>6. \A f \in Name : ContentOf(f)' # ContentOf(f) =>
             /\ Writers(f) # {} /\ Prefix(ContentOf(f), ContentOf(f)')
             /\ \E d \in Client : file[d] = f /\ Prefix(ContentOf(f)', Source[d])
      BY <2>4, <2>5
    <2> QED
      BY <1>1, <1>3, <2>6, WriteService
  <1> QED
    BY <1>4, <1>5

\* The close changes no content: the bytes it flushes counted before.
LEMMA CloseService ==
    ASSUME Quiet, NEW c \in Client, CloseFile(c)
    PROVE  Service!Write
  <1>0. /\ FileInv /\ ServerStep(c) /\ stream \in [Client -> {"closed", "open", "failed"}]
        /\ disk \in [Name -> Content \cup {NoFile}]
    BY DEF Quiet, TransferInv, ServerStep, FileInv, TypeInv, TypeOK
  <1>1. /\ UNCHANGED clientVars /\ closing = c /\ closing' = NoClient /\ stream'[c] = "closed"
        /\ c # NoClient
    BY <1>0, Constants DEF CloseFile, Erase
  <1>2. \A d \in Client : d # c => SameSession(d)
    BY <1>0, ServerEffect DEF Effect
  <1>3. \A f \in Name : Writers(f)' \subseteq Writers(f)
    BY <1>1, <1>2 DEF Writers, SameSession
  <1>4. ASSUME NEW f \in Name PROVE ContentOf(f)' = ContentOf(f)
    <2>1. ContentOf(f)' = disk'[f]
      BY <1>1 DEF ContentOf
    <2>2. CASE stream[c] # "closed" /\ sfile[c] = f
      BY <1>0, <1>1, <2>1, <2>2, ContentIs DEF CloseFile
    <2>3. CASE ~(stream[c] # "closed" /\ sfile[c] = f)
      <3>1. c \notin Writers(f) /\ disk'[f] = disk[f]
        BY <1>0, <2>3 DEF Writers, CloseFile
      <3> QED
        BY <1>1, <2>1, <3>1 DEF ContentOf
    <2> QED
      BY <2>2, <2>3
  <1> QED
    BY <1>1, <1>3, <1>4, WriteService

\* A restart completes every open file with the bytes that were buffered.
LEMMA StopService ==
    ASSUME Quiet, Stop
    PROVE  Service!Write
  <1>0. FileInv
    BY DEF Quiet, TransferInv
  <1>1. /\ UNCHANGED clientVars /\ closing = NoClient /\ closing' = NoClient
        /\ stream' = [c \in Client |-> "closed"]
    BY DEF Stop, Ready
  <1>2. \A f \in Name : Writers(f)' = {}
    BY <1>1 DEF Writers
  <1>3. ASSUME NEW f \in Name, ContentOf(f)' # ContentOf(f)
        PROVE  /\ Writers(f) # {} /\ Prefix(ContentOf(f), ContentOf(f)')
               /\ \E c \in Client : file[c] = f /\ Prefix(ContentOf(f)', Source[c])
    <2>1. ContentOf(f) = disk[f] /\ ContentOf(f)' = disk'[f]
      BY <1>1 DEF ContentOf
    <2>2. disk'[f] = IF Writers(f) = {} THEN disk[f] ELSE written[CHOOSE c \in Writers(f) : TRUE]
      BY DEF Stop
    <2> DEFINE w == CHOOSE c \in Writers(f) : TRUE
    <2>3. Writers(f) # {} /\ w \in Writers(f) /\ disk'[f] = written[w]
      BY <1>3, <2>1, <2>2
    <2> HIDE DEF w
    <2>4. w \in Client /\ kind[w] = "Write" /\ stream[w] # "closed" /\ sfile[w] = f
      BY <2>3 DEF Writers
    <2>5. Prefix(disk[f], written[w])
      BY <1>0, <2>4 DEF FileInv, Ahead
    <2>6. file[w] = f /\ Prefix(written[w], Source[w])
      BY <2>4 DEF Quiet, TransferInv, Dialogue, PutSoFar
    <2> QED
      BY <2>1, <2>3, <2>4, <2>5, <2>6
  <1> QED
    BY <1>1, <1>2, <1>3, WriteService

(***************************************************************************)
(* The theorem.                                                            *)
(***************************************************************************)
LEMMA ServiceInit == Init => Service!Init
  <1> SUFFICES ASSUME Init PROVE Service!Init
    OBVIOUS
  <1>1. \A f \in Name : Writers(f) = {} /\ ContentOf(f) = Disk0[f]
    BY DEF Init, Writers, ContentOf
  <1>2. [f \in Name |-> ContentOf(f)] = Disk0 /\ {f \in Name : Writers(f) # {}} = {}
    BY <1>1, FileInit DEF Init, FileInv, TypeInv, TypeOK
  <1>3. [c \in Client |-> IF pc[c] = "got" THEN out[c] ELSE NoFile] = [c \in Client |-> NoFile]
    BY DEF Init
  <1> QED
    BY <1>2, <1>3 DEF Init, Service!Init

LEMMA ServiceStep ==
    ASSUME Quiet, Quiet', [Next]_vars
    PROVE  [Service!Next]_(Service!vars)
  <1>1. ASSUME NEW c \in Client, Begin(c) PROVE Service!Next
    <2>1. PICK f \in Name : GetFile(c, f) \/ PutFile(c, f)
      BY <1>1 DEF Begin
    <2> QED
      BY <2>1, BeginService DEF Service!Next
  <1>2. ASSUME NEW c \in Client, ClientStep(c) \/ Lose(c)
        PROVE  Service!Next \/ UNCHANGED Service!vars
    BY <1>2, ClientService DEF Service!Next
  <1>3. ASSUME NEW c \in Client, ServerStep(c) PROVE Service!Next
    BY <1>3, ReadService, WriteRequestService, WriteDataService, CloseService
       DEF ServerStep, Service!Next
  <1>4. ASSUME NEW c \in Client, Reuse(c) PROVE FALSE
    BY <1>4 DEF Quiet, Undisturbed, Reuse
  <1>5. CASE Stop
    BY <1>5, StopService DEF Service!Next
  <1>6. CASE Start \/ UNCHANGED vars
    <2>1. UNCHANGED <<kind, stream, sfile, written, disk, closing>> /\ UNCHANGED clientVars
      BY <1>6 DEF Start, vars, serverVars, sessionVars
    <2> QED
      BY <2>1, StoreFrame, ClientsFrame DEF Service!vars
  <1> QED
    BY <1>1, <1>2, <1>3, <1>4, <1>5, <1>6 DEF Next

\* On a network that may lose datagrams but delivers none twice, and with a port
\* for every client, the client and server programs implement the file service:
\* whatever they do with blocks, acknowledgements, sessions, buffers, failed
\* sends and restarts, a reader of the service sees files that are created
\* once, only grow towards what one client puts and are copied whole.
THEOREM Refinement ==
    ASSUME MaxDup = 0, MaxReuse = 0
    PROVE  Spec => ImplementsFileService
  <1>1. TransferInv => Quiet
    BY DEF Quiet, Undisturbed, TransferInv, FileInv, TypeInv, TypeOK
  <1>2. Quiet /\ Quiet' /\ [Next]_vars => [Service!Next]_(Service!vars)
    BY ServiceStep
  <1> QED
    BY <1>1, <1>2, ServiceInit, TransferInvariant, PTL DEF Spec, ImplementsFileService, Service!Spec

=============================================================================
