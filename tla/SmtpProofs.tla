----------------------------- MODULE SmtpProofs -----------------------------
(***************************************************************************)
(* Theorems about module Smtp, for any number of sessions, recipients and  *)
(* pieces of text, and any set of mailboxes.                               *)
(***************************************************************************)
EXTENDS Smtp, TLAPS

\* What a session knows of its message: while the stream is open the message
\* file holds exactly the text read so far, and once the stream is closed the
\* file that _messagePath names has been removed.
MessageKept(s) ==
    /\ typed[s] \in Mail /\ Len(typed[s]) <= MaxText
    /\ ~receiveMessage[s] => typed[s] = <<>>
    /\ stream[s] = "open" => path[s] /\ message[s] = typed[s]
    /\ path[s] /\ stream[s] # "open" => stream[s] = "closed" /\ message[s] = NoFile
    /\ receiveMessage[s] /\ stream[s] = "open" => code[s] = 354

Commands(s) ==
    /\ lastCommand[s] = "Data" <=> receiveMessage[s]
    /\ Len(rcpts[s]) <= MaxRcpt

\* How far an orderly dialogue has come, and what it has brought about.
Orderly(s) ==
    /\ s > nextId => phase[s] = "none" /\ dialog[s] = "start"
    /\ dialog[s] \in {"HELO", "MAIL", "RCPT", "DATA"} => stream[s] = "open"
    /\ dialog[s] = "DOT" => receiveMessage[s] /\ code[s] = 250
    /\ restarts = 0 /\ dialog[s] \notin {"DOT", "broken"} =>
          \A m \in Mailbox : mailbox[m][s] = NoFile
    /\ restarts = 0 /\ dialog[s] = "DOT" =>
          \A m \in Range(rcpts[s]) \cap Mailbox : mailbox[m][s] = typed[s]

HistoryOK ==
    /\ typed \in [Id -> Mail]
    /\ dialog \in [Id -> {"start", "HELO", "MAIL", "RCPT", "DATA", "DOT", "broken"}]
    /\ DOMAIN lastRead = Id

SmtpInv ==
    /\ TypeOK /\ HistoryOK
    /\ \A s \in Id : MessageKept(s) /\ Commands(s) /\ Orderly(s)

(***************************************************************************)
(* Mails, replies, and the progress of a dialogue.                         *)
(***************************************************************************)
Phase == {"none", "write", "read", "idle", "closed"}
Code == {0, 220, 221, 250, 354, 451, 500, 501, 502, 503, 523, 551}
Last == {"Undefined", "Helo", "MailFrom", "Data", "Rset"}
Progress == {"start", "HELO", "MAIL", "RCPT", "DATA", "DOT", "broken"}

LEMMA Constants ==
    /\ MaxSession \in Nat /\ MaxText \in Nat /\ MaxRestart \in Nat /\ MaxRcpt \in Nat \ {0}
    /\ Mailbox \subseteq Local /\ Local \subseteq Address /\ NoAddress \notin Address
    /\ IoResult \subseteq BOOLEAN /\ NoFile \notin Seq(Nat \X Nat)
    /\ Id \subseteq Nat
  BY SmtpAssumption DEF Id

\* TypeOK and HistoryOK, conjunct by conjunct.
LEMMA Types ==
    ASSUME TypeOK, HistoryOK
    PROVE
        /\ nextId \in 0 .. MaxSession /\ restarts \in 0 .. MaxRestart
        /\ phase \in [Id -> Phase] /\ code \in [Id -> Code]
        /\ receiveMessage \in [Id -> BOOLEAN] /\ lastCommand \in [Id -> Last]
        /\ rcpts \in [Id -> Seq(Local)] /\ path \in [Id -> BOOLEAN]
        /\ stream \in [Id -> {"closed", "open", "failed"}]
        /\ message \in [Id -> Mail \cup {NoFile}]
        /\ mailbox \in [Mailbox -> [Id -> Mail \cup {NoFile}]]
        /\ typed \in [Id -> Mail] /\ dialog \in [Id -> Progress] /\ DOMAIN lastRead = Id
  BY DEF TypeOK, HistoryOK, Phase, Code, Last, Progress

LEMMA MailFacts ==
    /\ <<>> \in Mail /\ Len(<<>>) = 0 /\ \A t \in Mail : Len(t) \in Nat
    /\ NoFile \notin Mail
    /\ \A s \in Id, t \in Mail : Len(t) < MaxText =>
          /\ Append(t, Piece(s, Len(t) + 1)) \in Mail
          /\ Len(Append(t, Piece(s, Len(t) + 1))) = Len(t) + 1
  <1>1. MaxText \in Nat /\ NoFile \notin Seq(Nat \X Nat)
    BY SmtpAssumption
  <1>2. /\ <<>> \in Mail /\ Len(<<>>) = 0 /\ \A t \in Mail : Len(t) \in Nat
    BY DEF Mail
  <1>3. ASSUME NEW t \in Mail PROVE t \in Seq(Nat \X Nat)
    <2>1. Id \X (1 .. MaxText) \subseteq Nat \X Nat
      BY <1>1 DEF Id
    <2>2. t \in [1 .. Len(t) -> Nat \X Nat]
      BY <1>3, <2>1 DEF Mail
    <2> QED
      BY <1>2, <1>3, <2>2
  <1>4. ASSUME NEW s \in Id, NEW t \in Mail, Len(t) < MaxText
        PROVE  /\ Append(t, Piece(s, Len(t) + 1)) \in Mail
               /\ Len(Append(t, Piece(s, Len(t) + 1))) = Len(t) + 1
    <2>1. Piece(s, Len(t) + 1) \in Id \X (1 .. MaxText)
      BY <1>1, <1>2, <1>4 DEF Piece
    <2> QED
      BY <2>1 DEF Mail
  <1> QED
    BY <1>1, <1>2, <1>3, <1>4

LEMMA NoteFacts ==
    ASSUME dialog \in [Id -> Progress], NEW s \in Id,
           NEW w \in {"HELO", "MAIL", "RCPT", "DATA", "DOT", "RSET", "HELO451"}, Note(s, w)
    PROVE  /\ dialog' \in [Id -> Progress]
           /\ \A d \in Id \ {s} : dialog'[d] = dialog[d]
           /\ \/ dialog'[s] = "broken"
              \/ /\ dialog'[s] = w
                 /\ <<dialog[s], w>> \in {<<"start", "HELO">>, <<"HELO", "MAIL">>,
                       <<"MAIL", "RCPT">>, <<"RCPT", "RCPT">>, <<"RCPT", "DATA">>, <<"DATA", "DOT">>}
  <1>1. CASE <<dialog[s], w>> \in {<<"start", "HELO">>, <<"HELO", "MAIL">>, <<"MAIL", "RCPT">>,
                <<"RCPT", "RCPT">>, <<"RCPT", "DATA">>, <<"DATA", "DOT">>}
    <2>1. dialog' = [dialog EXCEPT ![s] = w] /\ w \in Progress
      BY <1>1 DEF Note, Progress
    <2> QED
      BY <1>1, <2>1
  <1>2. CASE <<dialog[s], w>> \notin {<<"start", "HELO">>, <<"HELO", "MAIL">>, <<"MAIL", "RCPT">>,
                <<"RCPT", "RCPT">>, <<"RCPT", "DATA">>, <<"DATA", "DOT">>}
    <2>1. dialog' = [dialog EXCEPT ![s] = "broken"]
      BY <1>2 DEF Note
    <2> QED
      BY <2>1 DEF Progress
  <1> QED
    BY <1>1, <1>2

LEMMA RespondFacts ==
    ASSUME TypeOK, NEW s \in Id, NEW n \in Code, Respond(s, n)
    PROVE  /\ phase' \in [Id -> Phase]
           /\ code' \in [Id -> Code]
           /\ phase'[s] = "write" /\ code'[s] = n
           /\ \A d \in Id \ {s} : phase'[d] = phase[d] /\ code'[d] = code[d]
  <1>1. phase \in [Id -> Phase]
    BY DEF TypeOK, Phase
  <1>a. code \in [Id -> Code]
    <2>1. code \in [Id -> {0, 220, 221, 250, 354, 451, 500, 501, 502, 503, 523, 551}]
      BY DEF TypeOK
    <2> QED BY <2>1 DEF Code
  <1>2. phase' = [phase EXCEPT ![s] = "write"] /\ code' = [code EXCEPT ![s] = n]
    BY DEF Respond
  <1>3. "write" \in Phase
    BY DEF Phase
  <1> QED
    BY <1>1, <1>a, <1>2, <1>3

(***************************************************************************)
(* A step concerns one session.                                            *)
(***************************************************************************)
SameAt(d) ==
    /\ phase'[d] = phase[d] /\ code'[d] = code[d] /\ receiveMessage'[d] = receiveMessage[d]
    /\ lastCommand'[d] = lastCommand[d] /\ rcpts'[d] = rcpts[d] /\ path'[d] = path[d]
    /\ stream'[d] = stream[d] /\ message'[d] = message[d] /\ typed'[d] = typed[d]
    /\ dialog'[d] = dialog[d] /\ \A m \in Mailbox : mailbox'[m][d] = mailbox[m][d]

LEMMA OneSession ==
    ASSUME SmtpInv, NEW s \in Id, TypeOK', HistoryOK', nextId' \in {nextId, nextId + 1},
           restarts' = restarts, \A d \in Id \ {s} : SameAt(d),
           MessageKept(s)', Commands(s)', Orderly(s)'
    PROVE  SmtpInv'
  <1>1. nextId \in Nat /\ Id \subseteq Nat
    BY SmtpAssumption DEF SmtpInv, TypeOK, Id
  <1>2. ASSUME NEW d \in Id \ {s} PROVE MessageKept(d)' /\ Commands(d)'
    BY <1>2 DEF SmtpInv, SameAt, MessageKept, Commands
  <1>3. ASSUME NEW d \in Id \ {s} PROVE Orderly(d)'
    <2>1. d > nextId' => d > nextId
      BY <1>1
    <2> QED
      BY <1>3, <2>1 DEF SmtpInv, SameAt, Orderly
  <1> QED
    BY <1>2, <1>3 DEF SmtpInv

\* A session that has just been accepted, or none yet.
LEMMA NewSession ==
    ASSUME NEW s \in Id, typed'[s] = <<>>, ~receiveMessage'[s], stream'[s] = "closed", ~path'[s],
           lastCommand'[s] = "Undefined", rcpts'[s] = <<>>, dialog'[s] = "start",
           s > nextId' => phase'[s] = "none",
           restarts' = 0 => \A m \in Mailbox : mailbox'[m][s] = NoFile
    PROVE  MessageKept(s)' /\ Commands(s)' /\ Orderly(s)'
  <1>1. MaxText \in Nat /\ MaxRcpt \in Nat
    BY SmtpAssumption
  <1> QED
    BY <1>1, MailFacts DEF MessageKept, Commands, Orderly

LEMMA SmtpInit == Init => SmtpInv
  <1> SUFFICES ASSUME Init PROVE SmtpInv
    OBVIOUS
  <1>1. TypeOK /\ HistoryOK
    BY SmtpAssumption, MailFacts DEF Init, TypeOK, HistoryOK
  <1>2. ASSUME NEW s \in Id PROVE MessageKept(s) /\ Commands(s) /\ Orderly(s)
    BY SmtpAssumption, MailFacts DEF Init, MessageKept, Commands, Orderly
  <1> QED
    BY <1>1, <1>2 DEF SmtpInv

LEMMA AcceptInv == ASSUME SmtpInv, Accept PROVE SmtpInv'
  <1>0. TypeOK /\ HistoryOK /\ nextId \in Nat /\ MaxSession \in Nat
    BY Constants DEF SmtpInv, TypeOK
  <1>1. PICK s \in Id : s = nextId + 1 /\ nextId' \in 0 .. MaxSession /\ nextId' = s
    BY <1>0 DEF Accept, Id
  <1>2. Fresh(s) /\ Respond(s, 220) /\ UNCHANGED <<message, mailbox, restarts>>
    BY <1>1 DEF Accept, diskVars
  <1>3. /\ phase' \in [Id -> Phase] /\ code' \in [Id -> Code]
        /\ \A d \in Id \ {s} : phase'[d] = phase[d] /\ code'[d] = code[d]
    BY <1>0, <1>1, <1>2, RespondFacts DEF Code
  <1>4. TypeOK' /\ HistoryOK'
    <2>1. /\ receiveMessage' \in [Id -> BOOLEAN] /\ lastCommand' \in [Id -> Last]
          /\ rcpts' \in [Id -> Seq(Local)] /\ path' \in [Id -> BOOLEAN]
          /\ stream' \in [Id -> {"closed", "open", "failed"}] /\ typed' \in [Id -> Mail]
          /\ dialog' \in [Id -> Progress] /\ DOMAIN lastRead' = Id
      BY <1>0, <1>1, <1>2, Types, MailFacts DEF Fresh, Last, Progress
    <2>2. restarts' \in 0 .. MaxRestart /\ message' \in [Id -> Mail \cup {NoFile}]
          /\ mailbox' \in [Mailbox -> [Id -> Mail \cup {NoFile}]]
      BY <1>0, <1>2, Types
    <2> QED
      BY <1>1, <1>3, <2>1, <2>2 DEF TypeOK, HistoryOK, Phase, Code, Last, Progress
  <1>5. /\ typed'[s] = <<>> /\ ~receiveMessage'[s] /\ stream'[s] = "closed" /\ ~path'[s]
        /\ lastCommand'[s] = "Undefined" /\ rcpts'[s] = <<>> /\ dialog'[s] = "start"
    BY <1>0, <1>1, <1>2 DEF Fresh, TypeOK, HistoryOK
  <1>6. restarts = 0 => \A m \in Mailbox : mailbox[m][s] = NoFile
    BY <1>0, <1>1 DEF SmtpInv, Orderly
  <1>7. MessageKept(s)' /\ Commands(s)' /\ Orderly(s)'
    <2>1. ~(s > nextId')
      BY <1>0, <1>1 DEF Id
    <2>2. restarts' = 0 => \A m \in Mailbox : mailbox'[m][s] = NoFile
      BY <1>2, <1>6
    <2> QED
      BY <1>5, <2>1, <2>2, NewSession
  <1>8. \A d \in Id \ {s} : SameAt(d)
    BY <1>0, <1>1, <1>2, <1>3 DEF SameAt, Fresh, TypeOK, HistoryOK
  <1>9. nextId' = nextId + 1
    BY DEF Accept
  <1> QED
    BY <1>1, <1>2, <1>4, <1>7, <1>8, <1>9, OneSession

LEMMA RestartInv == ASSUME SmtpInv, Restart PROVE SmtpInv'
  <1>0. TypeOK /\ restarts \in Nat /\ MaxSession \in Nat /\ MaxRestart \in Nat
    BY SmtpAssumption DEF SmtpInv, TypeOK
  <1>1. restarts' # 0 /\ restarts' \in 0 .. MaxRestart
    BY <1>0 DEF Restart, TypeOK
  <1>2. TypeOK' /\ HistoryOK'
    BY <1>0, <1>1, MailFacts DEF Restart, TypeOK, HistoryOK, diskVars
  <1>3. ASSUME NEW s \in Id PROVE MessageKept(s)' /\ Commands(s)' /\ Orderly(s)'
    BY <1>1, NewSession DEF Restart
  <1> QED
    BY <1>2, <1>3 DEF SmtpInv

\* The end of a write, or of a session.
LEMMA PhaseInv == ASSUME SmtpInv, NEW s \in Id, WriteDone(s) \/ Drop(s) PROVE SmtpInv'
  <1>0. TypeOK /\ HistoryOK /\ phase[s] \in {"read", "write"}
    BY DEF SmtpInv, WriteDone, Drop
  <1>1. /\ UNCHANGED <<nextId, code, receiveMessage, lastCommand, rcpts, path, stream, message,
                       mailbox, restarts, lastRead, typed, dialog>>
        /\ phase' \in [Id -> Phase] /\ \A d \in Id \ {s} : phase'[d] = phase[d]
    <2>1. PICK p \in Phase : phase' = [phase EXCEPT ![s] = p]
      BY DEF WriteDone, Drop, Phase
    <2>2. phase' \in [Id -> Phase] /\ \A d \in Id \ {s} : phase'[d] = phase[d]
      BY <1>0, <2>1, Types
    <2> QED
      BY <2>2 DEF WriteDone, Drop, sessionVars, diskVars, history
  <1>2. TypeOK' /\ HistoryOK'
    BY <1>0, <1>1 DEF TypeOK, HistoryOK, Phase
  <1>3. MessageKept(s)' /\ Commands(s)' /\ Orderly(s)'
    BY <1>0, <1>1 DEF SmtpInv, MessageKept, Commands, Orderly
  <1>4. \A d \in Id \ {s} : SameAt(d)
    BY <1>1 DEF SameAt
  <1> QED
    BY <1>1, <1>2, <1>3, <1>4, OneSession

(***************************************************************************)
(* Commands.                                                               *)
(***************************************************************************)
Commanded(s) ==
    /\ SmtpInv /\ phase[s] = "read" /\ ~receiveMessage[s]
    /\ UNCHANGED <<nextId, restarts, lastRead>>

LEMMA OnlyRespondInv ==
    ASSUME NEW s \in Id, Commanded(s), NEW n \in Code, OnlyRespond(s, n)
    PROVE  SmtpInv'
  <1>0. TypeOK /\ HistoryOK
    BY DEF Commanded, SmtpInv
  <1>1. /\ phase' \in [Id -> Phase] /\ code' \in [Id -> Code]
        /\ \A d \in Id \ {s} : phase'[d] = phase[d] /\ code'[d] = code[d]
        /\ UNCHANGED <<receiveMessage, lastCommand, rcpts, path, stream, message, mailbox, typed,
                       dialog, nextId, restarts, lastRead>>
    BY <1>0, RespondFacts DEF OnlyRespond, Commanded, sessionVars, diskVars
  <1>2. TypeOK' /\ HistoryOK'
    BY <1>0, <1>1 DEF TypeOK, HistoryOK, Phase, Code
  <1>3. MessageKept(s)' /\ Commands(s)' /\ Orderly(s)'
    BY <1>1 DEF Commanded, SmtpInv, MessageKept, Commands, Orderly
  <1>4. \A d \in Id \ {s} : SameAt(d)
    BY <1>1 DEF SameAt
  <1> QED
    BY <1>1, <1>2, <1>3, <1>4, OneSession DEF Commanded

LEMMA VrfyInv == ASSUME NEW s \in Id, Commanded(s), Vrfy(s) PROVE SmtpInv'
  <1>0. TypeOK /\ HistoryOK
    BY DEF Commanded, SmtpInv
  <1>1. /\ phase' \in [Id -> Phase] /\ \A d \in Id \ {s} : phase'[d] = phase[d]
        /\ UNCHANGED <<code, receiveMessage, lastCommand, rcpts, path, stream, message, mailbox,
                       typed, dialog, nextId, restarts, lastRead>>
    BY <1>0, Types DEF Vrfy, Commanded, sessionVars, diskVars, Phase
  <1>2. TypeOK' /\ HistoryOK'
    BY <1>0, <1>1 DEF TypeOK, HistoryOK, Phase
  <1>3. MessageKept(s)' /\ Commands(s)' /\ Orderly(s)'
    BY <1>1 DEF Commanded, SmtpInv, MessageKept, Commands, Orderly
  <1>4. \A d \in Id \ {s} : SameAt(d)
    BY <1>1 DEF SameAt
  <1> QED
    BY <1>1, <1>2, <1>3, <1>4, OneSession DEF Commanded

\* A file that is created is empty, as is the text read so far.
LEMMA HeloInv == ASSUME NEW s \in Id, Commanded(s), Helo(s) PROVE SmtpInv'
  <1>0. TypeOK /\ HistoryOK /\ MessageKept(s) /\ Commands(s) /\ Orderly(s)
        /\ phase[s] = "read" /\ ~receiveMessage[s]
    BY DEF Commanded, SmtpInv
  <1>1. PICK n \in Code, w \in {"HELO", "HELO451"} : Respond(s, n) /\ Note(s, w) /\
           /\ w = "HELO" => stream'[s] = "open"
           /\ \/ /\ stream'[s] = "open" /\ path'[s] /\ message'[s] = <<>>
              \/ /\ stream'[s] # "open" /\ ~path'[s]
    <2>1. CASE CreateFails(s)
      <3>1. stream'[s] # "open" /\ ~path'[s] /\ Respond(s, 451) /\ Note(s, "HELO451")
        BY <1>0, <2>1, Types DEF CreateFails
      <3> QED
        BY <3>1 DEF Code
    <2>2. CASE ~CreateFails(s)
      <3>1. /\ stream'[s] = "open" /\ path'[s] /\ message'[s] = <<>>
            /\ Respond(s, 250) /\ Note(s, "HELO")
        BY <1>0, <2>2, Types DEF Helo
      <3> QED
        BY <3>1 DEF Code
    <2> QED
      BY <2>1, <2>2
  <1>2. /\ rcpts' = [rcpts EXCEPT ![s] = <<>>]
        /\ UNCHANGED <<receiveMessage, mailbox, typed, nextId, restarts, lastRead>>
        /\ \E x \in {"closed", "open", "failed"} : stream' = [stream EXCEPT ![s] = x]
        /\ path' = [path EXCEPT ![s] = TRUE] \/ path' = [path EXCEPT ![s] = FALSE]
        /\ message' = message \/ message' = [message EXCEPT ![s] = <<>>]
        /\ lastCommand' = lastCommand \/ lastCommand' = [lastCommand EXCEPT ![s] = "Helo"]
    BY <1>0, Types DEF Helo, CreateFails, Commanded
  <1>3. /\ phase' \in [Id -> Phase] /\ code' \in [Id -> Code]
        /\ \A d \in Id \ {s} : phase'[d] = phase[d] /\ code'[d] = code[d]
    BY <1>0, <1>1, RespondFacts
  <1>4. /\ dialog' \in [Id -> Progress] /\ dialog'[s] \in {"broken", w}
        /\ \A d \in Id \ {s} : dialog'[d] = dialog[d]
        /\ dialog'[s] = "broken" \/ (w = "HELO" /\ dialog'[s] = "HELO" /\ dialog[s] = "start")
    BY <1>0, <1>1, Types, NoteFacts
  <1>5. TypeOK' /\ HistoryOK'
    <2>1. /\ rcpts' \in [Id -> Seq(Local)] /\ stream' \in [Id -> {"closed", "open", "failed"}]
          /\ path' \in [Id -> BOOLEAN] /\ message' \in [Id -> Mail \cup {NoFile}]
          /\ lastCommand' \in [Id -> Last]
      <3>1. rcpts' \in [Id -> Seq(Local)] /\ stream' \in [Id -> {"closed", "open", "failed"}]
        BY <1>0, <1>2, Types
      <3>2. path' \in [Id -> BOOLEAN]
        BY <1>0, <1>2, Types
      <3>4. message' \in [Id -> Mail \cup {NoFile}]
        <4>1. <<>> \in Mail \cup {NoFile} /\ message \in [Id -> Mail \cup {NoFile}]
          BY <1>0, Types, MailFacts
        <4> QED
          BY <1>2, <4>1
      <3>3. lastCommand' \in [Id -> Last]
        BY <1>0, <1>2, Types DEF Last
      <3> QED
        BY <3>1, <3>2, <3>3, <3>4
    <2>2. /\ nextId' \in 0 .. MaxSession /\ restarts' \in 0 .. MaxRestart
          /\ receiveMessage' \in [Id -> BOOLEAN] /\ typed' \in [Id -> Mail]
          /\ mailbox' \in [Mailbox -> [Id -> Mail \cup {NoFile}]] /\ DOMAIN lastRead' = Id
      BY <1>0, <1>2, Types
    <2> QED
      BY <1>3, <1>4, <2>1, <2>2 DEF TypeOK, HistoryOK, Phase, Code, Last, Progress
  <1>6. MessageKept(s)'
    BY <1>0, <1>1, <1>2, MailFacts DEF MessageKept
  <1>7. Commands(s)'
    <2>1. rcpts'[s] = <<>> /\ lastCommand'[s] \in {lastCommand[s], "Helo"}
      BY <1>0, <1>2, Types
    <2> QED
      BY <1>0, <1>2, <2>1, Constants, MailFacts DEF Commands
  <1>8. Orderly(s)'
    BY <1>0, <1>1, <1>2, <1>4 DEF Orderly
  <1>9. \A d \in Id \ {s} : SameAt(d)
    BY <1>0, <1>2, <1>3, <1>4, Types DEF SameAt
  <1> QED
    BY <1>2, <1>5, <1>6, <1>7, <1>8, <1>9, OneSession DEF Commanded

LEMMA RsetInv == ASSUME NEW s \in Id, Commanded(s), Rset(s) PROVE SmtpInv'
  <1>0. TypeOK /\ HistoryOK /\ MessageKept(s) /\ Commands(s) /\ Orderly(s)
        /\ phase[s] = "read" /\ ~receiveMessage[s]
    BY DEF Commanded, SmtpInv
  <1>1. /\ rcpts' = [rcpts EXCEPT ![s] = <<>>]
        /\ receiveMessage' = [receiveMessage EXCEPT ![s] = FALSE]
        /\ stream' = [stream EXCEPT ![s] = "closed"]
        /\ message' = IF path[s] THEN [message EXCEPT ![s] = NoFile] ELSE message
        /\ lastCommand' = [lastCommand EXCEPT ![s] = "Rset"]
        /\ UNCHANGED <<path, mailbox, typed, nextId, restarts, lastRead>>
    BY DEF Rset, DeleteMessage, Commanded
  <1>2. /\ phase' \in [Id -> Phase] /\ code' \in [Id -> Code]
        /\ \A d \in Id \ {s} : phase'[d] = phase[d] /\ code'[d] = code[d]
    BY <1>0, RespondFacts DEF Rset, Code
  <1>3. /\ dialog' \in [Id -> Progress] /\ dialog'[s] = "broken"
        /\ \A d \in Id \ {s} : dialog'[d] = dialog[d]
    BY <1>0, Types, NoteFacts DEF Rset
  <1>4. TypeOK' /\ HistoryOK'
    <2>1. /\ rcpts' \in [Id -> Seq(Local)] /\ stream' \in [Id -> {"closed", "open", "failed"}]
          /\ receiveMessage' \in [Id -> BOOLEAN] /\ message' \in [Id -> Mail \cup {NoFile}]
          /\ lastCommand' \in [Id -> Last]
      BY <1>0, <1>1, Types DEF Last
    <2>2. /\ nextId' \in 0 .. MaxSession /\ restarts' \in 0 .. MaxRestart
          /\ path' \in [Id -> BOOLEAN] /\ typed' \in [Id -> Mail]
          /\ mailbox' \in [Mailbox -> [Id -> Mail \cup {NoFile}]] /\ DOMAIN lastRead' = Id
      BY <1>0, <1>1, Types
    <2> QED
      BY <1>2, <1>3, <2>1, <2>2 DEF TypeOK, HistoryOK, Phase, Code, Last, Progress
  <1>5. MessageKept(s)'
    BY <1>0, <1>1, Types DEF MessageKept
  <1>6. Commands(s)' /\ Orderly(s)'
    <2>1. rcpts'[s] = <<>> /\ lastCommand'[s] = "Rset" /\ ~receiveMessage'[s] /\ s <= nextId'
      <3>1. ~(s > nextId) /\ s \in Nat /\ nextId \in Nat
        BY <1>0, Constants, Types DEF Orderly
      <3> QED
        BY <1>0, <1>1, <3>1, Types
    <2>2. ~(s > nextId')
      BY <1>0, <1>1 DEF Orderly
    <2> QED
      BY <1>3, <2>1, <2>2, Constants, MailFacts DEF Commands, Orderly
  <1>7. \A d \in Id \ {s} : SameAt(d)
    BY <1>0, <1>1, <1>2, <1>3, Types DEF SameAt
  <1> QED
    BY <1>1, <1>4, <1>5, <1>6, <1>7, OneSession DEF Commanded

LEMMA DataInv == ASSUME NEW s \in Id, Commanded(s), DataCmd(s) PROVE SmtpInv'
  <1>0. TypeOK /\ HistoryOK /\ MessageKept(s) /\ Commands(s) /\ Orderly(s)
        /\ phase[s] = "read" /\ ~receiveMessage[s]
    BY DEF Commanded, SmtpInv
  <1>1. /\ receiveMessage' = [receiveMessage EXCEPT ![s] = TRUE]
        /\ lastCommand' = [lastCommand EXCEPT ![s] = "Data"]
        /\ UNCHANGED <<rcpts, path, stream, message, mailbox, typed, nextId, restarts, lastRead>>
    BY DEF DataCmd, diskVars, Commanded
  <1>2. /\ phase' \in [Id -> Phase] /\ code' \in [Id -> Code] /\ code'[s] = 354
        /\ \A d \in Id \ {s} : phase'[d] = phase[d] /\ code'[d] = code[d]
    BY <1>0, RespondFacts DEF DataCmd, Code
  <1>3. /\ dialog' \in [Id -> Progress]
        /\ dialog'[s] = "broken" \/ (dialog'[s] = "DATA" /\ dialog[s] = "RCPT")
        /\ \A d \in Id \ {s} : dialog'[d] = dialog[d]
    BY <1>0, Types, NoteFacts DEF DataCmd
  <1>4. TypeOK' /\ HistoryOK'
    <2>1. receiveMessage' \in [Id -> BOOLEAN] /\ lastCommand' \in [Id -> Last]
      BY <1>0, <1>1, Types DEF Last
    <2> QED
      BY <1>0, <1>1, <1>2, <1>3, <2>1 DEF TypeOK, HistoryOK, Phase, Code, Last, Progress
  <1>5. receiveMessage'[s] /\ lastCommand'[s] = "Data"
    BY <1>0, <1>1, Types
  <1>6. MessageKept(s)' /\ Commands(s)' /\ Orderly(s)'
    BY <1>0, <1>1, <1>2, <1>3, <1>5 DEF MessageKept, Commands, Orderly
  <1>7. \A d \in Id \ {s} : SameAt(d)
    BY <1>0, <1>1, <1>2, <1>3, Types DEF SameAt
  <1> QED
    BY <1>1, <1>4, <1>6, <1>7, OneSession DEF Commanded

LEMMA MailInv ==
    ASSUME NEW s \in Id, Commanded(s), NEW a \in Address \cup {NoAddress}, MailFrom(s, a)
    PROVE  SmtpInv'
  <1>0. TypeOK /\ HistoryOK /\ MessageKept(s) /\ Commands(s) /\ Orderly(s)
        /\ phase[s] = "read" /\ ~receiveMessage[s]
    BY DEF Commanded, SmtpInv
  <1>1. CASE \E n \in Code : OnlyRespond(s, n)
    BY <1>1, OnlyRespondInv
  <1>2. CASE /\ lastCommand' = [lastCommand EXCEPT ![s] = "MailFrom"]
             /\ Respond(s, 250) /\ Note(s, "MAIL")
             /\ UNCHANGED <<receiveMessage, rcpts, path, stream, diskVars, typed>>
    <2>1. UNCHANGED <<receiveMessage, rcpts, path, stream, message, mailbox, typed, nextId,
                      restarts, lastRead>>
      BY <1>2 DEF diskVars, Commanded
    <2>2. /\ phase' \in [Id -> Phase] /\ code' \in [Id -> Code]
          /\ \A d \in Id \ {s} : phase'[d] = phase[d] /\ code'[d] = code[d]
      BY <1>0, <1>2, RespondFacts DEF Code
    <2>3. /\ dialog' \in [Id -> Progress]
          /\ dialog'[s] = "broken" \/ (dialog'[s] = "MAIL" /\ dialog[s] = "HELO")
          /\ \A d \in Id \ {s} : dialog'[d] = dialog[d]
      BY <1>0, <1>2, Types, NoteFacts
    <2>4. lastCommand' \in [Id -> Last] /\ lastCommand'[s] = "MailFrom"
      BY <1>0, <1>2, Types DEF Last
    <2>5. TypeOK' /\ HistoryOK'
      BY <1>0, <2>1, <2>2, <2>3, <2>4 DEF TypeOK, HistoryOK, Phase, Code, Last, Progress
    <2>6. MessageKept(s)' /\ Commands(s)' /\ Orderly(s)'
      BY <1>0, <2>1, <2>3, <2>4 DEF MessageKept, Commands, Orderly
    <2>7. \A d \in Id \ {s} : SameAt(d)
      BY <1>0, <1>2, <2>1, <2>2, <2>3, Types DEF SameAt
    <2> QED
      BY <2>1, <2>5, <2>6, <2>7, OneSession DEF Commanded
  <1> QED
    BY <1>1, <1>2 DEF MailFrom, Code

\* One more recipient, as long as there is room.
LEMMA RcptInv ==
    ASSUME NEW s \in Id, Commanded(s), NEW a \in Address \cup {NoAddress}, RcptTo(s, a)
    PROVE  SmtpInv'
  <1>0. TypeOK /\ HistoryOK /\ MessageKept(s) /\ Commands(s) /\ Orderly(s)
        /\ phase[s] = "read" /\ ~receiveMessage[s]
    BY DEF Commanded, SmtpInv
  <1>1. CASE \E n \in Code : OnlyRespond(s, n)
    BY <1>1, OnlyRespondInv
  <1>2. CASE /\ ~RcptFull(s) /\ a \in Local
             /\ rcpts' = [rcpts EXCEPT ![s] = Append(@, a)]
             /\ Respond(s, 250) /\ Note(s, "RCPT")
             /\ UNCHANGED <<receiveMessage, lastCommand, path, stream, diskVars, typed>>
    <2>1. UNCHANGED <<receiveMessage, lastCommand, path, stream, message, mailbox, typed, nextId,
                      restarts, lastRead>>
      BY <1>2 DEF diskVars, Commanded
    <2>2. /\ phase' \in [Id -> Phase] /\ code' \in [Id -> Code]
          /\ \A d \in Id \ {s} : phase'[d] = phase[d] /\ code'[d] = code[d]
      BY <1>0, <1>2, RespondFacts DEF Code
    <2>3. /\ dialog' \in [Id -> Progress]
          /\ dialog'[s] = "broken" \/ (dialog'[s] = "RCPT" /\ dialog[s] \in {"MAIL", "RCPT"})
          /\ \A d \in Id \ {s} : dialog'[d] = dialog[d]
      BY <1>0, <1>2, Types, NoteFacts
    <2>4. rcpts' \in [Id -> Seq(Local)] /\ Len(rcpts'[s]) <= MaxRcpt
      <3>1. rcpts[s] \in Seq(Local) /\ Len(rcpts[s]) \in Nat /\ Len(rcpts[s]) < MaxRcpt
        BY <1>0, <1>2, Types, Constants DEF RcptFull
      <3>2. Append(rcpts[s], a) \in Seq(Local) /\ Len(Append(rcpts[s], a)) = Len(rcpts[s]) + 1
        BY <1>2, <3>1
      <3> QED
        BY <1>0, <1>2, <3>1, <3>2, Types, Constants
    <2>5. TypeOK' /\ HistoryOK'
      BY <1>0, <2>1, <2>2, <2>3, <2>4 DEF TypeOK, HistoryOK, Phase, Code, Progress
    <2>6. MessageKept(s)' /\ Commands(s)' /\ Orderly(s)'
      BY <1>0, <2>1, <2>3, <2>4 DEF MessageKept, Commands, Orderly
    <2>7. \A d \in Id \ {s} : SameAt(d)
      BY <1>0, <1>2, <2>1, <2>2, <2>3, Types DEF SameAt
    <2> QED
      BY <2>1, <2>5, <2>6, <2>7, OneSession DEF Commanded
  <1> QED
    BY <1>1, <1>2 DEF RcptTo, Code

LEMMA CommandInv ==
    ASSUME NEW s \in Id, Commanded(s), NEW in \in Input, ProcessCommand(s, in)
    PROVE  SmtpInv'
  <1>1. CASE \E n \in Code : OnlyRespond(s, n)
    BY <1>1, OnlyRespondInv
  <1>2. CASE in.cmd \in Param
    <2>1. in.addr \in Address \cup {NoAddress}
      BY <1>2, SmtpAssumption DEF Input, Param, AnyCommand
    <2> QED
      BY <1>2, <2>1, MailInv, RcptInv DEF ProcessCommand, Param
  <1> QED
    BY <1>1, <1>2, HeloInv, DataInv, RsetInv, VrfyInv DEF ProcessCommand, Param, Code

(***************************************************************************)
(* The mail.                                                               *)
(***************************************************************************)
\* What the copies are: the text that was read, and only for recipients.
LEMMA Delivered ==
    ASSUME SmtpInv, NEW s \in Id, Deliver(s)
    PROVE  /\ mailbox' \in [Mailbox -> [Id -> Mail \cup {NoFile}]]
           /\ \A m \in Mailbox, d \in Id : mailbox'[m][d] # mailbox[m][d] =>
                 /\ d = s /\ stream[s] = "open" /\ m \in Range(rcpts[s])
                 /\ mailbox[m][s] = NoFile /\ mailbox'[m][s] = typed[s]
           /\ stream[s] = "open" => \A m \in Mailbox \cap Range(rcpts[s]) :
                 mailbox[m][s] = NoFile => mailbox'[m][s] = typed[s]
  <1>0. /\ mailbox \in [Mailbox -> [Id -> Mail \cup {NoFile}]]
        /\ message[s] \in Mail \cup {NoFile} /\ MessageKept(s) /\ typed[s] \in Mail
    BY Types DEF SmtpInv
  <1>1. path[s] /\ message[s] # NoFile => stream[s] = "open" /\ message[s] = typed[s]
    BY <1>0 DEF MessageKept
  <1>2. stream[s] = "open" => path[s] /\ message[s] = typed[s] /\ message[s] # NoFile
    BY <1>0, MailFacts DEF MessageKept
  <1> DEFINE R == Range(rcpts[s])
  <1> HIDE DEF R
  <1>3. mailbox' = [m \in Mailbox |->
           IF m \in R /\ path[s] /\ message[s] # NoFile /\ mailbox[m][s] = NoFile
           THEN [mailbox[m] EXCEPT ![s] = message[s]] ELSE mailbox[m]]
    BY DEF Deliver, R
  <1>4. ASSUME NEW m \in Mailbox
        PROVE  /\ mailbox'[m] \in [Id -> Mail \cup {NoFile}]
               /\ \A d \in Id : mailbox'[m][d] # mailbox[m][d] =>
                     /\ d = s /\ stream[s] = "open" /\ m \in R
                     /\ mailbox[m][s] = NoFile /\ mailbox'[m][s] = typed[s]
               /\ stream[s] = "open" /\ m \in R /\ mailbox[m][s] = NoFile =>
                     mailbox'[m][s] = typed[s]
    <2>1. CASE m \in R /\ path[s] /\ message[s] # NoFile /\ mailbox[m][s] = NoFile
      <3>1. mailbox'[m] = [mailbox[m] EXCEPT ![s] = message[s]]
        BY <1>3, <2>1
      <3> QED
        BY <1>0, <1>1, <2>1, <3>1
    <2>2. CASE ~(m \in R /\ path[s] /\ message[s] # NoFile /\ mailbox[m][s] = NoFile)
      <3>1. mailbox'[m] = mailbox[m]
        BY <1>3, <2>2
      <3> QED
        BY <1>0, <1>2, <2>2, <3>1
    <2> QED
      BY <2>1, <2>2
  <1>5. mailbox' \in [Mailbox -> [Id -> Mail \cup {NoFile}]]
    BY <1>3, <1>4
  <1> QED
    BY <1>4, <1>5 DEF R

Mailed(s, in) ==
    /\ SmtpInv /\ phase[s] = "read" /\ receiveMessage[s]
    /\ lastRead' = [lastRead EXCEPT ![s] = in.cmd]
    /\ UNCHANGED <<nextId, restarts>>

\* The line ".": the copies are made and the message is removed.
LEMMA DotInv ==
    ASSUME NEW s \in Id, NEW in, Mailed(s, in), Deliver(s), DeleteMessage(s), Respond(s, 250),
           Note(s, "DOT"), UNCHANGED <<receiveMessage, lastCommand, rcpts, path, typed>>
    PROVE  SmtpInv'
  <1>0. /\ SmtpInv /\ TypeOK /\ HistoryOK /\ MessageKept(s) /\ Commands(s) /\ Orderly(s)
        /\ phase[s] = "read" /\ receiveMessage[s]
    BY DEF Mailed, SmtpInv
  <1>1. /\ stream' = [stream EXCEPT ![s] = "closed"]
        /\ message' = IF path[s] THEN [message EXCEPT ![s] = NoFile] ELSE message
        /\ UNCHANGED <<receiveMessage, lastCommand, rcpts, path, typed, nextId, restarts>>
        /\ DOMAIN lastRead' = Id
    BY <1>0 DEF DeleteMessage, Mailed, HistoryOK
  <1>2. /\ phase' \in [Id -> Phase] /\ code' \in [Id -> Code] /\ code'[s] = 250
        /\ \A d \in Id \ {s} : phase'[d] = phase[d] /\ code'[d] = code[d]
    BY <1>0, RespondFacts DEF Code
  <1>3. /\ dialog' \in [Id -> Progress]
        /\ dialog'[s] = "broken" \/ (dialog'[s] = "DOT" /\ dialog[s] = "DATA")
        /\ \A d \in Id \ {s} : dialog'[d] = dialog[d]
    BY <1>0, Types, NoteFacts
  <1>4. TypeOK' /\ HistoryOK'
    <2>1. /\ stream' \in [Id -> {"closed", "open", "failed"}]
          /\ message' \in [Id -> Mail \cup {NoFile}]
      BY <1>0, <1>1, Types
    <2>2. mailbox' \in [Mailbox -> [Id -> Mail \cup {NoFile}]]
      BY <1>0, Delivered
    <2> QED
      BY <1>0, <1>1, <1>2, <1>3, <2>1, <2>2 DEF TypeOK, HistoryOK, Phase, Code, Progress
  <1>5. MessageKept(s)'
    BY <1>0, <1>1, Types DEF MessageKept
  <1>6. Commands(s)'
    BY <1>0, <1>1 DEF Commands
  <1>7. Orderly(s)'
    <2>1. dialog'[s] = "DOT" /\ restarts = 0 =>
            \A m \in Range(rcpts[s]) \cap Mailbox : mailbox'[m][s] = typed[s]
      BY <1>0, <1>3, Delivered DEF Orderly
    <2>2. ~(s > nextId)
      BY <1>0 DEF Orderly
    <2> QED
      BY <1>0, <1>1, <1>2, <1>3, <2>1, <2>2 DEF Orderly
  <1>8. \A d \in Id \ {s} : SameAt(d)
    <2>1. \A d \in Id \ {s}, m \in Mailbox : mailbox'[m][d] = mailbox[m][d]
      BY <1>0, Delivered
    <2> QED
      BY <1>0, <1>1, <1>2, <1>3, <2>1, Types DEF SameAt
  <1> QED
    BY <1>0, <1>1, <1>4, <1>5, <1>6, <1>7, <1>8, OneSession

\* A piece of text, with which the text read so far becomes t.
LEMMA TextInv ==
    ASSUME NEW s \in Id, NEW in, NEW t, Mailed(s, in),
           code[s] = 354 => t \in Mail /\ Len(t) <= MaxText,
           message' = IF stream[s] = "open" THEN [message EXCEPT ![s] = t] ELSE message,
           typed' = IF code[s] = 354 THEN [typed EXCEPT ![s] = t] ELSE typed,
           UNCHANGED <<phase, code, sessionVars, mailbox, dialog>>
    PROVE  SmtpInv'
  <1>0. /\ SmtpInv /\ TypeOK /\ HistoryOK /\ MessageKept(s) /\ Commands(s) /\ Orderly(s)
        /\ phase[s] = "read" /\ receiveMessage[s]
    BY DEF Mailed, SmtpInv
  <1>1. /\ UNCHANGED <<phase, code, receiveMessage, lastCommand, rcpts, path, stream, mailbox,
                       dialog, nextId, restarts>>
        /\ DOMAIN lastRead' = Id
    BY <1>0 DEF Mailed, sessionVars, HistoryOK
  <1>2. typed \in [Id -> Mail] /\ message \in [Id -> Mail \cup {NoFile}]
    BY <1>0, Types
  <1>3. stream[s] = "open" => code[s] = 354
    BY <1>0 DEF MessageKept
  <1>4. TypeOK' /\ HistoryOK'
    <2>1. message' \in [Id -> Mail \cup {NoFile}] /\ typed' \in [Id -> Mail]
      BY <1>2, <1>3
    <2> QED
      BY <1>0, <1>1, <2>1 DEF TypeOK, HistoryOK
  <1>5. MessageKept(s)'
    <2>1. /\ typed'[s] = IF code[s] = 354 THEN t ELSE typed[s]
          /\ message'[s] = IF stream[s] = "open" THEN t ELSE message[s]
      BY <1>2
    <2> QED
      BY <1>0, <1>1, <1>2, <1>3, <2>1 DEF MessageKept
  <1>6. Commands(s)' /\ Orderly(s)'
    <2>1. dialog[s] = "DOT" => typed'[s] = typed[s]
      BY <1>0 DEF Orderly
    <2> QED
      BY <1>0, <1>1, <2>1 DEF Commands, Orderly
  <1>7. \A d \in Id \ {s} : SameAt(d)
    BY <1>1, <1>2 DEF SameAt
  <1> QED
    BY <1>0, <1>1, <1>4, <1>5, <1>6, <1>7, OneSession

LEMMA ReadInv == ASSUME SmtpInv, NEW s \in Id, NEW in \in Input, Read(s, in) PROVE SmtpInv'
  <1>1. CASE ~receiveMessage[s]
    <2>1. Commanded(s) /\ ProcessCommand(s, in)
      BY <1>1 DEF Read, Commanded
    <2> QED
      BY <2>1, CommandInv
  <1>2. CASE receiveMessage[s]
    <2>1. Mailed(s, in) /\ ProcessMessage(s, in)
      BY <1>2 DEF Read, Mailed
    <2>2. CASE in.cmd = "DOT"
      BY <2>1, <2>2, DotInv DEF ProcessMessage
    <2>3. CASE in.cmd # "DOT"
      <3> DEFINE t == Append(typed[s], Piece(s, Len(typed[s]) + 1))
      <3>1. /\ MessageKept(s) /\ typed \in [Id -> Mail] /\ message \in [Id -> Mail \cup {NoFile}]
            /\ Len(typed[s]) \in Nat /\ MaxText \in Nat
        BY Types, Constants, MailFacts DEF SmtpInv
      <3>2. /\ code[s] = 354 => Len(typed[s]) < MaxText
            /\ message' = IF stream[s] = "open"
                          THEN [message EXCEPT ![s] = Append(@, Piece(s, Len(typed[s]) + 1))]
                          ELSE message
            /\ typed' = IF code[s] = 354 THEN [typed EXCEPT ![s] = t] ELSE typed
            /\ UNCHANGED <<phase, code, sessionVars, mailbox, dialog>>
        BY <2>1, <2>3 DEF ProcessMessage
      <3>3. code[s] = 354 => t \in Mail /\ Len(t) <= MaxText
        BY <3>1, <3>2, MailFacts
      <3>4. message' = IF stream[s] = "open" THEN [message EXCEPT ![s] = t] ELSE message
        BY <3>1, <3>2 DEF MessageKept
      <3> HIDE DEF t
      <3> QED
        BY <2>1, <3>2, <3>3, <3>4, TextInv
    <2> QED
      BY <2>2, <2>3
  <1> QED
    BY <1>1, <1>2

(***************************************************************************)
(* The theorems.                                                           *)
(***************************************************************************)
LEMMA SmtpStep == SmtpInv /\ [Next]_vars => SmtpInv'
  <1> SUFFICES ASSUME SmtpInv, [Next]_vars PROVE SmtpInv'
    OBVIOUS
  <1>1. CASE UNCHANGED vars
    <2>1. TypeOK' /\ HistoryOK'
      BY <1>1 DEF SmtpInv, TypeOK, HistoryOK, vars, sessionVars, diskVars, history
    <2>2. ASSUME NEW s \in Id PROVE MessageKept(s)' /\ Commands(s)' /\ Orderly(s)'
      BY <1>1 DEF SmtpInv, MessageKept, Commands, Orderly, vars, sessionVars, diskVars, history
    <2> QED
      BY <2>1, <2>2 DEF SmtpInv
  <1> QED
    BY <1>1, AcceptInv, RestartInv, PhaseInv, ReadInv DEF Next

\* The invariant that carries the theorems holds in every reachable state.
THEOREM SessionInvariant == Spec => []SmtpInv
  BY SmtpInit, SmtpStep, PTL DEF Spec

\* Type correctness of the sessions and of the files they leave behind.
THEOREM TypeCorrect == Spec => []TypeOK
  <1>1. SmtpInv => TypeOK
    BY DEF SmtpInv
  <1> QED
    BY <1>1, SessionInvariant, PTL

\* processRcptTo never writes beyond _recipients (smtp_session.cpp:405, 448),
\* whatever MAX_RCPT_ALLOWED is and in whatever order the commands come.
THEOREM RecipientsBounded == Spec => []RecipientsFit
  <1>1. SmtpInv => RecipientsFit
    BY DEF SmtpInv, Commands, RecipientsFit
  <1> QED
    BY <1>1, SessionInvariant, PTL

\* The branch of processData that leaves the session without an operation is
\* dead: a session whose last command was DATA is reading mail.
THEOREM DataAlwaysReplied == Spec => []DataReplied
  <1>1. SmtpInv => DataReplied
    BY DEF SmtpInv, Commands, DataReplied
  <1> QED
    BY <1>1, SessionInvariant, PTL

\* Until the first restart a mail that was accepted step by step is in the
\* mailbox of every recipient that has one (smtp_session.cpp:302-316, 505-542).
\* After a restart the session numbers begin again, and a copy of that name may
\* be in the mailbox already, which is why the restart is excepted.
THEOREM MailArrives == Spec => [](restarts = 0 => AcceptedMailDelivered)
  <1>1. SmtpInv => (restarts = 0 => AcceptedMailDelivered)
    BY DEF SmtpInv, Orderly, AcceptedMailDelivered
  <1> QED
    BY <1>1, SessionInvariant, PTL

Faithful ==
    \A m \in Mailbox, s \in Id : mailbox'[m][s] # mailbox[m][s] =>
        /\ mailbox[m][s] = NoFile
        /\ mailbox'[m][s] = typed[s]
        /\ m \in Range(rcpts[s])

LEMMA OnlyDeliver == ASSUME Next PROVE UNCHANGED mailbox \/ \E s \in Id : Deliver(s)
  <1>1. ASSUME NEW s \in Id, NEW in \in Input, ProcessCommand(s, in) PROVE UNCHANGED mailbox
    <2>1. CASE Helo(s) \/ DataCmd(s) \/ Rset(s) \/ Vrfy(s)
      BY <2>1 DEF Helo, DataCmd, Rset, Vrfy, diskVars
    <2>2. CASE MailFrom(s, in.addr) \/ RcptTo(s, in.addr)
      BY <2>2 DEF MailFrom, RcptTo, OnlyRespond, diskVars
    <2>3. CASE \E n : OnlyRespond(s, n)
      BY <2>3 DEF OnlyRespond, diskVars
    <2> QED
      BY <1>1, <2>1, <2>2, <2>3 DEF ProcessCommand
  <1>2. ASSUME NEW s \in Id, NEW in \in Input, ProcessMessage(s, in)
        PROVE  UNCHANGED mailbox \/ Deliver(s)
    BY <1>2 DEF ProcessMessage
  <1>3. CASE Accept \/ Restart \/ \E s \in Id : WriteDone(s) \/ Drop(s)
    BY <1>3 DEF Accept, Restart, WriteDone, Drop, diskVars
  <1> QED
    BY <1>1, <1>2, <1>3 DEF Next, Read

\* Whatever appears in a mailbox is one session's text, whole and unmixed, for a
\* recipient of that session, and in place of nothing, restarts included.
THEOREM CopiesFaithful == Spec => DeliveredFaithfully
  <1>1. SmtpInv /\ [Next]_vars => [Faithful]_vars
    <2> SUFFICES ASSUME SmtpInv, Next PROVE Faithful
      OBVIOUS
    <2> QED
      BY OnlyDeliver, Delivered DEF Faithful
  <1> QED
    BY <1>1, SessionInvariant, PTL DEF Spec, DeliveredFaithfully, Faithful

=============================================================================
