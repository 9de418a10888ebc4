-------------------------------- MODULE Smtp --------------------------------
(***************************************************************************)
(* The SMTP server (smtp/server): SMTPServer accepts connections and gives *)
(* each an SMTPSession, all on one io_context thread.  A session has at    *)
(* most one asynchronous operation under way, a read or the write of a     *)
(* reply; an action is one completion handler.  What a client sends is one *)
(* Input per read: a command line, a piece of mail text, the line "." in a *)
(* read of its own, or text whose last line is "." in the same read.       *)
(* Addresses stand for the mailbox path <root>/<domain>/<user>.  The       *)
(* return address is stored and never used, and is left out.               *)
(***************************************************************************)
EXTENDS Integers, Sequences, FiniteSets, Functions

CONSTANTS
    MaxSession,   \* bound: connections accepted between two restarts
    MaxText,      \* bound: reads of text in one mail
    MaxRestart,   \* bound: restarts of the server
    MaxRcpt,      \* MAX_RCPT_ALLOWED, 100 in the code
    Address,      \* well-formed addresses user@domain
    NoAddress,    \* what an argument that is none of them amounts to
    Local,        \* the addresses whose domain has a directory
    Mailbox,      \* the addresses whose mailbox directory exists
    Command,      \* what a client sends that names no address
    IoResult,     \* results of opening the message file
    NoFile        \* content of a file that does not exist

Param == {"MAIL", "RCPT"}
Input == [cmd : Command] \cup [cmd : Param, addr : Address \cup {NoAddress}]
AnyCommand == {"HELO", "DATA", "RSET", "VRFY", "NOOP", "QUIT", "OTHER", "BAD",
               "TEXT", "DOT", "TEXTDOT"}

ASSUME SmtpAssumption ==
    /\ MaxSession \in Nat /\ MaxText \in Nat /\ MaxRestart \in Nat
    /\ MaxRcpt \in Nat \ {0}
    /\ Mailbox \subseteq Local /\ Local \subseteq Address
    /\ NoAddress \notin Address
    /\ Command \subseteq AnyCommand
    /\ IoResult \subseteq BOOLEAN
    /\ NoFile \notin Seq(Nat \X Nat)

Id == 1 .. MaxSession

\* Read as mail, every other command is text like any other.
MailInput == {in \in Input : in.cmd \in {"TEXT", "QUIT", "DOT", "TEXTDOT"}}

\* The k-th piece of text that session s reads; a mail is a sequence of them.
Piece(s, k) == <<s, k>>
Mail == Seq(Id \X (1 .. MaxText))

VARIABLES
    nextId,         \* _nextSessionId
    phase,          \* "none", "write", "read", "idle" (no operation), "closed"
    code,           \* the last reply
    receiveMessage, \* _receiveMessage
    lastCommand,    \* _lastCommand
    rcpts,          \* _recipients[0 .. _rcptCount - 1]
    path,           \* _messagePath is set
    stream,         \* _messageOut: "closed", "open", "failed" (open, failbit)
    message,        \* ./messages/message-<id>.eml
    mailbox,        \* mailbox[m][id]: the copy of that file in mailbox m
    restarts,
    lastRead,       \* history: what was last read as mail
    typed,          \* history: the text read between 354 and the next reply
    dialog          \* history: how far an orderly dialogue has come

sessionVars == <<receiveMessage, lastCommand, rcpts, path, stream>>
diskVars == <<message, mailbox>>
history == <<lastRead, typed, dialog>>
vars == <<nextId, phase, code, sessionVars, diskVars, restarts, history>>

(***************************************************************************)
(* Accepting, replying, closing.                                           *)
(***************************************************************************)
Fresh(s) ==
    /\ receiveMessage' = [receiveMessage EXCEPT ![s] = FALSE]
    /\ lastCommand' = [lastCommand EXCEPT ![s] = "Undefined"]
    /\ rcpts' = [rcpts EXCEPT ![s] = <<>>]
    /\ path' = [path EXCEPT ![s] = FALSE]
    /\ stream' = [stream EXCEPT ![s] = "closed"]
    /\ lastRead' = [lastRead EXCEPT ![s] = "none"]
    /\ typed' = [typed EXCEPT ![s] = <<>>]
    /\ dialog' = [dialog EXCEPT ![s] = "start"]

\* sendResponse: the write begins.
Respond(s, n) ==
    /\ phase' = [phase EXCEPT ![s] = "write"]
    /\ code' = [code EXCEPT ![s] = n]

\* acceptConnection's handler, and SMTPSession::start.
Accept ==
    /\ nextId < MaxSession
    /\ nextId' = nextId + 1
    /\ Fresh(nextId + 1)
    /\ Respond(nextId + 1, 220)
    /\ UNCHANGED <<diskVars, restarts>>

\* The write of a reply ends: 221 closes the session, else it reads again.
WriteDone(s) ==
    /\ phase[s] = "write"
    /\ phase' = [phase EXCEPT ![s] = IF code[s] = 221 THEN "closed" ELSE "read"]
    /\ UNCHANGED <<nextId, code, sessionVars, diskVars, restarts, history>>

\* A read or a write ends in an error.  close() closes the socket only: the
\* message file stays open, and closeSession leaves the session in _sessions.
Drop(s) ==
    /\ phase[s] \in {"read", "write"}
    /\ phase' = [phase EXCEPT ![s] = "closed"]
    /\ UNCHANGED <<nextId, code, sessionVars, diskVars, restarts, history>>

\* SIGINT or SIGTERM stops the program, and it is started again: session
\* numbers begin at 1 once more, the files stay.
Restart ==
    /\ restarts < MaxRestart
    /\ restarts' = restarts + 1
    /\ nextId' = 0
    /\ phase' = [s \in Id |-> "none"]
    /\ code' = [s \in Id |-> 0]
    /\ receiveMessage' = [s \in Id |-> FALSE]
    /\ lastCommand' = [s \in Id |-> "Undefined"]
    /\ rcpts' = [s \in Id |-> <<>>]
    /\ path' = [s \in Id |-> FALSE]
    /\ stream' = [s \in Id |-> "closed"]
    /\ lastRead' = [s \in Id |-> "none"]
    /\ typed' = [s \in Id |-> <<>>]
    /\ dialog' = [s \in Id |-> "start"]
    /\ UNCHANGED diskVars

(***************************************************************************)
(* Commands.  Note(s, w) follows the dialogue HELO MAIL RCPT... DATA "." by *)
(* the commands that changed the session.                                  *)
(***************************************************************************)
Note(s, w) ==
    dialog' = [dialog EXCEPT ![s] =
        IF <<@, w>> \in {<<"start", "HELO">>, <<"HELO", "MAIL">>, <<"MAIL", "RCPT">>,
                         <<"RCPT", "RCPT">>, <<"RCPT", "DATA">>, <<"DATA", "DOT">>}
        THEN w ELSE "broken"]

\* A reply that changes nothing else.
OnlyRespond(s, n) ==
    Respond(s, n) /\ UNCHANGED <<sessionVars, diskVars, typed, dialog>>

\* createMessage fails: the file cannot be opened, or is open already, which
\* leaves the stream failed; _messagePath is cleared.
CreateFails(s) ==
    /\ stream[s] # "closed" \/ FALSE \in IoResult
    /\ stream' = [stream EXCEPT ![s] = IF @ = "closed" THEN @ ELSE "failed"]
    /\ path' = [path EXCEPT ![s] = FALSE]
    /\ Respond(s, 451)
    /\ Note(s, "HELO451")
    /\ UNCHANGED <<lastCommand, message>>

Helo(s) ==
    /\ rcpts' = [rcpts EXCEPT ![s] = <<>>]
    /\ \/ CreateFails(s)
       \/ /\ stream[s] = "closed" /\ TRUE \in IoResult
          /\ stream' = [stream EXCEPT ![s] = "open"]
          /\ path' = [path EXCEPT ![s] = TRUE]
          /\ message' = [message EXCEPT ![s] = <<>>]
          /\ lastCommand' = [lastCommand EXCEPT ![s] = "Helo"]
          /\ Respond(s, 250)
          /\ Note(s, "HELO")
    /\ UNCHANGED <<receiveMessage, mailbox, typed>>

\* deleteMessage: close the stream, remove the file _messagePath names.
DeleteMessage(s) ==
    /\ stream' = [stream EXCEPT ![s] = "closed"]
    /\ message' = IF path[s] THEN [message EXCEPT ![s] = NoFile] ELSE message

Rset(s) ==
    /\ rcpts' = [rcpts EXCEPT ![s] = <<>>]
    /\ receiveMessage' = [receiveMessage EXCEPT ![s] = FALSE]
    /\ DeleteMessage(s)
    /\ lastCommand' = [lastCommand EXCEPT ![s] = "Rset"]
    /\ Respond(s, 250)
    /\ Note(s, "RSET")
    /\ UNCHANGED <<path, mailbox, typed>>

DataCmd_NoLast(s) ==
    /\ receiveMessage' = [receiveMessage EXCEPT ![s] = TRUE]
    /\ Respond(s, 354)
    /\ Note(s, "DATA")
    /\ UNCHANGED <<lastCommand, rcpts, path, stream, diskVars, typed>>

\* processData.  DATA after DATA would start no operation; see DataReplied.
DataCmd(s) ==
    /\ lastCommand[s] # "Data"
    /\ receiveMessage' = [receiveMessage EXCEPT ![s] = TRUE]
    /\ lastCommand' = [lastCommand EXCEPT ![s] = "Data"]
    /\ Respond(s, 354)
    /\ Note(s, "DATA")
    /\ UNCHANGED <<rcpts, path, stream, diskVars, typed>>

\* processVrfy is empty: no reply, and no further read.
Vrfy(s) ==
    /\ phase' = [phase EXCEPT ![s] = "idle"]
    /\ UNCHANGED <<code, sessionVars, diskVars, typed, dialog>>

MailFrom(s, a) ==
    \/ lastCommand[s] \notin {"Helo", "Rset"} /\ OnlyRespond(s, 503)
    \/ lastCommand[s] \in {"Helo", "Rset"} /\ a = NoAddress /\ OnlyRespond(s, 501)
    \/ /\ lastCommand[s] \in {"Helo", "Rset"} /\ a # NoAddress
       /\ lastCommand' = [lastCommand EXCEPT ![s] = "MailFrom"]
       /\ Respond(s, 250)
       /\ Note(s, "MAIL")
       /\ UNCHANGED <<receiveMessage, rcpts, path, stream, diskVars, typed>>

RcptFull_Late(s) == Len(rcpts[s]) > MaxRcpt

RcptFull(s) == Len(rcpts[s]) >= MaxRcpt

RcptTo_AnyDomain(s, a) ==
    \/ lastCommand[s] # "MailFrom" /\ OnlyRespond(s, 501)
    \/ /\ lastCommand[s] = "MailFrom" /\ ~RcptFull(s) /\ a # NoAddress
       /\ rcpts' = [rcpts EXCEPT ![s] = Append(@, a)]
       /\ Respond(s, 250)
       /\ Note(s, "RCPT")
       /\ UNCHANGED <<receiveMessage, lastCommand, path, stream, diskVars, typed>>

\* processRcptTo.  The second look at the domain directory, meant for the
\* mailbox, cannot fail; _lastCommand stays MailFrom.
RcptTo(s, a) ==
    \/ lastCommand[s] # "MailFrom" /\ OnlyRespond(s, 501)
    \/ lastCommand[s] = "MailFrom" /\ RcptFull(s) /\ OnlyRespond(s, 523)
    \/ lastCommand[s] = "MailFrom" /\ ~RcptFull(s) /\ a = NoAddress /\ OnlyRespond(s, 501)
    \/ lastCommand[s] = "MailFrom" /\ ~RcptFull(s) /\ a \in Address \ Local /\ OnlyRespond(s, 551)
    \/ /\ lastCommand[s] = "MailFrom" /\ ~RcptFull(s) /\ a \in Local
       /\ rcpts' = [rcpts EXCEPT ![s] = Append(@, a)]
       /\ Respond(s, 250)
       /\ Note(s, "RCPT")
       /\ UNCHANGED <<receiveMessage, lastCommand, path, stream, diskVars, typed>>

\* processCommand: HELO and the other four-letter words alone on the line,
\* MAIL and RCPT followed by a space, anything else 500 or 502.
ProcessCommand(s, in) ==
    \/ in.cmd = "HELO" /\ Helo(s)
    \/ in.cmd = "DATA" /\ DataCmd(s)
    \/ in.cmd = "RSET" /\ Rset(s)
    \/ in.cmd = "VRFY" /\ Vrfy(s)
    \/ in.cmd = "NOOP" /\ OnlyRespond(s, 250)
    \/ in.cmd = "QUIT" /\ OnlyRespond(s, 221)
    \/ in.cmd = "MAIL" /\ MailFrom(s, in.addr)
    \/ in.cmd = "RCPT" /\ RcptTo(s, in.addr)
    \/ in.cmd = "OTHER" /\ OnlyRespond(s, 502)
    \/ in.cmd \in {"BAD", "TEXT", "DOT", "TEXTDOT"} /\ OnlyRespond(s, 500)

(***************************************************************************)
(* The mail.                                                               *)
(***************************************************************************)
Deliver_Unflushed(s) ==
    mailbox' = [m \in Mailbox |->
        IF m \in Range(rcpts[s]) /\ path[s] /\ message[s] # NoFile /\ mailbox[m][s] = NoFile
        THEN [mailbox[m] EXCEPT ![s] = <<>>] ELSE mailbox[m]]

Deliver_OneName(s) ==
    mailbox' = [m \in Mailbox |->
        IF m \in Range(rcpts[s]) /\ path[s] /\ message[1] # NoFile /\ mailbox[m][s] = NoFile
        THEN [mailbox[m] EXCEPT ![s] = message[1]] ELSE mailbox[m]]

Deliver_FirstOnly(s) ==
    mailbox' = [m \in Mailbox |->
        IF rcpts[s] # <<>> /\ m = rcpts[s][1] /\ path[s] /\ message[s] # NoFile
           /\ mailbox[m][s] = NoFile
        THEN [mailbox[m] EXCEPT ![s] = message[s]] ELSE mailbox[m]]

\* deliverMessage: a copy into each recipient's mailbox directory.  The copy
\* fails if there is no message file, or one of that name in the mailbox; a
\* recipient without mailbox is skipped.  Errors are logged only.
Deliver(s) ==
    mailbox' = [m \in Mailbox |->
        IF m \in Range(rcpts[s]) /\ path[s] /\ message[s] # NoFile /\ mailbox[m][s] = NoFile
        THEN [mailbox[m] EXCEPT ![s] = message[s]] ELSE mailbox[m]]

\* processMessage: a read of exactly ".\r\n" ends the mail, though not the
\* mail mode; every other read is text, lost if the stream is not good.
ProcessMessage(s, in) ==
    \/ /\ in.cmd = "DOT"
       /\ Deliver(s)
       /\ DeleteMessage(s)
       /\ Respond(s, 250)
       /\ Note(s, "DOT")
       /\ UNCHANGED <<receiveMessage, lastCommand, rcpts, path, typed>>
    \/ LET piece == Piece(s, Len(typed[s]) + 1)
       IN  /\ in.cmd # "DOT"
           /\ code[s] = 354 => Len(typed[s]) < MaxText
           /\ message' = IF stream[s] = "open" THEN [message EXCEPT ![s] = Append(@, piece)]
                         ELSE message
           /\ typed' = IF code[s] = 354 THEN [typed EXCEPT ![s] = Append(@, piece)] ELSE typed
           /\ UNCHANGED <<phase, code, sessionVars, mailbox, dialog>>

\* A read ends: receive()'s handler.
Read(s, in) ==
    /\ phase[s] = "read"
    /\ \/ /\ receiveMessage[s] /\ in \in MailInput
          /\ ProcessMessage(s, in)
          /\ lastRead' = [lastRead EXCEPT ![s] = in.cmd]
       \/ ~receiveMessage[s] /\ ProcessCommand(s, in) /\ UNCHANGED lastRead
    /\ UNCHANGED <<nextId, restarts>>

Init ==
    /\ nextId = 0
    /\ phase = [s \in Id |-> "none"]
    /\ code = [s \in Id |-> 0]
    /\ receiveMessage = [s \in Id |-> FALSE]
    /\ lastCommand = [s \in Id |-> "Undefined"]
    /\ rcpts = [s \in Id |-> <<>>]
    /\ path = [s \in Id |-> FALSE]
    /\ stream = [s \in Id |-> "closed"]
    /\ message = [s \in Id |-> NoFile]
    /\ mailbox = [m \in Mailbox |-> [s \in Id |-> NoFile]]
    /\ restarts = 0
    /\ lastRead = [s \in Id |-> "none"]
    /\ typed = [s \in Id |-> <<>>]
    /\ dialog = [s \in Id |-> "start"]

Next ==
    \/ Accept \/ Restart
    \/ \E s \in Id : WriteDone(s) \/ Drop(s) \/ \E in \in Input : Read(s, in)

Spec == Init /\ [][Next]_vars

(***************************************************************************)
(* Properties.                                                             *)
(***************************************************************************)
\* Type correctness: the recipients that are accepted are of known domains, and
\* every reply has one of the codes that sendResponse knows.
TypeOK ==
    /\ nextId \in 0 .. MaxSession
    /\ phase \in [Id -> {"none", "write", "read", "idle", "closed"}]
    /\ code \in [Id -> {0, 220, 221, 250, 354, 451, 500, 501, 502, 503, 523, 551}]
    /\ receiveMessage \in [Id -> BOOLEAN]
    /\ lastCommand \in [Id -> {"Undefined", "Helo", "MailFrom", "Data", "Rset"}]
    /\ rcpts \in [Id -> Seq(Local)]
    /\ path \in [Id -> BOOLEAN]
    /\ stream \in [Id -> {"closed", "open", "failed"}]
    /\ message \in [Id -> Mail \cup {NoFile}]
    /\ mailbox \in [Mailbox -> [Id -> Mail \cup {NoFile}]]
    /\ restarts \in 0 .. MaxRestart

\* A copy that appears in a mailbox is exactly what its session read between
\* 354 and the final ".", it is for a recipient that session was told 250 for,
\* and it replaces nothing (smtp_session.cpp:302-316, 505-542): text is never
\* mixed, cut or delivered twice, in whatever order HELO, RSET and DATA come.
DeliveredFaithfully ==
    [][\A m \in Mailbox, s \in Id : mailbox'[m][s] # mailbox[m][s] =>
          /\ mailbox[m][s] = NoFile
          /\ mailbox'[m][s] = typed[s]
          /\ m \in Range(rcpts[s])]_vars

\* A client that says HELO, MAIL, RCPT..., DATA, its mail and "." and is told
\* yes each time has its mail in the mailbox of every recipient that has one.
AcceptedMailDelivered ==
    \A s \in Id : dialog[s] = "DOT" =>
        \A m \in Range(rcpts[s]) \cap Mailbox : mailbox[m][s] = typed[s]

\* _recipients is never indexed beyond its end (smtp_session.cpp:405, 448).
RecipientsFit == \A s \in Id : Len(rcpts[s]) <= MaxRcpt

\* The branch of processData that neither replies nor reads is never taken:
\* a session whose last command was DATA is reading mail, not commands.
DataReplied == \A s \in Id : lastCommand[s] = "Data" <=> receiveMessage[s]

\* "end with <CRLF>.<CRLF>": once its mail has ended so, a session that reads
\* on reads commands again.
EndOfMail ==
    \A s \in Id : phase[s] = "read" /\ lastRead[s] \in {"DOT", "TEXTDOT"} => ~receiveMessage[s]

=============================================================================
