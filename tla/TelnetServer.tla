---------------------------- MODULE TelnetServer ----------------------------
(***************************************************************************)
(* The second telnet server (telnet-server): Server, its Sessions and the  *)
(* callbacks of main.cpp, on one io_context thread.  Reads of all sessions *)
(* go into the one _recvBuffer, and a read that asio has completed may     *)
(* have its handler wait while further reads complete: a read and its      *)
(* handler are two actions.  The end of a write and its handler are one,   *)
(* and so are a failed operation and its handler, which only logs.         *)
(*                                                                         *)
(* _recvBuffer is an array of (signed) char, so _recvBuffer[0] < 0xF0      *)
(* always holds and telnet options are taken for typed characters.  The    *)
(* branch sz == 0 is left out: the end of a stream is an error in asio.    *)
(***************************************************************************)
EXTENDS Integers, SequencesExt

CONSTANTS
    Session,    \* connections
    Input,      \* of a client: what it may send at once, sequences of characters
    Username,   \* the texts logIn expects
    Password,
    Exit,       \* the commands that end a session
    RECV_BUFFER_SIZE, \* 1024 in the code
    MaxInput    \* bound: inputs of a client

Char == {"u", "p", ".", "CR", "LF", "BS", "DEL", "NUL"}

\* The texts of main.cpp hold letters only.
ASSUME TelnetServerAssumption ==
    /\ \A s \in Session : Input[s] \subseteq Seq(Char) \ {<<>>}
    /\ {Username, Password} \cup Exit \subseteq Seq(Char \ {"CR"})
    /\ \A t \in {Username, Password} \cup Exit : t # <<>> => Head(t) # "."
    /\ RECV_BUFFER_SIZE \in Nat \ {0, 1}
    /\ MaxInput \in [Session -> Nat]

VARIABLES
    running,    \* the worker thread runs
    state,      \* of session s: "none", "open", "removed"
    alive,      \* the client of s has not closed its connection
    sent,       \* inputs the client of s has sent
    inbox,      \* bytes that wait in the socket of s
    recvBuffer, \* _recvBuffer
    reads,      \* reads of s under way
    writes,     \* writes of s under way
    ready,      \* sizes of the complete reads of s whose handlers have not run
    receivedData, \* _receivedData
    authStatus, \* _authStatus
    echoed,     \* history: handlers that echoed what s typed
    overlap     \* history: a read completed while a handler waited

clientVars == <<alive, sent, inbox>>
opVars == <<recvBuffer, reads, writes, ready, overlap>>
sessionVars == <<receivedData, authStatus, echoed>>
vars == <<running, state, clientVars, opVars, sessionVars>>

Each(v) == [s \in Session |-> v]

(***************************************************************************)
(* Connections and clients.                                                *)
(***************************************************************************)
Connect_NotInserted(s) ==
    /\ running /\ state[s] = "none"
    /\ alive' = [alive EXCEPT ![s] = TRUE]
    /\ writes' = [writes EXCEPT ![s] = 1]
    /\ UNCHANGED <<running, state, sent, inbox, recvBuffer, reads, ready, overlap, sessionVars>>

\* handleConnection: the options are sent, and the read begins when they are.
Connect(s) ==
    /\ running /\ state[s] = "none"
    /\ state' = [state EXCEPT ![s] = "open"]
    /\ alive' = [alive EXCEPT ![s] = TRUE]
    /\ writes' = [writes EXCEPT ![s] = 1]
    /\ UNCHANGED <<running, sent, inbox, recvBuffer, reads, ready, overlap, sessionVars>>

\* The client has gone when remote_endpoint is called: it throws, the
\* exception leaves run() and the worker ends.
ConnectThrows(s) ==
    /\ running /\ state[s] = "none"
    /\ running' = FALSE
    /\ UNCHANGED <<state, clientVars, opVars, sessionVars>>

\* 'q' on standard input: Server::stop, and the process ends.
Stop ==
    /\ running /\ running' = FALSE
    /\ state' = Each("none") /\ alive' = Each(FALSE) /\ sent' = Each(0)
    /\ inbox' = Each(<<>>) /\ recvBuffer' = [i \in 1 .. RECV_BUFFER_SIZE |-> "NUL"] /\ reads' = Each(0)
    /\ writes' = Each(0) /\ ready' = Each(<<>>) /\ receivedData' = Each(<<>>)
    /\ authStatus' = Each("Guest") /\ echoed' = Each(0) /\ overlap' = FALSE

Send(s, in) ==
    /\ running /\ state[s] = "open" /\ alive[s]
    /\ sent[s] < MaxInput[s]
    /\ sent' = [sent EXCEPT ![s] = @ + 1]
    /\ inbox' = [inbox EXCEPT ![s] = @ \o in]
    /\ UNCHANGED <<running, state, alive, opVars, sessionVars>>

HangUp(s) ==
    /\ running /\ alive[s]
    /\ alive' = [alive EXCEPT ![s] = FALSE]
    /\ UNCHANGED <<running, state, sent, inbox, opVars, sessionVars>>

(***************************************************************************)
(* Operations.                                                             *)
(***************************************************************************)
\* async_read_some completes with a part of what has arrived; what an earlier
\* read left behind it stays in the buffer.
ReadDone(s) ==
    /\ running /\ state[s] = "open" /\ reads[s] > 0
    /\ \E n \in 1 .. RECV_BUFFER_SIZE :
          /\ n <= Len(inbox[s])
          /\ recvBuffer' = SubSeq(inbox[s], 1, n) \o SubSeq(recvBuffer, n + 1, Len(recvBuffer))
          /\ inbox' = [inbox EXCEPT ![s] = SubSeq(@, n + 1, Len(@))]
          /\ ready' = [ready EXCEPT ![s] = Append(@, n)]
    /\ reads' = [reads EXCEPT ![s] = @ - 1]
    /\ overlap' = (overlap \/ \E q \in Session : ready[q] # <<>>)
    /\ UNCHANGED <<running, state, alive, sent, writes, sessionVars>>

Broken_NotClosed(s) == ~alive[s]

\* removeClient closed the socket, or the client has gone.
Broken(s) == state[s] = "removed" \/ ~alive[s]

ReadFails(s) ==
    /\ running /\ reads[s] > 0 /\ Broken(s)
    /\ reads' = [reads EXCEPT ![s] = @ - 1]
    /\ UNCHANGED <<running, state, clientVars, recvBuffer, writes, ready, overlap, sessionVars>>

WriteDone_NoRead(s) ==
    /\ running /\ writes[s] > 0
    /\ writes' = [writes EXCEPT ![s] = @ - 1]
    /\ UNCHANGED <<running, state, clientVars, recvBuffer, reads, ready, overlap, sessionVars>>

\* sendBytesToClient's handler begins a read.
WriteDone(s) ==
    /\ running /\ writes[s] > 0
    /\ writes' = [writes EXCEPT ![s] = @ - 1]
    /\ reads' = [reads EXCEPT ![s] = @ + 1]
    /\ UNCHANGED <<running, state, clientVars, recvBuffer, ready, overlap, sessionVars>>

WriteFails(s) ==
    /\ running /\ writes[s] > 0 /\ Broken(s)
    /\ writes' = [writes EXCEPT ![s] = @ - 1]
    /\ UNCHANGED <<running, state, clientVars, recvBuffer, reads, ready, overlap, sessionVars>>

(***************************************************************************)
(* The handler of a read.                                                  *)
(***************************************************************************)
\* sendBytesToClient begins a write, receiveAsync a read.
SendBytes(s) == writes' = [writes EXCEPT ![s] = @ + 1]
ReceiveAsync(s) == reads' = [reads EXCEPT ![s] = @ + 1]

\* logIn: the status after a text that it accepts.
LogIn(s, message) ==
    CASE authStatus[s] = "Guest" /\ message = Username -> "Authenticating"
      [] authStatus[s] = "Authenticating" /\ message = Password -> "LoggedIn"
      [] OTHER -> authStatus[s]

Dismissed(s, message) ==
    IF authStatus[s] = "LoggedIn" THEN message \in Exit
    ELSE LogIn(s, message) = authStatus[s]

\* removeClient: what is under way is cancelled, the socket is closed.
RemoveClient(s) ==
    /\ state' = [state EXCEPT ![s] = "removed"]
    /\ inbox' = [inbox EXCEPT ![s] = <<>>]

\* onMessageReceived.  The functions that would answer the client are empty.
OnMessageReceived(s, message) ==
    /\ authStatus' = [authStatus EXCEPT ![s] = LogIn(s, message)]
    /\ IF Dismissed(s, message) THEN RemoveClient(s) ELSE UNCHANGED <<state, inbox>>

\* The second byte may be one that an earlier read left.
LineEnd(s) ==
    \/ recvBuffer[1] = "." /\ recvBuffer[2] = "CR" /\ receivedData[s] = <<>>
    \/ recvBuffer[1] = "CR" /\ recvBuffer[2] = "LF"

Received_WholeBuffer(s) == recvBuffer

\* What the handler takes for the bytes of s: later reads may have changed it.
Received(s) == SubSeq(recvBuffer, 1, Head(ready[s]))

HandleLine(s) ==
    /\ LineEnd(s)
    /\ OnMessageReceived(s, receivedData[s] \o Received(s))
    /\ receivedData' = [receivedData EXCEPT ![s] = <<>>]
    /\ UNCHANGED <<reads, writes, echoed>>

HandleBackspace_Waits(s) ==
    /\ ~LineEnd(s) /\ recvBuffer[1] = "BS" /\ receivedData[s] = <<>>
    /\ UNCHANGED <<state, inbox, reads, writes, receivedData, authStatus, echoed>>

\* Backspace in an empty line.
HandleBackspace(s) ==
    /\ ~LineEnd(s) /\ recvBuffer[1] = "BS" /\ receivedData[s] = <<>>
    /\ ReceiveAsync(s)
    /\ UNCHANGED <<state, inbox, writes, receivedData, authStatus, echoed>>

HandleErase(s) ==
    /\ ~LineEnd(s) /\ recvBuffer[1] = "BS" /\ receivedData[s] # <<>>
    /\ receivedData' = [receivedData EXCEPT ![s] = Front(@)]
    /\ SendBytes(s)
    /\ UNCHANGED <<state, inbox, reads, authStatus, echoed>>

HandleDelete(s) ==
    /\ ~LineEnd(s) /\ recvBuffer[1] = "DEL"
    /\ ReceiveAsync(s)
    /\ UNCHANGED <<state, inbox, writes, receivedData, authStatus, echoed>>

\* The echo, whose handler begins a read, and a read.
HandleText(s) ==
    /\ ~LineEnd(s) /\ recvBuffer[1] \notin {"BS", "DEL"}
    /\ receivedData' = [receivedData EXCEPT ![s] = @ \o Received(s)]
    /\ SendBytes(s) /\ ReceiveAsync(s)
    /\ echoed' = [echoed EXCEPT ![s] = @ + 1]
    /\ UNCHANGED <<state, inbox, authStatus>>

HandleRead(s) ==
    /\ running /\ ready[s] # <<>>
    /\ \/ HandleLine(s)
       \/ HandleBackspace(s)
       \/ HandleErase(s)
       \/ HandleDelete(s)
       \/ HandleText(s)
    /\ ready' = [ready EXCEPT ![s] = Tail(@)]
    /\ UNCHANGED <<running, alive, sent, recvBuffer, overlap>>

(***************************************************************************)
(* The specification.                                                      *)
(***************************************************************************)
\* The Server is a static object: its _recvBuffer starts as zeros.
Init ==
    /\ running = TRUE
    /\ state = Each("none") /\ alive = Each(FALSE) /\ sent = Each(0)
    /\ inbox = Each(<<>>) /\ recvBuffer = [i \in 1 .. RECV_BUFFER_SIZE |-> "NUL"] /\ reads = Each(0)
    /\ writes = Each(0) /\ ready = Each(<<>>) /\ receivedData = Each(<<>>)
    /\ authStatus = Each("Guest") /\ echoed = Each(0) /\ overlap = FALSE

Next ==
    \/ Stop
    \/ \E s \in Session :
          \/ Connect(s)
          \/ ConnectThrows(s)
          \/ \E in \in Input[s] : Send(s, in)
          \/ HangUp(s)
          \/ ReadDone(s)
          \/ ReadFails(s)
          \/ WriteDone(s)
          \/ WriteFails(s)
          \/ HandleRead(s)

Spec == Init /\ [][Next]_vars

\* The io_context thread, while it runs, completes and handles operations.
FairSpec ==
    /\ Spec
    /\ \A s \in Session :
          /\ WF_vars(ReadDone(s) \/ ReadFails(s))
          /\ WF_vars(WriteDone(s) \/ WriteFails(s))
          /\ WF_vars(HandleRead(s))

(***************************************************************************)
(* Properties.                                                             *)
(***************************************************************************)
\* Types; a session that is not connected yet has nothing under way.
TypeOK ==
    /\ running \in BOOLEAN /\ overlap \in BOOLEAN
    /\ state \in [Session -> {"none", "open", "removed"}]
    /\ alive \in [Session -> BOOLEAN]
    /\ authStatus \in [Session -> {"Guest", "Authenticating", "LoggedIn"}]
    /\ recvBuffer \in [1 .. RECV_BUFFER_SIZE -> Char]
    /\ inbox \in [Session -> Seq(Char)] /\ receivedData \in [Session -> Seq(Char)]
    /\ ready \in [Session -> Seq(1 .. RECV_BUFFER_SIZE)]
    /\ reads \in [Session -> Nat] /\ writes \in [Session -> Nat]
    /\ echoed \in [Session -> Nat] /\ sent \in [Session -> Nat]
    /\ \A s \in Session :
          /\ sent[s] <= MaxInput[s]
          /\ state[s] = "none" => reads[s] + writes[s] + Len(ready[s]) = 0

\* receiveAsync and sendBytesToClient begin each other: while the client is
\* connected the session is never without an operation, and it has one more for
\* every echo, because both the end of the echo and the handler begin a read.
StillServed ==
    \A s \in Session :
        state[s] = "open" /\ alive[s] =>
            reads[s] + writes[s] + Len(ready[s]) = 1 + echoed[s]

\* _recvBuffer is shared: a session collects only what its own client can have
\* sent, unless a read completed while the handler of another one had not run.
OwnText ==
    ~overlap => \A s \in Session :
                    ToSet(receivedData[s]) \subseteq UNION {ToSet(in) : in \in Input[s]}

\* removeClient only closes the socket; the Session is freed with the last handler
\* that holds it.  Every operation of a removed session ends, whatever its
\* handlers begin after the removal, as long as the worker runs.
Released ==
    \A s \in Session :
        state[s] = "removed" ~> \/ ~running
                                \/ reads[s] + writes[s] + Len(ready[s]) = 0

\* What a connected client has typed is read from its socket, though the read
\* that takes it was begun by the end of some earlier write.
InputRead ==
    \A s \in Session :
        inbox[s] # <<>> ~> inbox[s] = <<>> \/ ~running \/ Broken(s)
=============================================================================
