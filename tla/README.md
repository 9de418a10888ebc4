# A verification project for network-protocols

The repository is a workbench of small network programs built on Asio: a TFTP
client and server, an SMTP server, an FTP server, two telnet servers, a DNS
server and client. This directory holds TLA+ models of them, TLC configurations
that check the models on small instances, and TLAPS proofs. `PROJECT.json`
lists components, runs, mutants, the map from definitions to source lines, the
hazards, the findings and the theorems.

To repeat a check: `tlc -config <run>.cfg <module>`; to repeat the proofs:
`tlapm <module>.tla` for each of the modules whose name ends in `Proofs`.

## Inventory

| Component | State it keeps | Operations | Interacts with |
|---|---|---|---|
| TFTP client (`tftp/tftp-client.cpp`) | expected or current block number, the local file, `complete`, the netascii carry | `getFile`, `putFile`, blocking `send` and `recv` | the TFTP server, by datagrams |
| TFTP server (`tftp/tftp-server.cpp`) | `_sessions` by remote endpoint; per session a block counter, a stream, `_readComplete`, the state; the files of its directory | the handler of `receive`, `onDataReceived` of read and write sessions, `stop` | TFTP clients; the file system, shared by all sessions |
| SMTP server (`smtp/server`) | `_nextSessionId`, `_sessions`; per session the last command, the recipients, `_receiveMessage`, the message file; the mailboxes | `acceptConnection`, the handlers of read and write, one function per command, delivery | mail clients over TCP; the file system |
| Telnet server (`telnet/server`) | per session the state, options to confirm, user name, password, line buffer, history and its position | the writes of `start`, the handler of `receive`, `addToHistory`, `processEscapeSequence` | terminals over TCP |
| Telnet server (`telnet-server`) | `_sessions`, one receive buffer for all, login status and line per session | accept, `receiveAsync`, `sendBytesToClient`, login callbacks | terminals; the main thread starts and stops it |
| FTP server (`ftp/server`) | per session a thread, current directory, user, transfer type, data socket and acceptor; one data port for all | one handler per command, data connections, transfers | FTP clients over control and data connections; the file system |
| DNS server and client (`dns`) | the records; one datagram at a time | `receive`, `process`, `sendResponse`; `resolve` | each other, by datagrams |
| DNS messages (`dns/common`) | none | encode and decode headers, names, questions, answers | server and client |

All servers but FTP run their handlers on one thread, so a handler is atomic;
what is hard is everything between handlers:

* TFTP: datagrams are lost, repeated and overtake each other; nobody has a
  timeout; a session that is not finished stays for ever and is found by the
  next user of its port; the last ACK goes out before the file is closed; the
  16-bit block number wraps; a restart leaves partial files.
* SMTP: what one read delivers is taken for one command or one line; commands
  come in any order; session numbers and with them file names repeat after a
  restart.
* Telnet: one read is taken for one key; indices into the history at its limit.
* FTP: threads that block in `accept`, a data port shared by all sessions.
* Telnet (`telnet-server`): one receive buffer for all sessions, several reads
  and writes of a session under way, which begin each other.
* DNS: the read loop goes on only through a successful send; every query has the
  same identifier, and the client has no timeout.

What makes each correct: a transfer that reports success has moved exactly the
file, and no file of the server is damaged (TFTP); accepted mail is in the
mailboxes, unmixed, and nothing else is (SMTP); a session takes lines only after
login and what is seen is what is submitted (telnet); a served client stays
served, reads its own text and is freed when it is removed (telnet-server); a
transfer that is reported complete has moved the whole file, and a thread
whose clients go on gets back to its commands (FTP); every query is answered with the record it asks for and the
server goes on (DNS).

## Modules

| Module | Models |
|---|---|
| `Tftp` | clients, server and network |
| `FileService` | nothing of the code: what client and server promise together |
| `TftpService` | `Tftp` as an implementation of `FileService` |
| `MCTftp` | values for the instances of `Tftp` |
| `TftpProofs` | theorems about the server's files, about transfers, and that `Tftp` implements `FileService` |
| `TftpBlocks`, `TftpBlocksProofs` | the netascii conversion, sender and receiver, and theorems |
| `Smtp`, `SmtpProofs` | the SMTP server, its sessions and mailboxes, and theorems |
| `TelnetSession`, `MCTelnet`, `TelnetProofs` | a session of `telnet/server`, its instance, theorems |
| `TelnetServer`, `MCTelnetServer`, `TelnetServerProofs` | the server of `telnet-server` with its sessions, its instance, theorems |
| `Ftp`, `MCFtp`, `FtpProofs` | the FTP server's sessions, data connections and files, its instance, theorems |
| `DnsMessage` | coding and decoding of DNS messages, as operators |
| `Dns`, `MCDns` | DNS server, clients and network over `DnsMessage`, and its instance |
| `DnsMessageProofs` | lemmas about the codecs: what the decoders read of what the encoders wrote |
| `DnsProofs` | theorems about queries, responses and what the clients print |

`Dns` extends `DnsMessage`; `TftpService` extends `Tftp` and instantiates
`FileService`; the MC modules extend what they give values to and the proof
modules what they are about (`TftpProofs` extends `TftpService`, `DnsMessageProofs`
extends `Dns`, and `DnsProofs` extends `DnsMessageProofs`).

### Tftp

A client is one run of the client program and is named by its UDP endpoint. Its
variables are the locals of `getFile` and `putFile`: `blockNo` is
`expectedBlockNumber` or `currBlockNumber`, `out` the content of `outFile`,
`pos` how much of `inFile` is read. A session of the server is the record of
`kind` (which subclass, or none), `counter` (`_blockCounter`), `stream`, `sfile`,
`spos`, `readComplete` and `written`, indexed by endpoint like `_sessions`; an
absent session has the values of a new one. `stream` is "failed" after an `open`
of a stream that is open, which sets failbit in C++ and makes later reads and
writes do nothing. `disk` is the server's directory. `written` are the bytes put
into `_outFile` and `disk` holds a prefix of them until the close: `Flush`
chooses how much.

`ReadRequest`, `ReadAck`, `WriteRequest`, `WriteData`, `Ignore` and `Stray` are
the branches of the handler of `receive`. One handler is split: `WriteData` ends
with the ACK of the last block and `CloseFile` is the rest of it (close, erase).
No other server step can come between (`Ready`), but clients may act, which is
how a client sees the ACK before the file is closed. `Stop` is SIGINT or SIGTERM
between two handlers: the destructors close the files; `Start` is the next run.

The network keeps a set of datagrams per endpoint and direction: delivery in any
order, `Lose`, and delivery of a datagram that stays in flight (`MaxDup`). Two
equal datagrams in flight are one, which a repeated delivery makes up for. A
datagram sent to a server that is down waits for it or is lost. `Reuse` gives a
port to a new client process. Failing opens, sends and receives are choices from
`IoResult`; what the file system queries of WRQ find is a choice from `FsStatus`.

Abstractions: a byte is a small number, a block has `BlockSize` bytes instead of
512, the block number is modulo `W` instead of 2^16, the mode is octet. Client
files and server files are in different directories. `getFile` reads what the
server's file holds at the moment of each block: the read-ahead of `ifstream` is
left out, which matters only for a file that is being written. `promise` is a
history variable: the file as it was when `getFile` began, if nobody was writing it.

`FileService` is the abstract specification of both programs: a store whose
files are created once, grow while they are open towards what one client puts,
and never change afterwards; clients that ask for a copy or a put and get the
whole file, or fail. `TftpService` maps the state of `Tftp` to it: `files` is
`disk` (while the handler of a last block is at work, with the stream's buffer
added, since the server answers nobody until it has closed the file), `open` the
names that have a writing session, `status`, `name` and `began` are `pc`, `file`
and `promise`, and `copy` is `out` of a get that has returned. Datagrams,
blocks, sessions, restarts and losses are stutters.

### TftpBlocks

The loop that fills a block is in the code twice, character by character, with a
carried '\n'. `Turn` is one turn of it and `Fill` the loop: `turn[n]` holds the
locals after n turns, and as a turn that is not the last adds a byte, `size` turns
are enough. `Decode` is the receiver. They are compared with `Netascii`, the
conversion of the whole text at once.

### Smtp

A session is in `phase` "write" or "read" (its one asynchronous operation),
"idle" (a handler that started none) or "closed". An input is what one read
delivers, so that a final "." may come alone or together with text. Addresses
stand for mailbox paths; `Local` are those whose domain directory exists, `Mailbox`
those whose own directory exists. `message[s]` is the message file of session
number s and `mailbox[m][s]` its copy in mailbox m, named after the session
number, which begins again at 1 after `Restart`. The second branch of
`processData` (DATA after DATA) is not an action: `DataReplied` shows that no
session reads a command in that state. `typed`, `lastRead` and `dialog` are history variables.
Not modelled: commands split over two reads, and the reply buffer on the stack
(`smtp_session.cpp:89`), whose content no property is about.

### TelnetSession

`op` is the asynchronous operation under way. Inputs are the reads the code
gives a meaning to; all others change nothing. What the session sends is
carried out by `terminal`, which is not code of the repository but a terminal as
ECMA-48 and the VT100 have it: the row of the cursor, its width, its cells and the
cursor. `Display` writes characters and goes on in a new row behind the last cell,
`EraseRow` is ESC [2K, which leaves the cursor where it is, `CursorLeft` is ESC [nD,
which stops in the first cell. `SendEraseLine` and `Redraw` are what the code sends:
erase, `Home` cells to the left, the buffer. Nothing ties `terminal` to `buffer`
but these sequences. A line may be longer than a row, as in the code, which sets it
no limit; `MaxLine` only keeps the states finite. A wrapped line leaves its first
rows on the screen for good: the model has the row of the cursor, which shows the
end of the line. When the cursor is more than `Home` cells from the left, which takes
a terminal of more than `Home + 1`, HOME does not bring it back and the line is
redrawn displaced; `pastHome` remembers that it has been there, and
`ScreenShowsBuffer` excepts what follows on such terminals. A prompt is one cell. A send
that fails is only logged by the code; nobody sees that terminal. `Prefix` is
`substr` and takes the length modulo `SizeMod`, as `length() - 1` of an empty buffer is.

### TelnetServer

asio completes a read before its handler is called, so `ReadDone` (bytes go into
the one `recvBuffer`, its size into `ready`) and `HandleRead` are two actions;
`HandleRead` has one disjunct per branch of the handler. A write or a failed
operation and its handler are one action, since they share nothing with others.
`reads` and `writes` count the operations of a session, which the code starts
from two places. `state` "removed" is a session that has left `_sessions` while
operations may still hold it. `ConnectThrows` is the exception of
`remote_endpoint`, after which nothing runs. `echoed` and `overlap` are history.
`RECV_BUFFER_SIZE` bounds what one read delivers. `_recvBuffer` holds signed characters, so its test against 0xF0 is always true
and the last `else` of the handler is never taken.

### Ftp

`pc[s]` says where the thread of session s is: "command" is the `read_until` of
`worker`, "listen" and "accept" the two parts of `openDataConnectionPassive`
after the reply 227, "list", "open", "retr" and "stor" the commands that move data,
"sent" and "received" the moment between the last reply and
`closeDataConnection`. An action is what a thread does between two points where
a client or another thread can interfere. `link` and `peer` are `_dataSocket`,
`acceptor` and `backlog` the listening socket: it is listened on from PASV until
the end of the transfer, connections wait in `backlog`, and the port is free
only when no session listens. The file system is `tree` (paths to inodes) and
`content` (inodes to bytes), so that a file that is deleted while it is open goes
on to exist for its stream; `buffer` is what `outFile` has not written yet.
`StorRead` lets `read_some` return any number of bytes. `Translate` replaces the
bytes of a text one by one: with `DropCr` it is what STOR keeps in text mode, with
`EndLines` it is the reference `Wire` for what RETR sends line by line. `code`, `moved`, `want` and
`alone` are the history of the transfer under way.

Commands are one action each; their arguments are the paths they can reach from
`currDir`, and an argument that names nothing is the branch that replies 550.
EPSV and PASV, and LIST and NLST, share their code. Absent replies are 0.
The data structures of the users database are a choice of its answer, and what
main does, waiting for a character and exiting, ends the behaviour.

### DnsMessage and Dns

A message is a sequence with one number per 16- or 32-bit field and one per byte
of a name; names are sequences of characters with dots. `EncodeDomainName` says
of each byte of an encoded name what it is. The loops of `DecodeName` (the queries'
decoder), of `DecodeDomainName` and of `FollowPointers` (the responses' decoder) are
recursive functions over the number of turns: `turn[n]` is the state of the locals
after n turns, and half the length of the message is turns enough, since each takes two
bytes at least. `GetFlag`, `SetFlag` and the rcode operators are the bit
operations of the flag word. `LabelLimit` and `ByteRange` are 64 and 256 in the
code; that two bits of a byte tell a pointer from a length (the mask 0xC0,
`dns_message.cpp:226,246`) is `4 * LabelLimit <= ByteRange`.

`DnsAssumption` says what the programs are used with: labels that are not empty, are
shorter than `LabelLimit` and hold no dot, "in-addr.arpa" only at the end of
the name of an address. Lines of the records file with no name are skipped.

`Dns` has one server and clients that each resolve a list of names. `server`
is the operation under way: "receive", "send", or "idle" when a handler ended
without starting one. `Receive` is the whole handler: decode, look up, encode,
start the send. The client waits in `receive_from` and takes any datagram. In
the initial state the clients use this server (`via` "own") or one that compresses
names and answers with CNAME and A records ("other", as the client's main
program does with 8.8.8.8), which exercises the pointer decoding. `faults`
remembers which of `Fault` has happened: loss, repeated delivery, a failed
send or receive, a datagram that is no query, a stop.

`printed` are the decoded responses as `DNSResponse::dump` shows them. A record keeps its
`data` and its `text`; of an A record, which all of this server's are, the text is the
bytes of the data as numbers with dots in between, and it is the text that is printed.
`ResultFor` says this of a result: the printed numbers are the bytes of the encoded
answer, the lengths of its labels among them. The comment at `dns_response.cpp:93-94` calls
the encoding right for records of type A, but the client of the same library does not decode
it (lines 285-295), so that it never shows the address of the records file. The address itself is printed only for the other server (`PointersFollowed`).

## Runs

| Run | Question | Instance |
|---|---|---|
| `tftp_lossy` | Are finished transfers whole and server files safe under loss, failing I/O, wrapping and a restart, and is the whole a file service? | two clients, four names (one existing, one new, one that cannot be created, the empty one), blocks of 2, `W` = 2, one restart |
| `tftp_dup_reuse` | Can a repeated or late DATA, ACK, ERROR or WRQ damage a finished transfer, and is a file ever overwritten when a port changes hands while its session lives? | one repeat other than of an RRQ, one reuse, `W` = 5 |
| `tftp_fair` | Does every transfer end, and a successful one leave no session? | no loss, fairness |
| `tftp_blocks` | Is the block-wise conversion the conversion of the whole? | every text up to 6 characters, block sizes 2, 3, 4 |
| `smtp_dialog` | In any order of commands, is mail delivered as typed, and orderly mail delivered at all? | one session, two recipients allowed, four addresses |
| `smtp_sessions` | Do concurrent sessions and a restart mix or replace mail? | two sessions, one restart |
| `smtp_end_of_mail` | Does CRLF.CRLF end the mail? (no) | as `smtp_dialog` |
| `telnet_editor` | Is the login enforced, the history usable, and does the row of the cursor show what Enter submits, whatever the terminal's width? | two characters, lines of 3, history of 2, rows of 1 to 4 cells, HOME by 2 |
| `telnet_server` | Is a client of the second telnet server always served, with its own text, and freed when removed? | two sessions, three inputs |
| `ftp_sessions` | Do transfers move whole files while others delete and store, does the shared port have one user, does a thread come back when its clients go on? | two sessions, four commands, buffers of 2, a two-line file, uploads of 2 and 5 bytes |
| `ftp_stor_reply` | Does 226 after STOR mean that the file was received? (no) | as `ftp_sessions` |
| `dns_lookup` | Is what the client prints the answer to its name, and does the server go on listening? | two clients, four names, one kind of fault at a time |

The bounds. Files of two and three bytes in blocks of two give a full and a
short block, and a full and an empty one. `W` = 2 makes block numbers wrap within
a file; where datagrams are repeated, `W` = 5 keeps them distinct within one
transfer as 2^16 does, since a datagram delayed by a whole cycle is not what the
run is about. Two clients are enough for a reader and a writer, or two writers, of
one file. Two lines of history allow a repeated line, an erased one and both
ends of the arrow keys. Six characters with blocks of two to four put a pair at
and across every boundary. Two FTP sessions are what it takes to compete for the
port or a file; four commands allow one session PASV, STOR and the other a
connection and a command on the same file. An upload of two bytes ends on a full
buffer, one of five on a short one. In `telnet_editor` lines of three characters wrap on rows of
one and two cells, fit on wider ones, and pass HOME's way of two cells on the widest. The DNS names have one and two labels and the reverse name
of an address; two of them have an alias, which makes a pointer lead to a label and a
further pointer. The two inputs of the first telnet client allow two echoes and with them
two reads under way; the second client's text comes in between.

`tftp_dup_reuse` leaves out two cases that do go wrong: a repeated RRQ, which
reopens the stream of its session and can truncate a GET that reports success, and
a repeated WRQ that reaches a restarted server. The first is among the hazards.
`smtp_dialog` has no restart: after one, a copy of the same name may be in the
mailbox, the copy fails and the mail that was accepted is lost.

Some properties hold under a condition, and what happens outside it is what the
code does and the hazards list: `GetIntact` and `PutIntact` while no port has
changed hands (a WRQ that meets a session left behind is acknowledged and its
data go nowhere), `PutIntact` and the file service for names that can be
opened (the server acknowledges the others too), `RetrIntact` and
`StoredIsReceived` for a file that one session writes, `AnswerMatches`, in its
part that it is the answer to this name, while no datagram is repeated (the client takes
a late answer for the next name; that it is a whole answer to one of its earlier names
holds always), `ScreenShowsBuffer` while HOME reaches the left margin, `OwnText` while no read completes before the handler of another has run.

Fairness. `Tftp`: weak fairness of each client's and each session's steps: the
io_context runs the handler of a datagram that has arrived, and a client blocked
in `receive_from` is woken by its datagram. Nothing is assumed of loss, which
`tftp_fair` excludes: without timeouts a lost datagram does hang a client.
`Ftp`: each session's thread goes on as far as it needs nobody (`Runs`); a client whose
port is listened on connects; and the peer of a transfer does not leave it waiting for
ever (`PeerMoves`): it goes on sending or reading, or closes. The last two are
provisos about the clients and not about the code, in which neither `accept` nor
`read_some` nor `write` has a timeout: without either of them TLC finds a session that never
gets back to its commands, and `Responsive` says no more than that the code adds no way to
block of its own. `TelnetServer`: the worker
completes operations and runs handlers as long as it runs. `Dns`: the server's
handlers and the clients go on and the other server answers; nothing is assumed of faults.

Deadlock checking is off because these systems end: clients finish or wait for
ever for a lost datagram, mail and FTP sessions close, a telnet server stops.

## Findings

* `ftp_stor_reply`: `handleStor` takes a read of fewer than 512 bytes for the end of
  the file, replies "226 The file transferred successfully" with a part of it stored
  and closes the connection the client is still sending on.
* `smtp_end_of_mail`: the final line is recognised only in a read of its own, and
  mail mode does not end even then.

## Proofs

The theorems hold for every value of the constants that the assumption of the
module allows (the constants have their types, "none" values differ from real
ones, sizes are not zero): any number of clients and sessions, any files and
texts, any buffer and block sizes, any bound. Every inductive invariant named
here was first checked by TLC on the runs of its module.

### TFTP: the server's files

`TftpProofs` proves under every fault of the model (loss, repeated delivery,
reordering, reuse of ports, failing I/O, restarts):

* `TypeCorrect`: `Spec => []TypeOK`;
* `SingleWriter`: `Spec => []OneWriter`;
* `FilesSurvive`: `Spec => ExistingFilesKept`.

`OneWriter` is not inductive. `FileInv` adds `StreamsOpen` (a stream that is not
closed belongs to a session and to a file that exists, so a name that
`MayCreate` has no writer), `Ahead` (a file being written holds a prefix of what
was written, so a flush or a close only lengthens it), `ClosingWrites` (the file
being closed is a write session's) and `RestartLeft`. The argument has two
halves. `ServerEffect` reduces every server step to one of five effects on a
session and the files: it holds what it has, opens an existing file, creates one,
appends, or closes. `EffectFiles` and `EffectInv` then work with the effects
only. Clients and the network do not touch the server (`ClientFrame`); `Stop`
writes out prefixes that `Ahead` bounds. `FileInvariant` combines them.

### TFTP: transfers, and the file service

`TftpProofs` also proves, as long as no datagram has been delivered twice
(`dups = 0`) and no port has changed hands (`reuses = 0`; both together are
`Undisturbed`):

* `Dialogues`: `Spec => [](Undisturbed => StopAndWait)`;
* `GetsPrefix`: `Spec => [](Undisturbed => GetPrefix)`;
* `GetsWhole`, `PutsWhole`: `Spec => [](dups = 0 => GetIntact)`, and `PutIntact`
  (which except reused ports themselves).

Losses, failing sends, receives and opens, other clients' transfers, wrapping
block numbers and restarts are all included: since nothing is sent again, a loss
ends a transfer and does not confuse it. The conditions are needed. With a repeated RRQ
`GetIntact` is false, as the hazards say; `tftp_dup_reuse` shows that the
repeats of other datagrams do no harm where block numbers stay distinct within a
transfer, and with a smaller modulus they do. `TransferInv` is
`FileInv` with, while `Undisturbed`, a `Dialogue` for each client: there is at most one
datagram between a client and its session, and which one it is says where both
are. `GetBlock` and `PutBlock` (a block is on its way), `GetAcked` and `PutAcked` (its
acknowledgement is) relate the two block counters modulo `W`, the positions in
the files and the bytes moved; `Requested` is the beginning and `Fresh` the state
before it. A session erased by a restart leaves a client that gets an error.
Block numbers alone cannot carry the argument, because they wrap; that there is
only one datagram can.

The last theorem is `Refinement`: with `MaxDup = 0` and `MaxReuse = 0`,
`Spec => ImplementsFileService`. Each step is shown to be the step of
`FileService` that the refinement mapping makes of it, or a stutter: a client
begins, fails, is done or has its copy; a WRQ creates a file; a flush, a
close, or a restart lengthens one. The proof needs `TransferInv` where a copy
or a put is reported whole.

### TFTP: netascii

`TftpBlocksProofs` proves `Wire` (`WireIsNetascii`), `Fits` (`BlocksFit`) and
`FileComesAcross` (`RoundTrip`) for every file and every block size of at least two:
with blocks of one byte a carried '\n' and the character behind it would not fit, and
`BlocksAssumption` excludes them. `BlocksInv` says that the blocks sent,
followed by a '\n' that is owed, are the conversion of what has been read
(`Converted`); that a short block comes at the end of the file and owes nothing
(`ShortLast`); that the receiver has decoded the blocks as if they were one
(`Stored`). `FillBlock` shows the same of one block, by induction over the
turns of the loop: `TurnStep` keeps `Turned`, in which a '\n' is owed only before
the first byte or behind the last, and which is why at most one of them has to
be carried out and the block does not overflow. The round trip is then
`DecodeNetascii`: dropping '\r' from the conversion is dropping it from the file.

### SMTP

`SmtpProofs`: `TypeCorrect`, `RecipientsBounded` (`RecipientsFit`), `DataAlwaysReplied`
(`DataReplied`), `MailArrives` (`AcceptedMailDelivered` while there has been no restart:
afterwards a mailbox may hold a file of the same name) and the action property
`CopiesFaithful` (`DeliveredFaithfully`, restarts included). `SmtpInv`
consists of, for each session number: `MessageKept` (while the stream is open the message file
holds the text read so far; once it is closed the file that the path names has
been removed), `Commands` (mail is read exactly after DATA; the recipients fit) and
`Orderly` (numbers not given out yet have left nothing, and how far a dialogue
has come says whether the copies are there).

### Telnet

`TelnetProofs`: `TypeCorrect`, `CommandsNeedLogin` (`OnlyLoggedIn`), `HistoryPosition`
(`HistoryPosInside`), `ScreenFaithful` (`ScreenShowsBuffer`) and
`EnteredBecomesCurrent` (`EnteredIsCurrent`), from `SessionInv`: the two
invariants of history and screen, options that wait only during negotiation, credentials
that are complete in the editor, and `InReach`: while the cursor has never been past
HOME's way it is in reach of it. `ScreenFaithful` is for any `Home`, width and line length.
Its arithmetic is that of wrapping: `DisplayLine` shows that a line written from the
first cell ends in its last `((n - 1) % width) + 1` characters, `DisplayKey` that one more
character keeps that, in the row or at its end (`ModFacts`); `RedrawStep` and `KeyStep`
are what redrawing and echo do to a row that showed the buffer.

`TelnetServerProofs`: `TypeCorrect`, `ClientsServed` (`StillServed`), `NoCrossTalk`
(`OwnText`) and `NobodyLogsIn`. `ServerInv` adds to them that the socket of a client
holds that client's bytes (`InboxOwn`), that while no reads have overlapped one
handler waits at a time and the first bytes of the shared buffer are its client's
(`OneWaits`), and that lines then hold only such bytes (`LineOwn`). `NobodyLogsIn`
came out of the proof: the line that `onMessageReceived` is given still ends with the
bytes of the line end, so `logIn` never finds the user's name and every
line ends its session. The assumption that the texts of `main.cpp` hold no CR
and do not begin with a dot is part of `TelnetServerAssumption`.

### FTP

`FtpProofs`: `TypeCorrect`, `RetrievesWhole` (`RetrIntact`), `StoresWhole`
(`StoredIsReceived`) and `OnePassiveSession` (`OnePassive`). `FtpInv` has, besides types,
`Listens` (whoever waits in accept or has a passive connection listens, and one session
does) and `Transfer(s)` for each session: between transfers no stream is open (`Idle`);
while nobody else writes the file, RETR has sent `Sent(want, pos, type)`, that is
what is on the wire for the part already read (`Sending`), and the file with
the stream's buffer is what STOR has received (`Storing`). `SentWhole` and `StoredWhole` are
what is left of them after the last reply. `Apart` is what a step owes the other
sessions: their files do not change without `alone` becoming false.

That reading line by line sends what translating the whole file gives
(`SentStepAscii`), and that dropping '\r' from pieces is dropping it from the whole
(`StoredConcat`), are facts about `FlattenSeq`, which is defined by recursion.
They are proved by induction: `LeastNatural` takes the least element of a set of numbers
from the well-foundedness of `<`, and `Induction` concludes that a set closed under
successor contains an interval. Both are about sets, so that no operator has
to be instantiated.

### DNS

`DnsMessageProofs` and `DnsProofs` prove, for any names, records file, clients
and faults:

* `QueryDecoded`: what the server decodes of a query is what the client encoded;
* `ResponseDecoded`: what a client decodes of this server's response is the
  query's name and one record with that name and type, whose data is the encoding of
  what `Process` looked up, and whose text, for type A, is its bytes as numbers;
* `RdataIs`: what `Process` looks up, with the name of an address taken apart and
  reversed text by text (`GetIpAddrFromQname`), is what the file says in terms of labels (`Expected`);
* `Safe`, `TypeCorrect`, `AnswersMatch` and `PointersLead`: the inductive invariant, and
  `TypeOK`, `AnswerMatches` and `PointersFollowed` from it.

The invariant `IInv` has five parts. `Types`; `InOrder` (a client has printed a
result for each name it no longer has to resolve, and waits only with a name left);
`Queries` (a datagram to the server is the query for some name or the
one that is no query); `Faithful`, which is about `Trusted` states only: each client has one
thing under way, its query, the response being sent or the response on its
way, and that is about the name it asks for (`UnderWay`), and what it has printed answers
its names (`Printed`); `Own`, which holds in all states: queries, responses and results of a
client are about names it has asked for so far (`SoFar`). It is `UnderWay` that fails when a datagram is delivered twice: all
queries have one identifier, so that a client cannot tell a late response from the
one it waits for.

The invariant reduces the properties to the round trip of a name, and that needs
the structure of texts. A name is the `Join` of labels that hold no dot; the
encoded name is the labels, each behind its length, and a 0. The lemmas
about `Join` and about `ReadLabels` are inductions over the labels: after n turns
the decoder has the first n labels and stands behind them. Where a byte of a name
stands in a message is said with `Placed`, so that concatenations are taken apart
once. `LabelLimit` matters twice: it keeps a length from being a pointer, and the first
byte of a pointer, `3 * LabelLimit` and more, in a byte.

### Only model-checked

* The liveness properties (`TransferEnds`, `SessionErased`, `Completes`, `Released`,
  `InputRead`, `Responsive`, `Answered`): fairness is outside the prover's reach.
* `GetIntact`, `PutIntact` and `GetPrefix` with repeated datagrams, which hold for
  the repeats and moduli of `tftp_dup_reuse` only.
* `AcceptedMailDelivered` is false after a restart and neither proved nor checked there.
* Properties that some run refutes (`EndOfMail`, `Success226`) are findings.

Every invariant that a passing run checks is proved, for the cases named above.

## Plan

The modules, runs and theorems above are written. What could follow: the read-ahead of
`ifstream` in `getFile`, connections that deliver part of a command (SMTP), and the
authority and additional sections of DNS responses.

## Not modelled

Splitting and date formatting helpers and logging have no state. Asio is
vendored; the models use what the code relies on: handlers run one at a time and
an operation succeeds or fails. Buffers that are gone when an asynchronous write
ends (`smtp_session.cpp:89`, `telnet_session.cpp:28`, `server.cpp:178`,
`dns_server.cpp:148`) are outside the models, which do not look at such bytes, or
take them as sent. The authority and additional sections of DNS responses are not kept by
the model: the code decodes them into storage that was only reserved. DNS messages that are
malformed, and names with labels of 64 characters or a trailing dot, are not among the
inputs: the decoders check no bounds, and what they read there is undefined. `DNSResolver`'s file is read once, before the server starts.
