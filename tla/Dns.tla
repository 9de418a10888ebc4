-------------------------------- MODULE Dns --------------------------------
(***************************************************************************)
(* The DNS server (dns/server) and clients (dns/client) that resolve names *)
(* one after another.  The server is one thread with one asynchronous      *)
(* operation at a time: it waits for a query, or sends the response to the *)
(* last one.  A client is blocked in receive_from until a datagram comes.  *)
(* In place of this server the clients may use another one (their main     *)
(* names 8.8.8.8), which compresses names and gives addresses as bytes.    *)
(***************************************************************************)
EXTENDS DnsMessage, SequencesExt

CONSTANTS
    Client,
    NoClient,
    Argv,       \* Argv[c]: the names client c resolves, each as its labels
    Line,       \* the lines of the file "dns-records", each the labels of an
                \* address and of a name, which is empty in an invalid line
    Alias,      \* Alias[n]: a label the other server puts before n, or none
    Address,    \* the bytes of the address the other server gives
    Ttl,        \* values of the field _ttl, which is never set
    Fault,      \* what may go wrong, of AnyFault
    MaxFault    \* bound: kinds of faults in one behaviour

AnyFault == {"lose", "dup", "io", "recv", "nonquery", "stop"}
Label == Seq(1 .. ByteRange - 1)
Text == Seq(1 .. ByteRange - 1)

QueryId == 43690   \* 0xAAAA

VARIABLES
    via,            \* "own" or "other": the server that the clients use
    server,         \* "receive", "send", "idle" (no operation), "stopped"
    clientEndpoint, \* _clientEndpoint
    outgoing,       \* the message being sent
    todo,           \* the names client c has to resolve, the current one first
    waiting,        \* client c is in receive_from
    toServer,       \* datagrams on their way to the server, with their senders
    toClient,       \* datagrams on their way to client c
    printed,        \* what client c has printed for each name resolved
    faults          \* history: what has gone wrong

serverVars == <<server, clientEndpoint, outgoing>>
clientVars == <<todo, waiting, printed>>
vars == <<via, serverVars, clientVars, toServer, toClient, faults>>

Goes(f) ==
    /\ f \in Fault /\ (f \in faults \/ Cardinality(faults) < MaxFault)
    /\ faults' = faults \cup {f}

(***************************************************************************)
(* DNSResolver.                                                            *)
(***************************************************************************)
Join(labels) ==
    LET upTo[i \in 0 .. Len(labels)] ==
            IF i = 0 THEN <<>>
            ELSE upTo[i - 1] \o (IF i > 1 THEN <<Dot>> ELSE <<>>) \o labels[i]
    IN  upTo[Len(labels)]

\* loadRecordsFromFile and addLine: a line without a second word is skipped.
Records == {i \in DOMAIN Line : Line[i].name # <<>>}

FindAddress(name) ==
    LET hits == {i \in Records : Join(Line[i].name) = name}
    IN  IF hits = {} THEN <<>> ELSE Join(Line[Min(hits)].addr)

FindDomainName(addr) ==
    LET hits == {i \in Records : Join(Line[i].addr) = addr}
    IN  IF hits = {} THEN <<>> ELSE Join(Line[Min(hits)].name)

GetIpAddrFromQname_Forward(qname) ==
    LET hits == {i \in 1 .. Len(qname) - 1 : qname[i] = Dot /\ qname[i + 1] = Arpa}
    IN  IF hits = {} THEN <<>> ELSE SubSeq(qname, 1, Min(hits) - 1)

\* What is before ".in-addr.arpa", its labels in reverse; empty without it.
GetIpAddrFromQname(qname) ==
    LET hits == {i \in 1 .. Len(qname) - 1 : qname[i] = Dot /\ qname[i + 1] = Arpa}
        turn[n \in 0 .. Len(qname)] ==
            IF n = 0 THEN [tmp |-> SubSeq(qname, 1, Min(hits) - 1), ipAddr |-> <<>>]
            ELSE LET r == turn[n - 1]
                     p == Max(Dots(r.tmp, 1))
                 IN  IF Dots(r.tmp, 1) = {} THEN r
                     ELSE [tmp |-> SubSeq(r.tmp, 1, p - 1),
                           ipAddr |-> Append(r.ipAddr \o SubSeq(r.tmp, p + 1, Len(r.tmp)), Dot)]
        last == turn[Len(qname)]
    IN  IF hits = {} THEN <<>> ELSE last.ipAddr \o last.tmp

\* DNSResolver::process and DNSResponse::encode.
Process(query, ttl) ==
    LET ipAddr == GetIpAddrFromQname(query.name)
        rdata == IF ipAddr # <<>> THEN FindDomainName(ipAddr) ELSE FindAddress(query.name)
        rcode == IF rdata = <<>> THEN NameError ELSE NoError
    IN  EncodeResponse(query.id, SetRcode(SetFlag(0, QR, TRUE), rcode),
                       query.name, query.type, query.cls, ttl, rdata)

\* The other server: the canonical name of n, if it has one, is a label before
\* n, and the names of the answers are pointers into the message.
Pointer(offset) == <<3 * LabelLimit + offset \div ByteRange, offset % ByteRange>>

OtherResponse(query) ==
    LET n == EncodeDomainName(query.name)
        label == Alias[query.name]
        cname == <<Len(label)>> \o label \o Pointer(HeaderSize)
        first == Pointer(HeaderSize) \o <<TypeCname, query.cls, 0, Len(cname)>>
        start == HeaderSize + Len(n) + 2 + Len(first)
        address == <<TypeA, query.cls, 0, Len(Address)>> \o Address
        question(k) == Header(query.id, SetFlag(0, QR, TRUE), 1, k) \o n \o <<query.type, query.cls>>
    IN  IF label = <<>> THEN question(1) \o Pointer(HeaderSize) \o address
        ELSE question(2) \o first \o cname \o Pointer(start) \o address

\* The messages that can be under way, and what is made of each of them.
Asked == [c \in Client |-> [i \in DOMAIN Argv[c] |-> Join(Argv[c][i])]]
Names == UNION {Range(Asked[c]) : c \in Client}

\* Texts are what the programs are used with: labels that are not empty, fit
\* behind a length byte and hold no dot; "in-addr.arpa" ends the name of an
\* address and begins no other label behind a dot.  A pointer reaches the
\* names of the other server's response.
IsLabels(s) ==
    /\ s \in Seq(Label) /\ s # <<>>
    /\ \A i \in DOMAIN s : s[i] # <<>> /\ Len(s[i]) < LabelLimit /\ Dot \notin Range(s[i])

ASSUME DnsAssumption ==
    /\ NoClient \notin Client
    /\ \A c \in Client :
          /\ Argv[c] \in Seq(Seq(Label))
          /\ \A i \in DOMAIN Argv[c] :
                /\ IsLabels(Argv[c][i])
                /\ \A j \in 2 .. Len(Argv[c][i]) :
                      Argv[c][i][j][1] = Arpa => j = Len(Argv[c][i]) /\ Len(Argv[c][i][j]) = 1
    /\ Line \in Seq([addr : Seq(Label), name : Seq(Label)])
    /\ \A i \in Records :
          /\ IsLabels(Line[i].addr) /\ IsLabels(Line[i].name)
          /\ \A j \in 2 .. Len(Line[i].name) : Line[i].name[j][1] # Arpa
    /\ \A n \in Names :
          /\ Alias[n] \in Label /\ Len(Alias[n]) < LabelLimit
          /\ Len(n) + 3 * HeaderSize < LabelLimit * ByteRange
    /\ Address \in Seq(0 .. ByteRange - 1)
    /\ Ttl \subseteq Nat
    /\ Fault \subseteq AnyFault /\ MaxFault \in Nat

NonQuery == EncodeQuery(0, SetFlag(0, QR, TRUE), <<Arpa>>, TypeA, ClassIn)
Query == [n \in Names |-> EncodeQuery(QueryId, SetFlag(0, RD, FALSE), n, TypeA, ClassIn)]
QueryMsg == {Query[n] : n \in Names} \cup {NonQuery}
DecodedQuery == [m \in QueryMsg |-> DecodeQuery(m)]
OwnReply == [m \in QueryMsg |-> [ttl \in Ttl |-> Process(DecodedQuery[m], ttl)]]
OtherReply == [m \in {Query[n] : n \in Names} |-> OtherResponse(DecodedQuery[m])]
ResponseMsg == {OwnReply[m][ttl] : m \in QueryMsg, ttl \in Ttl} \cup {OtherReply[Query[n]] : n \in Names}
DecodedResponse == [m \in ResponseMsg |-> DecodeResponse(m)]

(***************************************************************************)
(* The network: what is taken is gone, unless it is delivered twice.       *)
(***************************************************************************)
TakeQuery(d) ==
    /\ d \in toServer
    /\ \/ toServer' = toServer \ {d} /\ UNCHANGED faults
       \/ Goes("dup") /\ UNCHANGED toServer

TakeResponse(c, m) ==
    /\ m \in toClient[c]
    /\ \/ toClient' = [toClient EXCEPT ![c] = @ \ {m}] /\ UNCHANGED faults
       \/ Goes("dup") /\ UNCHANGED toClient

Lose ==
    /\ Goes("lose")
    /\ \/ \E d \in toServer : toServer' = toServer \ {d} /\ UNCHANGED toClient
       \/ \E c \in Client : \E m \in toClient[c] :
             toClient' = [toClient EXCEPT ![c] = @ \ {m}] /\ UNCHANGED toServer
    /\ UNCHANGED <<via, serverVars, clientVars>>

\* A datagram that is not a query arrives from somewhere.
Stray ==
    /\ via = "own" /\ Goes("nonquery")
    /\ toServer' = toServer \cup {<<NoClient, NonQuery>>}
    /\ UNCHANGED <<via, serverVars, clientVars, toClient>>

(***************************************************************************)
(* DNSServer.                                                              *)
(***************************************************************************)
\* receive()'s handler: a message that is a response already throws, and
\* nothing calls receive() again.
Receive ==
    /\ via = "own" /\ server = "receive"
    /\ \E d \in toServer :
          /\ TakeQuery(d)
          /\ clientEndpoint' = d[1]
          /\ \/ /\ GetFlag(DecodedQuery[d[2]].flags, QR)
                /\ server' = "idle" /\ UNCHANGED outgoing
             \/ /\ ~GetFlag(DecodedQuery[d[2]].flags, QR)
                /\ server' = "send"
                /\ \E ttl \in Ttl : outgoing' = OwnReply[d[2]][ttl]
    /\ UNCHANGED <<via, clientVars, toClient>>

\* Waiting, io_control or receive_from fails.
ReceiveFails ==
    /\ via = "own" /\ server = "receive" /\ Goes("io")
    /\ server' = "idle"
    /\ UNCHANGED <<via, clientEndpoint, outgoing, clientVars, toServer, toClient>>

Sent_NoReceive ==
    /\ server = "send"
    /\ server' = "idle" /\ outgoing' = <<>>
    /\ toClient' = [toClient EXCEPT ![clientEndpoint] = @ \cup {outgoing}]
    /\ UNCHANGED <<via, clientEndpoint, clientVars, toServer, faults>>

\* sendResponse's handler.
Sent ==
    /\ server = "send"
    /\ server' = "receive" /\ outgoing' = <<>>
    /\ toClient' = [toClient EXCEPT ![clientEndpoint] = @ \cup {outgoing}]
    /\ UNCHANGED <<via, clientEndpoint, clientVars, toServer, faults>>

SendFails ==
    /\ server = "send" /\ Goes("io")
    /\ server' = "idle" /\ outgoing' = <<>>
    /\ UNCHANGED <<via, clientEndpoint, clientVars, toServer, toClient>>

\* waitSignal's handler.
Stop ==
    /\ server # "stopped" /\ Goes("stop")
    /\ server' = "stopped"
    /\ UNCHANGED <<via, clientEndpoint, outgoing, clientVars, toServer, toClient>>

Other ==
    /\ via = "other"
    /\ \E d \in toServer :
          /\ TakeQuery(d)
          /\ toClient' = [toClient EXCEPT ![d[1]] = @ \cup {OtherReply[d[2]]}]
    /\ UNCHANGED <<via, serverVars, clientVars>>

(***************************************************************************)
(* DNSClient::resolve, for one name after another.                         *)
(***************************************************************************)
Resolve(c) ==
    /\ todo[c] # <<>> /\ ~waiting[c]
    /\ toServer' = toServer \cup {<<c, Query[Head(todo[c])]>>}
    /\ waiting' = [waiting EXCEPT ![c] = TRUE]
    /\ UNCHANGED <<via, serverVars, todo, printed, toClient, faults>>

Dump_SameName(c, p) ==
    /\ printed' = [printed EXCEPT ![c] = Append(@, p)]
    /\ waiting' = [waiting EXCEPT ![c] = FALSE]
    /\ UNCHANGED todo

Dump(c, p) ==
    /\ printed' = [printed EXCEPT ![c] = Append(@, p)]
    /\ todo' = [todo EXCEPT ![c] = Tail(@)]
    /\ waiting' = [waiting EXCEPT ![c] = FALSE]

Failed == [question |-> <<>>, rcode |-> NoError, answers |-> <<>>]

\* The response is dumped if it has the one identifier that is ever used.
Answer(c) ==
    /\ waiting[c]
    /\ \E m \in toClient[c] :
          /\ TakeResponse(c, m)
          /\ LET r == DecodedResponse[m]
             IN  Dump(c, IF r.id = QueryId
                          THEN [question |-> r.question, rcode |-> GetRcode(r.flags),
                                answers |-> r.answers]
                          ELSE Failed)
    /\ UNCHANGED <<via, serverVars, toServer>>

\* send_to or receive_from fails.
ResolveFails(c) ==
    /\ todo[c] # <<>>
    /\ IF waiting[c] THEN Goes("recv") ELSE Goes("io")
    /\ Dump(c, Failed)
    /\ UNCHANGED <<via, serverVars, toServer, toClient>>

-----------------------------------------------------------------------------
Init ==
    /\ via \in {"own", "other"}
    /\ server = "receive"
    /\ clientEndpoint = NoClient
    /\ outgoing = <<>>
    /\ todo = Asked
    /\ waiting = [c \in Client |-> FALSE]
    /\ toServer = {}
    /\ toClient = [c \in Client |-> {}]
    /\ printed = [c \in Client |-> <<>>]
    /\ faults = {}

Next ==
    \/ Receive \/ ReceiveFails \/ Sent \/ SendFails \/ Stop
    \/ Other \/ Lose \/ Stray
    \/ \E c \in Client : Resolve(c) \/ Answer(c) \/ ResolveFails(c)

Spec == Init /\ [][Next]_vars

\* The programs run, and the other server answers.
FairSpec ==
    /\ Spec
    /\ WF_vars(Receive) /\ WF_vars(Sent) /\ WF_vars(Other)
    /\ \A c \in Client : WF_vars(Resolve(c)) /\ WF_vars(Answer(c))

-----------------------------------------------------------------------------
Cell == Nat

\* Type correctness: a client prints one result for each of its names, in order,
\* and messages are numbers throughout.
TypeOK ==
    /\ via \in {"own", "other"}
    /\ server \in {"receive", "send", "idle", "stopped"}
    /\ clientEndpoint \in Client \cup {NoClient}
    /\ outgoing \in Seq(Cell)
    /\ todo \in [Client -> Seq(Text)]
    /\ waiting \in [Client -> BOOLEAN]
    /\ \A d \in toServer : d \in (Client \cup {NoClient}) \X Seq(Cell)
    /\ \A c \in Client : \A m \in toClient[c] : m \in Seq(Cell)
    /\ \A c \in Client : Len(printed[c]) + Len(todo[c]) = Len(Argv[c])
    /\ faults \subseteq Fault

\* What the records file says of a name, in terms of labels: the first record
\* whose address, reversed and under in-addr.arpa, or whose name it is.
Expected(name) ==
    LET ptr == {i \in Records : Join(Append(Reverse(Line[i].addr), <<Arpa>>)) = name}
        dom == {i \in Records : Join(Line[i].name) = name}
    IN  IF ptr # {} THEN Join(Line[Min(ptr)].name)
        ELSE IF dom # {} THEN Join(Line[Min(dom)].addr)
        ELSE <<>>

Trusted == faults \cap {"dup", "recv"} = {}

\* p is what a client prints when this server answered the query for name: the
\* question and the record carry the name, the code says whether the records file
\* has it, and the record's data is the encoded name of what the file says.  The
\* record has the type of the query, A, so that the client shows the bytes of its
\* data as numbers, the length bytes of the labels among them.
ResultFor(name, p) ==
    /\ p.question = name
    /\ p.rcode = IF Expected(name) = <<>> THEN NameError ELSE NoError
    /\ Len(p.answers) = 1
    /\ LET r == p.answers[1]
       IN  /\ r.name = name /\ r.type = TypeA
           /\ r.data = EncodeDomainName(Expected(name)) /\ r.text = AddressText(r.data)

\* What a client prints for its i-th name, if resolve does not fail, is the result
\* for that name while no datagram is delivered twice and no receive fails.  After
\* that it may be taken from a late or repeated response, as all queries have one
\* identifier; but then from one to a query of this client for this or an earlier
\* name, and it is the whole result for that name.
AnswerMatches ==
    via = "own" =>
        \A c \in Client : \A i \in DOMAIN printed[c] :
            LET p == printed[c][i]
            IN  p = Failed \/ \E j \in 1 .. i : /\ ResultFor(Asked[c][j], p)
                                                /\ Trusted => j = i

\* For a server that compresses, while nothing is delivered twice and no receive
\* fails: pointers, one behind the other and behind a label, lead to the names they
\* stand for, and the text of the address is its bytes.
PointersFollowed ==
    via = "other" /\ Trusted =>
        \A c \in Client : \A i \in DOMAIN printed[c] :
            LET p == printed[c][i]
                name == Asked[c][i]
                canonical == IF Alias[name] = <<>> THEN name ELSE Alias[name] \o <<Dot>> \o name
                last == p.answers[Len(p.answers)]
            IN  p = Failed \/
                /\ p.question = name
                /\ last.name = canonical /\ last.text = AddressText(Address)
                /\ Len(p.answers) = 2 => p.answers[1].name = name /\ p.answers[1].text = canonical

\* The server takes every query that reaches it, also after lost datagrams and
\* clients that gave up, unless its socket failed, a message was no query or it
\* was stopped; and unless datagrams are lost every client gets an answer: it
\* does not stay in receive_from, which has no timeout.
Answered ==
    \A c \in Client :
        /\ (\E d \in toServer : d[1] = c) ~>
              \/ \A d \in toServer : d[1] # c
              \/ faults \cap {"io", "nonquery", "stop", "dup"} # {}
        /\ waiting[c] ~> ~waiting[c] \/ faults \ {"recv"} # {}

=============================================================================
