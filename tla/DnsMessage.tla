----------------------------- MODULE DnsMessage -----------------------------
(***************************************************************************)
(* DNS messages (dns/common): the flag word, the coding of domain names    *)
(* and the messages that DNSQuery and DNSResponse encode and decode.  A    *)
(* message is a sequence of numbers: one for each 16-bit or 32-bit field   *)
(* and one for each byte of a name or of record data.  A name is a text,   *)
(* labels with dots in between.                                            *)
(***************************************************************************)
EXTENDS Integers, Sequences, FiniteSetsExt

CONSTANTS
    Dot,         \* '.'
    Arpa,        \* the label(s) "in-addr.arpa", as one character
    LabelLimit,  \* 0x40: a length byte from here on is a pointer
    ByteRange    \* 256: a pointer's first byte is 0xC0 or more

ASSUME DnsMessageAssumption ==
    /\ LabelLimit \in Nat \ {0, 1} /\ ByteRange \in Nat /\ 4 * LabelLimit <= ByteRange
    /\ Dot \in 1 .. ByteRange - 1 /\ Arpa \in 1 .. ByteRange - 1 /\ Dot # Arpa

HeaderSize == 6
TypeA == 1
TypeCname == 5
ClassIn == 1
NoError == 0
NameError == 3

(***************************************************************************)
(* The flag word.                                                          *)
(***************************************************************************)
QR == 32768   \* 1 << 15
RD == 256     \* 1 << 8

GetFlag(flags, bit) == (flags \div bit) % 2 = 1

SetFlag(flags, bit, on) ==
    IF on = GetFlag(flags, bit) THEN flags
    ELSE IF on THEN flags + bit
    ELSE flags - bit

GetRcode(flags) == flags % 16

SetRcode(flags, rcode) == flags - (flags % 16) + (rcode % 16)

(***************************************************************************)
(* Domain names.                                                           *)
(***************************************************************************)
Dots(name, from) == {i \in from .. Len(name) : name[i] = Dot}

\* The position behind the label that begins at p.
LabelEnd(name, p) == IF Dots(name, p) = {} THEN Len(name) + 1 ELSE Min(Dots(name, p))

\* Before each label its length, as a byte, in the place of the dots; then 0.
EncodeDomainName(name) ==
    [i \in 1 .. Len(name) + 2 |->
        IF i = Len(name) + 2 THEN 0
        ELSE IF i = 1 \/ name[i - 1] = Dot THEN (LabelEnd(name, i) - i) % ByteRange
        ELSE name[i - 1]]

\* The loop of decodeName and decodeDomainName from index p: the text of the
\* labels up to a byte of Stop.  One turn copies one label, of two bytes at least.
ReadLabels(msg, p, Stop) ==
    LET turn[n \in 0 .. Len(msg) \div 2] ==
            IF n = 0 THEN [name |-> <<>>, next |-> p]
            ELSE LET r == turn[n - 1]
                     after == r.next + msg[r.next] + 1
                 IN  IF msg[r.next] \in Stop THEN r
                     ELSE [name |-> r.name \o SubSeq(msg, r.next + 1, after - 1)
                                    \o (IF msg[after] \in Stop THEN <<>> ELSE <<Dot>>),
                           next |-> after]
    IN  IF msg[p] \in Stop THEN turn[0] ELSE turn[Len(msg) \div 2]

\* DNSQuery::decodeName.
DecodeName(msg, p) == [ReadLabels(msg, p, {0}) EXCEPT !.next = @ + 1]

IsPointer(b) == b >= LabelLimit

\* decodeDomainName: up to a 0 or to a pointer, which is two bytes; offset is 0
\* if there is none.
DecodeDomainName(msg, p) ==
    LET r == ReadLabels(msg, p, {0} \cup (LabelLimit .. ByteRange - 1))
        b == msg[r.next]
    IN  IF IsPointer(b)
        THEN [name |-> r.name, next |-> r.next + 2,
              offset |-> (b % LabelLimit) * ByteRange + msg[r.next + 1]]
        ELSE [name |-> r.name, next |-> r.next + 1, offset |-> 0]

Dotted_Not(name) == name

\* What is decoded already, with a dot if it is anything.
Dotted(name) == IF name = <<>> THEN <<>> ELSE Append(name, Dot)

\* while (offset != 0): what the pointer, two bytes, leads to is appended.
FollowPointers(msg, d) ==
    LET turn[n \in 0 .. Len(msg) \div 2] ==
            IF n = 0 THEN d
            ELSE LET r == turn[n - 1]
                     e == DecodeDomainName(msg, r.offset + 1)
                 IN  IF r.offset = 0 THEN r ELSE [e EXCEPT !.name = Dotted(r.name) \o @]
    IN  IF d.offset = 0 THEN d.name ELSE turn[Len(msg) \div 2].name

(***************************************************************************)
(* Messages.                                                               *)
(***************************************************************************)
\* DNSMessage::encode.
Header(id, flags, qCount, aCount) == <<id, flags, qCount, aCount, 0, 0>>

\* DNSQuery::encode.
EncodeQuery(id, flags, name, type, cls) ==
    Header(id, flags, 1, 0) \o EncodeDomainName(name) \o <<type, cls>>

\* DNSQuery::decode.
DecodeQuery(msg) ==
    LET n == DecodeName(msg, HeaderSize + 1)
    IN  [id |-> msg[1], flags |-> msg[2], name |-> n.name,
         type |-> msg[n.next], cls |-> msg[n.next + 1]]

\* DNSResponse::encode: the question, and one answer whose data is a name.
EncodeResponse(id, flags, name, type, cls, ttl, data) ==
    LET n == EncodeDomainName(name)
        d == EncodeDomainName(data)
    IN  Header(id, flags, 1, 1) \o n \o <<type, cls>>
        \o n \o <<type, cls, ttl, Len(d)>> \o d

\* The text of an address: its bytes as numbers with dots in between.
AddressText(data) ==
    [i \in 1 .. 2 * Len(data) - 1 |-> IF i % 2 = 1 THEN data[(i + 1) \div 2] ELSE Dot]

\* readResourceRecord at index p.  The data of a CNAME is decoded where it is,
\* its pointers in the whole message.
ReadResourceRecord(msg, p) ==
    LET n == DecodeDomainName(msg, p)
        type == msg[n.next]
        data == SubSeq(msg, n.next + 4, n.next + 3 + msg[n.next + 3])
    IN  [name |-> FollowPointers(msg, n), type |-> type, data |-> data,
         text |-> CASE type = TypeA -> AddressText(data)
                    [] type = TypeCname -> FollowPointers(msg, DecodeDomainName(data, 1))
                    [] OTHER -> <<>>,
         next |-> n.next + 4 + Len(data)]

\* DNSResponse::decode of a message with one question: the records of the
\* authority and additional sections are not kept.
DecodeResponse(msg) ==
    LET q == DecodeDomainName(msg, HeaderSize + 1)
        records[i \in 0 .. msg[4]] ==
            IF i = 0 THEN [all |-> <<>>, next |-> q.next + 2]
            ELSE LET r == ReadResourceRecord(msg, records[i - 1].next)
                 IN  [all |-> Append(records[i - 1].all, r), next |-> r.next]
    IN  [id |-> msg[1], flags |-> msg[2], question |-> FollowPointers(msg, q),
         answers |-> records[msg[4]].all]

=============================================================================
