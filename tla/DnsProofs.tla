----------------------------- MODULE DnsProofs -----------------------------
(***************************************************************************)
(* Theorems about Dns: what the two decoders read in each message that is  *)
(* under way, and that what a client prints answers the name it asked for. *)
(***************************************************************************)
EXTENDS DnsMessageProofs

(***************************************************************************)
(* Queries.                                                                *)
(***************************************************************************)
LEMMA HeaderFacts ==
    ASSUME NEW id \in Nat, NEW flags \in Nat, NEW q \in Nat, NEW a \in Nat
    PROVE  /\ Header(id, flags, q, a) \in Message /\ Len(Header(id, flags, q, a)) = 6
           /\ Header(id, flags, q, a)[1] = id /\ Header(id, flags, q, a)[2] = flags
           /\ Header(id, flags, q, a)[4] = a
BY DEF Header, Message

LEMMA PlacedFields ==
    ASSUME NEW msg \in Message, NEW s \in Message, NEW p \in Nat \ {0}, Placed(msg, p, s)
    PROVE  /\ Len(s) >= 1 => msg[p] = s[1]
           /\ Len(s) >= 2 => msg[p + 1] = s[2]
           /\ Len(s) >= 4 => msg[p + 2] = s[3] /\ msg[p + 3] = s[4]
<1>1. Len(s) \in Nat
  BY DEF Message
<1>2. \A i \in 1 .. Len(s) : msg[p + i - 1] = s[i]
  BY DEF Placed
<1>3. p + 1 - 1 = p /\ p + 2 - 1 = p + 1 /\ p + 3 - 1 = p + 2 /\ p + 4 - 1 = p + 3
  OBVIOUS
<1>4. ASSUME NEW i \in {1, 2, 3, 4}, Len(s) >= i PROVE msg[p + i - 1] = s[i]
  <2>1. i \in 1 .. Len(s)
    BY <1>1, <1>4
  <2> QED BY <1>2, <2>1
<1> QED BY <1>1, <1>3, <1>4

LEMMA HeaderPlaced ==
    ASSUME NEW msg \in Message, NEW h \in Message, Len(h) = 6, Placed(msg, 1, h)
    PROVE  msg[1] = h[1] /\ msg[2] = h[2] /\ msg[4] = h[4]
<1>1. PICK p \in Nat \ {0} : p = 1
  OBVIOUS
<1>2. msg[p] = h[1] /\ msg[p + 1] = h[2] /\ msg[p + 3] = h[4]
  BY <1>1, PlacedFields
<1>3. p + 1 = 2 /\ p + 3 = 4
  BY <1>1
<1> QED BY <1>1, <1>2, <1>3

\* msg is a followed by b, and what stands in a stands in msg.
IsConcat(msg, a, b) == a \in Message /\ b \in Message /\ msg = a \o b

LEMMA ConcatFacts ==
    ASSUME NEW msg, NEW a, NEW b, IsConcat(msg, a, b)
    PROVE  /\ msg \in Message /\ Len(msg) = Len(a) + Len(b) /\ Len(a) \in Nat /\ Len(b) \in Nat
           /\ \A p : p = Len(a) + 1 => Placed(msg, p, b)
           /\ Placed(msg, 1, a)
<1>1. a \in Message /\ b \in Message /\ msg = a \o b
  BY DEF IsConcat
<1>2. PICK p \in Nat \ {0} : p = 1
  OBVIOUS
<1>3. Placed(a, p, a)
  BY <1>1, <1>2, PlacedSelf
<1>4. Placed(a \o b, p, a)
  BY <1>1, <1>3, PlacedLeft
<1>5. /\ a \o b \in Message /\ Len(a \o b) = Len(a) + Len(b) /\ Len(a) \in Nat /\ Len(b) \in Nat
      /\ Placed(a \o b, Len(a) + 1, b)
  BY <1>1, PlacedConcat
<1> QED BY <1>1, <1>2, <1>4, <1>5

LEMMA Kept ==
    ASSUME NEW msg, NEW a, NEW b, IsConcat(msg, a, b),
           NEW p \in Nat \ {0}, NEW s \in Message, Placed(a, p, s)
    PROVE  Placed(msg, p, s)
BY PlacedLeft DEF IsConcat

LEMMA EncodedFacts ==
    ASSUME NEW name \in Text
    PROVE  /\ EncodeDomainName(name) \in Message
           /\ Len(EncodeDomainName(name)) = Len(name) + 2 /\ Len(name) \in Nat
BY EncodeType, TextFacts DEF Message

LEMMA Pair ==
    ASSUME NEW a \in Nat, NEW b \in Nat
    PROVE  <<a, b>> \in Message /\ Len(<<a, b>>) = 2 /\ <<a, b>>[1] = a /\ <<a, b>>[2] = b
BY DEF Message

\* DNSQuery::decode gives back what DNSQuery::encode was given, for every name
\* whose labels are not empty and fit behind a length byte.
THEOREM QueryDecoded ==
    ASSUME NEW id \in Nat, NEW flags \in Nat, NEW name, Proper(name), NEW t \in Nat, NEW c \in Nat
    PROVE  /\ EncodeQuery(id, flags, name, t, c) \in Message
           /\ DecodeQuery(EncodeQuery(id, flags, name, t, c)) =
                [id |-> id, flags |-> flags, name |-> name, type |-> t, cls |-> c]
<1>1. PICK h : h = Header(id, flags, 1, 0)
  OBVIOUS
<1>2. PICK e : e = EncodeDomainName(name)
  OBVIOUS
<1>3. PICK w : w = <<t, c>>
  OBVIOUS
<1>4. PICK a : a = h \o e
  OBVIOUS
<1>5. PICK msg : msg = a \o w
  OBVIOUS
<1>6. EncodeQuery(id, flags, name, t, c) = msg
  BY <1>1, <1>2, <1>3, <1>4, <1>5 DEF EncodeQuery
<1>7. h \in Message /\ Len(h) = 6 /\ h[1] = id /\ h[2] = flags
  BY <1>1, HeaderFacts
<1>8. e \in Message /\ Len(e) = Len(name) + 2 /\ Len(name) \in Nat
  BY <1>2, EncodedFacts DEF Proper
<1>9. w \in Message /\ Len(w) = 2 /\ w[1] = t /\ w[2] = c
  BY <1>3, Pair
<1>10. a \in Message /\ Len(a) = Len(name) + 8 /\ Placed(a, 7, e) /\ Placed(a, 1, h)
  <2>1. IsConcat(a, h, e)
    BY <1>4, <1>7, <1>8 DEF IsConcat
  <2>2. /\ a \in Message /\ Len(a) = Len(h) + Len(e) /\ Placed(a, 1, h)
        /\ \A p : p = Len(h) + 1 => Placed(a, p, e)
    BY <2>1, ConcatFacts
  <2>3. 7 = Len(h) + 1 /\ Len(h) + Len(e) = Len(name) + 8
    BY <1>7, <1>8
  <2> QED BY <2>2, <2>3
<1>11. /\ msg \in Message
       /\ Placed(msg, 7, e) /\ Placed(msg, 1, h) /\ Placed(msg, Len(name) + 9, w)
  <2>1. IsConcat(msg, a, w)
    BY <1>5, <1>9, <1>10 DEF IsConcat
  <2>2. msg \in Message /\ \A p : p = Len(a) + 1 => Placed(msg, p, w)
    BY <2>1, ConcatFacts
  <2>3. Len(name) + 9 = Len(a) + 1
    BY <1>8, <1>10
  <2>4. Placed(msg, 7, e)
    BY <1>8, <1>10, <2>1, Kept
  <2>5. Placed(msg, 1, h)
    BY <1>7, <1>10, <2>1, Kept
  <2> QED BY <2>2, <2>3, <2>4, <2>5
<1>12. msg[1] = id /\ msg[2] = flags
  BY <1>7, <1>11, HeaderPlaced
<1>13. msg[Len(name) + 9] = t /\ msg[Len(name) + 10] = c
  <2>1. PICK p \in Nat \ {0} : p = Len(name) + 9
    BY <1>8
  <2>2. Placed(msg, p, w)
    BY <1>11, <2>1
  <2>3. msg[p] = w[1] /\ msg[p + 1] = w[2]
    BY <1>9, <1>11, <2>2, PlacedFields
  <2>4. p + 1 = Len(name) + 10
    BY <1>8, <2>1
  <2> QED BY <1>9, <2>1, <2>3, <2>4
<1>14. DecodeName(msg, 7) = [name |-> name, next |-> Len(name) + 9]
  <2>1. DecodeName(msg, 7) = [name |-> name, next |-> 7 + Len(name) + 2]
    BY <1>2, <1>11, DecodeNameAt
  <2>2. 7 + Len(name) + 2 = Len(name) + 9
    BY <1>8
  <2> QED BY <2>1, <2>2
<1>15. PICK n : n = DecodeName(msg, 7)
  OBVIOUS
<1>16. n.name = name /\ n.next = Len(name) + 9 /\ n.next + 1 = Len(name) + 10
  BY <1>8, <1>14, <1>15
<1>17. DecodeQuery(msg) = [id |-> msg[1], flags |-> msg[2], name |-> n.name,
                           type |-> msg[n.next], cls |-> msg[n.next + 1]]
  <2>1. HeaderSize + 1 = 7
    BY DEF HeaderSize
  <2> QED BY <1>15, <2>1 DEF DecodeQuery
<1> QED BY <1>6, <1>11, <1>12, <1>13, <1>16, <1>17

LEMMA Flags ==
    /\ SetFlag(0, RD, FALSE) = 0 /\ SetFlag(0, QR, TRUE) = 32768
    /\ ~GetFlag(0, QR) /\ GetFlag(32768, QR) /\ GetRcode(32768) = 0
    /\ \A rcode \in {NoError, NameError} :
          SetRcode(32768, rcode) \in Nat /\ GetRcode(SetRcode(32768, rcode)) = rcode
BY DEF SetFlag, GetFlag, GetRcode, SetRcode, QR, RD, NoError, NameError

LEMMA QueryFacts ==
    ASSUME NEW n \in Names
    PROVE  /\ Query[n] \in Message /\ Query[n] \in QueryMsg
           /\ DecodedQuery[Query[n]] =
                [id |-> QueryId, flags |-> 0, name |-> n, type |-> TypeA, cls |-> ClassIn]
<1>1. Query[n] = EncodeQuery(QueryId, 0, n, TypeA, ClassIn)
  BY DEF Query, SetFlag, GetFlag, RD
<1>2. QueryId \in Nat /\ TypeA \in Nat /\ ClassIn \in Nat /\ Proper(n)
  BY ProperName DEF QueryId, TypeA, ClassIn
<1>3. PICK m : m = Query[n]
  OBVIOUS
<1>4. /\ m \in Message
      /\ DecodeQuery(m) = [id |-> QueryId, flags |-> 0, name |-> n, type |-> TypeA, cls |-> ClassIn]
  <2>1. PICK id \in Nat, f \in Nat, t \in Nat, k \in Nat :
          id = QueryId /\ f = 0 /\ t = TypeA /\ k = ClassIn
    BY <1>2
  <2>2. m = EncodeQuery(id, f, n, t, k)
    BY <1>1, <1>3, <2>1
  <2>3. m \in Message /\ DecodeQuery(m) = [id |-> id, flags |-> f, name |-> n, type |-> t, cls |-> k]
    BY <1>2, <2>2, QueryDecoded, SMTT(30)
  <2> QED BY <2>1, <2>3
<1>5. m \in QueryMsg
  BY <1>3 DEF QueryMsg
<1>6. DecodedQuery[m] = DecodeQuery(m)
  BY <1>5 DEF DecodedQuery
<1> QED BY <1>3, <1>4, <1>5, <1>6

LEMMA NonQueryFacts ==
    /\ NonQuery \in Message /\ NonQuery \in QueryMsg
    /\ GetFlag(DecodedQuery[NonQuery].flags, QR)
<1>1. NonQuery = EncodeQuery(0, 32768, <<Arpa>>, TypeA, ClassIn)
  BY DEF NonQuery, SetFlag, GetFlag, QR
<1>2. TypeA \in Nat /\ ClassIn \in Nat /\ Proper(<<Arpa>>)
  BY ArpaLabel, ProperLabel DEF TypeA, ClassIn
<1>3. PICK m : m = NonQuery
  OBVIOUS
<1>4. PICK x : x = <<Arpa>>
  OBVIOUS
<1>5. /\ m \in Message
      /\ DecodeQuery(m) = [id |-> 0, flags |-> 32768, name |-> x, type |-> TypeA, cls |-> ClassIn]
  <2>1. PICK id \in Nat, f \in Nat, t \in Nat, k \in Nat :
          id = 0 /\ f = 32768 /\ t = TypeA /\ k = ClassIn
    BY <1>2
  <2>2. m = EncodeQuery(id, f, x, t, k) /\ Proper(x)
    BY <1>1, <1>2, <1>3, <1>4, <2>1
  <2>3. m \in Message /\ DecodeQuery(m) = [id |-> id, flags |-> f, name |-> x, type |-> t, cls |-> k]
    BY <2>2, QueryDecoded, SMTT(30)
  <2> QED BY <2>1, <2>3
<1>6. m \in QueryMsg
  BY <1>3 DEF QueryMsg
<1>7. DecodedQuery[m] = DecodeQuery(m)
  BY <1>6 DEF DecodedQuery
<1>8. DecodedQuery[m].flags = 32768
  BY <1>5, <1>7
<1> QED BY <1>3, <1>5, <1>6, <1>8, Flags

(***************************************************************************)
(* The records of a response.                                              *)
(***************************************************************************)
RecordOne(msg, r) ==
    LET a == ReadResourceRecord(msg, r.next)
    IN  [all |-> Append(r.all, a), next |-> a.next]

\* t is what has been read after each of the N answers behind the question q.
Decodes(msg, q, N, t) ==
    /\ t[0] = [all |-> <<>>, next |-> q.next + 2]
    /\ \A i \in 1 .. N : t[i] = RecordOne(msg, t[i - 1])
    /\ DecodeResponse(msg) = [id |-> msg[1], flags |-> msg[2],
                              question |-> FollowPointers(msg, q), answers |-> t[N].all]

LEMMA RecordsLoop ==
    ASSUME NEW msg, NEW N \in Nat, N = msg[4], NEW q, q = DecodeDomainName(msg, 7)
    PROVE  \E t : Decodes(msg, q, N, t)
<1> DEFINE start == [all |-> <<>>, next |-> q.next + 2]
           R(m, h) == h = [i \in 0 .. m |-> IF i = 0 THEN start ELSE RecordOne(msg, h[i - 1])]
           G == {m \in Nat : \E u : R(m, u)}
<1>1. 0 \in G
  <2> DEFINE f == [i \in 0 .. 0 |-> start]
  <2>1. R(0, f)
    OBVIOUS
  <2>2. \E u : R(0, u)
    <3> HIDE DEF R
    <3> QED BY <2>1
  <2> HIDE DEF R
  <2> QED BY <2>2
<1>2. ASSUME NEW k \in 0 .. N - 1, k \in G PROVE k + 1 \in G
  <2> HIDE DEF start
  <2>1. PICK f : R(k, f)
    BY <1>2
  <2> DEFINE g == [i \in 0 .. k + 1 |-> IF i = k + 1 THEN RecordOne(msg, f[k]) ELSE f[i]]
  <2>2. ASSUME NEW i \in 0 .. k + 1
        PROVE  g[i] = IF i = 0 THEN start ELSE RecordOne(msg, g[i - 1])
    <3>1. CASE i = k + 1
      <4>1. g[k] = f[k] /\ i - 1 = k /\ i # 0
        BY <3>1
      <4> QED BY <3>1, <4>1
    <3>2. CASE i # k + 1
      <4>1. i \in 0 .. k /\ g[i] = f[i] /\ (i # 0 => g[i - 1] = f[i - 1])
        BY <3>2
      <4>2. f[i] = IF i = 0 THEN start ELSE RecordOne(msg, f[i - 1])
        BY <2>1, <4>1
      <4> HIDE DEF g
      <4> QED BY <4>1, <4>2
    <3> QED BY <3>1, <3>2
  <2>3. g = [i \in 0 .. k + 1 |-> g[i]]
    OBVIOUS
  <2> HIDE DEF g
  <2>4. R(k + 1, g)
    BY <2>2, <2>3
  <2>5. k + 1 \in Nat
    OBVIOUS
  <2>6. \E u : R(k + 1, u)
    <3> HIDE DEF R
    <3> QED BY <2>4
  <2> HIDE DEF R
  <2> QED BY <2>5, <2>6
<1> HIDE DEF G
<1>3. 0 .. N \subseteq G
  BY <1>1, <1>2, Induction, SMTT(30)
<1> DEFINE rec == CHOOSE u : u = [i \in 0 .. msg[4] |->
                                     IF i = 0 THEN [all |-> <<>>, next |-> q.next + 2]
                                     ELSE RecordOne(msg, u[i - 1])]
<1>4. R(N, rec)
  <2>1. \E u : R(N, u)
    BY <1>3 DEF G
  <2>2. \E u : u = [i \in 0 .. msg[4] |->
                       IF i = 0 THEN [all |-> <<>>, next |-> q.next + 2]
                       ELSE RecordOne(msg, u[i - 1])]
    BY <2>1
  <2>3. rec = [i \in 0 .. msg[4] |->
                  IF i = 0 THEN [all |-> <<>>, next |-> q.next + 2]
                  ELSE RecordOne(msg, rec[i - 1])]
    BY <2>2
  <2> HIDE DEF rec
  <2> QED BY <2>3
<1>5. DecodeResponse(msg) = [id |-> msg[1], flags |-> msg[2],
                             question |-> FollowPointers(msg, q), answers |-> rec[N].all]
  <2>1. HeaderSize + 1 = 7
    BY DEF HeaderSize
  <2> QED BY <2>1 DEF DecodeResponse, RecordOne
<1> HIDE DEF rec
<1>6. rec[0] = start /\ \A i \in 1 .. N : rec[i] = RecordOne(msg, rec[i - 1])
  <2> HIDE DEF start
  <2> QED BY <1>4
<1>7. Decodes(msg, q, N, rec)
  BY <1>5, <1>6 DEF Decodes
<1> QED BY <1>7

\* What is decoded of a message with one answer, and with two.
LEMMA OneAnswer ==
    ASSUME NEW msg, msg[4] = 1, NEW q, q = DecodeDomainName(msg, 7),
           NEW a, a = ReadResourceRecord(msg, q.next + 2)
    PROVE  DecodeResponse(msg) = [id |-> msg[1], flags |-> msg[2],
                                  question |-> FollowPointers(msg, q), answers |-> <<a>>]
<1>1. PICK N \in Nat : N = 1
  OBVIOUS
<1>2. N = msg[4]
  BY <1>1
<1>3. PICK f : Decodes(msg, q, N, f)
  BY <1>2, RecordsLoop
<1>4. 1 \in 1 .. N /\ 1 - 1 = 0
  BY <1>1
<1>5. f[1] = RecordOne(msg, f[0]) /\ f[0].all = <<>> /\ f[0].next = q.next + 2
  BY <1>3, <1>4 DEF Decodes
<1>6. f[1].all = Append(<<>>, a)
  BY <1>5 DEF RecordOne
<1>7. Append(<<>>, a) = <<a>>
  OBVIOUS
<1> QED BY <1>1, <1>3, <1>6, <1>7 DEF Decodes

LEMMA TwoAnswers ==
    ASSUME NEW msg, msg[4] = 2, NEW q, q = DecodeDomainName(msg, 7),
           NEW a, a = ReadResourceRecord(msg, q.next + 2),
           NEW b, b = ReadResourceRecord(msg, a.next)
    PROVE  DecodeResponse(msg) = [id |-> msg[1], flags |-> msg[2],
                                  question |-> FollowPointers(msg, q), answers |-> <<a, b>>]
<1>1. PICK N \in Nat : N = 2
  OBVIOUS
<1>2. N = msg[4]
  BY <1>1
<1>3. PICK f : Decodes(msg, q, N, f)
  BY <1>2, RecordsLoop
<1>4. 1 \in 1 .. N /\ 1 - 1 = 0 /\ 2 \in 1 .. N /\ 2 - 1 = 1
  BY <1>1
<1>5. f[1] = RecordOne(msg, f[0]) /\ f[0].all = <<>> /\ f[0].next = q.next + 2
  BY <1>3, <1>4 DEF Decodes
<1>6. f[1].all = Append(<<>>, a) /\ f[1].next = a.next
  BY <1>5 DEF RecordOne
<1>7. f[2] = RecordOne(msg, f[1])
  BY <1>3, <1>4 DEF Decodes
<1>8. f[2].all = Append(Append(<<>>, a), b)
  BY <1>6, <1>7 DEF RecordOne
<1>9. Append(Append(<<>>, a), b) = <<a, b>>
  <2>1. Append(<<>>, a) = <<a>>
    OBVIOUS
  <2>2. PICK u : u = <<a>>
    OBVIOUS
  <2>3. PICK v : v = <<a, b>>
    OBVIOUS
  <2>4. PICK s : s = Append(u, b)
    OBVIOUS
  <2>. PICK S : a \in S /\ b \in S
    <3>1. a \in {a, b} /\ b \in {a, b}
      OBVIOUS
    <3> QED BY <3>1
  <2>5. u \in Seq(S) /\ Len(u) = 1 /\ u[1] = a
    BY <2>2
  <2>6. v \in Seq(S) /\ Len(v) = 2 /\ v[1] = a /\ v[2] = b
    BY <2>3
  <2>7. s \in Seq(S) /\ Len(s) = 2 /\ s[1] = a /\ s[2] = b
    <3>1. s \in Seq(S) /\ Len(s) = Len(u) + 1
      BY <2>4, <2>5, AppendProperties, ZenonT(60)
    <3>2. s[1] = u[1]
      <4>1. 1 \in 1 .. Len(u)
        BY <2>5
      <4> QED BY <2>4, <2>5, <4>1, AppendProperties
    <3>3. s[Len(u) + 1] = b
      BY <2>4, <2>5, AppendProperties, ZenonT(60)
    <3> QED BY <2>5, <3>1, <3>2, <3>3
  <2>8. s = v
    <3>1. \A i \in 1 .. Len(s) : s[i] = v[i]
      BY <2>6, <2>7
    <3> QED BY <2>6, <2>7, <3>1, SeqEqual
  <2> QED BY <2>1, <2>2, <2>3, <2>4, <2>8
<1> QED BY <1>1, <1>3, <1>8, <1>9 DEF Decodes

\* A record stands at index p of msg: a name n, its fields and its data.
RecordAt(msg, p, n, fields, data) ==
    /\ n = DecodeDomainName(msg, p) /\ n.next \in Nat \ {0}
    /\ data \in Message /\ fields \in Message /\ Len(fields) = 4 /\ fields[4] = Len(data)
    /\ Placed(msg, n.next, fields) /\ Placed(msg, n.next + 4, data)

LEMMA RecordRead ==
    ASSUME NEW msg \in Message, NEW p, NEW n, NEW fields, NEW data, RecordAt(msg, p, n, fields, data),
           NEW a, a = ReadResourceRecord(msg, p)
    PROVE  /\ a.name = FollowPointers(msg, n)
           /\ a.type = fields[1] /\ a.data = data /\ a.next = n.next + 4 + Len(data)
           /\ fields[1] = TypeA => a.text = AddressText(data)
           /\ fields[1] = TypeCname => a.text = FollowPointers(msg, DecodeDomainName(data, 1))
<1>1. PICK z \in Nat \ {0} : z = n.next
  BY DEF RecordAt
<1>2. /\ n = DecodeDomainName(msg, p)
      /\ data \in Message /\ fields \in Message /\ Len(fields) = 4 /\ fields[4] = Len(data)
      /\ Placed(msg, z, fields) /\ Placed(msg, z + 4, data)
  BY <1>1 DEF RecordAt
<1>3. msg[z] = fields[1] /\ msg[z + 3] = Len(data)
  <2>1. Len(fields) >= 1 /\ Len(fields) >= 4
    BY <1>2
  <2>2. msg[z] = fields[1] /\ msg[z + 3] = fields[4]
    BY <1>2, <2>1, PlacedFields
  <2> QED BY <1>2, <2>2
<1>4. SubSeq(msg, z + 4, z + 3 + Len(data)) = data
  <2>1. PICK r \in Nat \ {0} : r = z + 4
    OBVIOUS
  <2>2. SubSeq(msg, r, r + Len(data) - 1) = data
    BY <1>2, <2>1, PlacedSlice
  <2>3. Len(data) \in Nat
    BY <1>2 DEF Message
  <2>4. r + Len(data) - 1 = z + 3 + Len(data)
    BY <2>1, <2>3
  <2> QED BY <2>1, <2>2, <2>4
<1>5. ReadResourceRecord(msg, p) =
        [name |-> FollowPointers(msg, n), type |-> msg[z], data |-> data,
         text |-> CASE msg[z] = TypeA -> AddressText(data)
                    [] msg[z] = TypeCname -> FollowPointers(msg, DecodeDomainName(data, 1))
                    [] OTHER -> <<>>,
         next |-> z + 4 + Len(data)]
  BY <1>1, <1>2, <1>3, <1>4 DEF ReadResourceRecord
<1>6. TypeA # TypeCname
  BY DEF TypeA, TypeCname
<1> QED BY <1>1, <1>3, <1>5, <1>6

(***************************************************************************)
(* The responses of this server.                                           *)
(***************************************************************************)
\* The parts of what stands in a message, and at its front.
LEMMA PartsAt ==
    ASSUME NEW msg \in Message, NEW c, NEW a, NEW b, IsConcat(c, a, b),
           NEW at \in Nat \ {0}, Placed(msg, at, c), NEW p, p = at + Len(a)
    PROVE  Placed(msg, at, a) /\ Placed(msg, p, b)
<1>1. /\ a \in Message /\ b \in Message /\ c \in Message
      /\ Len(c) = Len(a) + Len(b) /\ Len(a) \in Nat /\ Len(b) \in Nat
      /\ Placed(c, 1, a) /\ Placed(c, Len(a) + 1, b)
  <2>1. a \in Message /\ b \in Message
    BY DEF IsConcat
  <2>2. /\ c \in Message /\ Len(c) = Len(a) + Len(b) /\ Len(a) \in Nat /\ Len(b) \in Nat
        /\ \A r : r = Len(a) + 1 => Placed(c, r, b)
        /\ Placed(c, 1, a)
    BY ConcatFacts
  <2> QED BY <2>1, <2>2
<1>2. ASSUME NEW s \in Message, NEW r \in Nat \ {0}, Placed(c, r, s)
      PROVE  Placed(msg, at + r - 1, s)
  <2>1. Len(s) \in Nat /\ Len(c) \in Nat /\ Len(msg) \in Nat
    BY <1>1 DEF Message
  <2>2. r + Len(s) - 1 <= Len(c) /\ at + Len(c) - 1 <= Len(msg)
    BY <1>2 DEF Placed
  <2>3. PICK y : y = at + r - 1
    OBVIOUS
  <2>4. y + Len(s) - 1 <= Len(msg)
    BY <2>1, <2>2, <2>3
  <2>5. ASSUME NEW i \in 1 .. Len(s) PROVE msg[y + i - 1] = s[i]
    <3>1. PICK j : j = r + i - 1
      OBVIOUS
    <3>2. j \in 1 .. Len(c) /\ at + j - 1 = y + i - 1
      BY <2>1, <2>2, <2>3, <3>1
    <3>3. msg[at + j - 1] = c[j]
      BY <3>2 DEF Placed
    <3>4. c[r + i - 1] = s[i]
      BY <1>2 DEF Placed
    <3> QED BY <3>1, <3>2, <3>3, <3>4
  <2> QED BY <2>3, <2>4, <2>5 DEF Placed
<1>3. PICK one \in Nat \ {0} : one = 1
  OBVIOUS
<1>4. Placed(msg, at, a)
  <2>1. Placed(msg, at + one - 1, a)
    BY <1>1, <1>2, <1>3
  <2>2. at + one - 1 = at
    BY <1>3
  <2> QED BY <2>1, <2>2
<1>5. PICK r \in Nat \ {0} : r = Len(a) + 1
  BY <1>1
<1>6. Placed(msg, p, b)
  <2>1. Placed(msg, at + r - 1, b)
    BY <1>1, <1>2, <1>5
  <2>2. at + r - 1 = p
    BY <1>1, <1>5
  <2> QED BY <2>1, <2>2
<1> QED BY <1>4, <1>6

LEMMA FrontParts ==
    ASSUME NEW msg \in Message, NEW c, NEW a, NEW b, IsConcat(c, a, b), Placed(msg, 1, c),
           NEW p, p = Len(a) + 1
    PROVE  Placed(msg, 1, a) /\ Placed(msg, p, b)
<1>1. PICK at \in Nat \ {0} : at = 1
  OBVIOUS
<1>2. Len(a) \in Nat
  BY ConcatFacts
<1>3. p = at + Len(a)
  BY <1>1, <1>2
<1> QED BY <1>1, <1>3, PartsAt

\* Nothing is encoded as nothing: the empty name is read back, too.
LEMMA EncodedRead ==
    ASSUME NEW data, data = <<>> \/ Proper(data)
    PROVE  /\ data \in Text
           /\ DecodeName(EncodeDomainName(data), 1).name = data
<1>1. CASE Proper(data)
  <2>1. data \in Text
    BY <1>1 DEF Proper
  <2>2. PICK e : e = EncodeDomainName(data)
    OBVIOUS
  <2>3. e \in Message
    BY <2>1, <2>2, EncodedFacts
  <2>4. PICK p \in Nat \ {0} : p = 1
    OBVIOUS
  <2>5. Placed(e, p, e)
    BY <2>3, <2>4, PlacedSelf
  <2>6. DecodeName(e, p) = [name |-> data, next |-> p + Len(data) + 2]
    BY <1>1, <2>2, <2>3, <2>5, DecodeNameAt
  <2> QED BY <2>1, <2>2, <2>4, <2>6
<1>2. CASE data = <<>>
  <2>1. data \in Text /\ Len(data) = 0
    BY <1>2 DEF Text
  <2>2. PICK e : e = EncodeDomainName(data)
    OBVIOUS
  <2>3. e[1] = 0 \/ e[1] = (LabelEnd(data, 1) - 1) % ByteRange
    BY <2>1, <2>2 DEF EncodeDomainName
  <2>4. LabelEnd(data, 1) - 1 = 0
    <3>1. LabelEnd(data, 1) \in 1 .. 1
      BY <2>1, LabelEndIs
    <3> QED BY <3>1
  <2>5. e[1] = 0
    <3>1. 0 % ByteRange = 0
      BY Constants
    <3> QED BY <2>3, <2>4, <3>1
  <2>6. PICK N : N = Len(e) \div 2
    OBVIOUS
  <2>7. N \in Nat
    <3>1. Len(e) = Len(data) + 2
      BY <2>1, <2>2, EncodedFacts
    <3>2. Len(e) = 2
      BY <2>1, <3>1
    <3> QED BY <2>6, <3>2
  <2>8. PICK f : Reads(e, 1, {0}, N, f)
    BY <2>6, <2>7, ReadLabelsLoop
  <2>9. ReadLabels(e, 1, {0}).name = <<>>
    BY <2>5, <2>8 DEF Reads
  <2>10. DecodeName(e, 1).name = ReadLabels(e, 1, {0}).name
    BY DEF DecodeName
  <2> QED BY <1>2, <2>1, <2>2, <2>9, <2>10
<1> QED BY <1>1, <1>2

\* msg is read as a response with one record.
OneRecord(msg, id, flags, name, type, data) ==
    \E r : /\ DecodeResponse(msg) = [id |-> id, flags |-> flags, question |-> name, answers |-> <<r>>]
           /\ r.name = name /\ r.type = type
           /\ r.data = EncodeDomainName(data) /\ (type = TypeA => r.text = AddressText(r.data))

\* DNSResponse::decode reads in what DNSResponse::encode wrote the question and the
\* one record, of which it keeps the encoded data.
THEOREM ResponseDecoded ==
    ASSUME NEW id \in Nat, NEW flags \in Nat, NEW name, Proper(name),
           NEW type \in Nat, NEW cls \in Nat, NEW ttl \in Nat, NEW data, data = <<>> \/ Proper(data)
    PROVE  /\ EncodeResponse(id, flags, name, type, cls, ttl, data) \in Message
           /\ OneRecord(EncodeResponse(id, flags, name, type, cls, ttl, data), id, flags, name, type, data)
<1>1. PICK h : h = Header(id, flags, 1, 1)
  OBVIOUS
<1>2. PICK e : e = EncodeDomainName(name)
  OBVIOUS
<1>3. PICK w : w = <<type, cls>>
  OBVIOUS
<1>4. PICK d : d = EncodeDomainName(data)
  OBVIOUS
<1>5. PICK f : f = <<type, cls, ttl, Len(d)>>
  OBVIOUS
<1>6. PICK m1 : m1 = h \o e
  OBVIOUS
<1>7. PICK m2 : m2 = m1 \o w
  OBVIOUS
<1>8. PICK m3 : m3 = m2 \o e
  OBVIOUS
<1>9. PICK m4 : m4 = m3 \o f
  OBVIOUS
<1>10. PICK msg : msg = m4 \o d
  OBVIOUS
<1>11. EncodeResponse(id, flags, name, type, cls, ttl, data) = msg
  BY <1>1, <1>2, <1>3, <1>4, <1>5, <1>6, <1>7, <1>8, <1>9, <1>10 DEF EncodeResponse
<1>12. h \in Message /\ Len(h) = 6 /\ h[1] = id /\ h[2] = flags /\ h[4] = 1
  <2>1. PICK k \in Nat : k = 1
    OBVIOUS
  <2>2. h = Header(id, flags, k, k)
    BY <1>1, <2>1
  <2> QED BY <2>1, <2>2, HeaderFacts
<1>13. PICK n \in Nat : n = Len(name)
  BY TextFacts DEF Proper
<1>14. e \in Message /\ Len(e) = n + 2
  BY <1>2, <1>13, EncodedFacts DEF Proper
<1>15. d \in Message /\ Len(d) \in Nat
  BY <1>4, EncodedRead, EncodedFacts DEF Message
<1>16. w \in Message /\ Len(w) = 2
  BY <1>3, Pair
<1>17. f \in Message /\ Len(f) = 4 /\ f[4] = Len(d)
  BY <1>5, <1>15 DEF Message
<1>18. IsConcat(m1, h, e) /\ m1 \in Message /\ Len(m1) = n + 8
  <2>1. IsConcat(m1, h, e)
    BY <1>6, <1>12, <1>14 DEF IsConcat
  <2>2. m1 \in Message /\ Len(m1) = Len(h) + Len(e)
    BY <2>1, ConcatFacts
  <2> QED BY <1>12, <1>14, <2>1, <2>2
<1>19. IsConcat(m2, m1, w) /\ m2 \in Message /\ Len(m2) = n + 10
  <2>1. IsConcat(m2, m1, w)
    BY <1>7, <1>16, <1>18 DEF IsConcat
  <2>2. m2 \in Message /\ Len(m2) = Len(m1) + Len(w)
    BY <2>1, ConcatFacts
  <2> QED BY <1>16, <1>18, <2>1, <2>2
<1>20. IsConcat(m3, m2, e) /\ m3 \in Message /\ Len(m3) = n + n + 12
  <2>1. IsConcat(m3, m2, e)
    BY <1>8, <1>14, <1>19 DEF IsConcat
  <2>2. m3 \in Message /\ Len(m3) = Len(m2) + Len(e)
    BY <2>1, ConcatFacts
  <2> QED BY <1>14, <1>19, <2>1, <2>2
<1>21. IsConcat(m4, m3, f) /\ m4 \in Message /\ Len(m4) = n + n + 16
  <2>1. IsConcat(m4, m3, f)
    BY <1>9, <1>17, <1>20 DEF IsConcat
  <2>2. m4 \in Message /\ Len(m4) = Len(m3) + Len(f)
    BY <2>1, ConcatFacts
  <2> QED BY <1>17, <1>20, <2>1, <2>2
<1>22. /\ IsConcat(msg, m4, d) /\ msg \in Message
       /\ Placed(msg, 1, m4) /\ \A p : p = Len(m4) + 1 => Placed(msg, p, d)
  <2>1. IsConcat(msg, m4, d)
    BY <1>10, <1>15, <1>21 DEF IsConcat
  <2> QED BY <2>1, ConcatFacts
<1>23. PICK p2 \in Nat \ {0} : p2 = n + 11
  OBVIOUS
<1>24. PICK p3 \in Nat \ {0} : p3 = n + n + 13
  OBVIOUS
<1>25. Placed(msg, p3 + 4, d)
  <2>1. p3 + 4 = Len(m4) + 1
    BY <1>21, <1>24
  <2> QED BY <1>22, <2>1
<1>26. Placed(msg, 1, m3) /\ Placed(msg, p3, f)
  <2>1. p3 = Len(m3) + 1
    BY <1>20, <1>24
  <2> QED BY <1>21, <1>22, <2>1, FrontParts
<1>27. Placed(msg, 1, m2) /\ Placed(msg, p2, e)
  <2>1. p2 = Len(m2) + 1
    BY <1>19, <1>23
  <2> QED BY <1>20, <1>22, <1>26, <2>1, FrontParts
<1>28. Placed(msg, 1, m1)
  <2>1. PICK q : q = Len(m1) + 1
    OBVIOUS
  <2> QED BY <1>19, <1>22, <1>27, <2>1, FrontParts
<1>29. PICK p1 \in Nat \ {0} : p1 = 7
  OBVIOUS
<1>30. Placed(msg, 1, h) /\ Placed(msg, p1, e)
  <2>1. p1 = Len(h) + 1
    BY <1>12, <1>29
  <2> QED BY <1>18, <1>22, <1>28, <2>1, FrontParts
<1>31. msg[1] = id /\ msg[2] = flags /\ msg[4] = 1
  BY <1>12, <1>22, <1>30, HeaderPlaced
<1>32. PICK q : q = DecodeDomainName(msg, 7)
  OBVIOUS
<1>33. PICK z : z = p1 + n + 2
  OBVIOUS
<1>34. q = [name |-> name, next |-> z, offset |-> 0]
  <2>1. DecodeDomainName(msg, p1) = [name |-> name, next |-> p1 + Len(name) + 2, offset |-> 0]
    BY <1>2, <1>22, <1>30, DecodeDomainNameAt
  <2> QED BY <1>13, <1>29, <1>32, <1>33, <2>1
<1>35. FollowPointers(msg, q) = name
  BY <1>22, <1>34, FollowNone
<1>36. q.next + 2 = p2
  BY <1>23, <1>29, <1>33, <1>34
<1>37. DecodeDomainName(msg, p2) = [name |-> name, next |-> p3, offset |-> 0]
  <2>1. DecodeDomainName(msg, p2) = [name |-> name, next |-> p2 + Len(name) + 2, offset |-> 0]
    BY <1>2, <1>22, <1>27, DecodeDomainNameAt
  <2>2. p2 + n + 2 = p3
    BY <1>23, <1>24
  <2> QED BY <1>13, <2>1, <2>2
<1>38. PICK r : r = ReadResourceRecord(msg, p2)
  OBVIOUS
<1>39. /\ r.name = FollowPointers(msg, [name |-> name, next |-> p3, offset |-> 0])
       /\ r.type = type /\ r.data = d /\ (type = TypeA => r.text = AddressText(d))
  <2>1. PICK u : u = [name |-> name, next |-> p3, offset |-> 0]
    OBVIOUS
  <2>2. RecordAt(msg, p2, u, f, d)
    BY <1>15, <1>17, <1>25, <1>26, <1>37, <2>1 DEF RecordAt
  <2>3. /\ r.name = FollowPointers(msg, u) /\ r.type = f[1] /\ r.data = d
        /\ f[1] = TypeA => r.text = AddressText(d)
    BY <1>22, <1>38, <2>2, RecordRead
  <2>4. f[1] = type
    BY <1>5
  <2> QED BY <2>1, <2>3, <2>4
<1>40. r.name = name
  BY <1>22, <1>39, FollowNone
<1>41. DecodeResponse(msg) = [id |-> msg[1], flags |-> msg[2],
                              question |-> FollowPointers(msg, q), answers |-> <<r>>]
  BY <1>31, <1>32, <1>36, <1>38, OneAnswer
<1>42. DecodeResponse(msg) = [id |-> id, flags |-> flags, question |-> name, answers |-> <<r>>]
  BY <1>31, <1>35, <1>41
<1>43. OneRecord(msg, id, flags, name, type, data)
  BY <1>4, <1>39, <1>40, <1>42 DEF OneRecord
<1> QED BY <1>11, <1>22, <1>43

\* What a client prints of a response with its identifier.
Shown(m) ==
    [question |-> DecodedResponse[m].question, rcode |-> GetRcode(DecodedResponse[m].flags),
     answers |-> DecodedResponse[m].answers]

LEMMA OwnReplyFacts ==
    ASSUME NEW n \in Names, NEW ttl \in Ttl, NEW m, m = OwnReply[Query[n]][ttl]
    PROVE  /\ m \in Message /\ m \in ResponseMsg /\ DecodedResponse[m].id = QueryId
           /\ ResultFor(n, Shown(m))
<1>1. PICK q : q = Query[n]
  OBVIOUS
<1>2. /\ q \in QueryMsg
      /\ DecodedQuery[q] = [id |-> QueryId, flags |-> 0, name |-> n, type |-> TypeA, cls |-> ClassIn]
  BY <1>1, QueryFacts
<1>3. PICK dq : dq = DecodedQuery[q]
  OBVIOUS
<1>4. dq.id = QueryId /\ dq.name = n /\ dq.type = TypeA /\ dq.cls = ClassIn
  BY <1>2, <1>3
<1>5. m = Process(dq, ttl)
  BY <1>1, <1>2, <1>3 DEF OwnReply
<1>6. PICK data : data = Expected(n)
  OBVIOUS
<1>7. Rdata(n) = data /\ (data = <<>> \/ Proper(data))
  BY <1>6, RdataIs
<1>8. PICK rcode : rcode = IF data = <<>> THEN NameError ELSE NoError
  OBVIOUS
<1>9. PICK flags \in Nat : flags = SetRcode(32768, rcode) /\ GetRcode(flags) = rcode
  BY <1>8, Flags
<1>10. PICK id \in Nat, t \in Nat, c \in Nat : id = QueryId /\ t = TypeA /\ c = ClassIn
  BY DEF QueryId, TypeA, ClassIn
<1>11. m = EncodeResponse(id, flags, n, t, c, ttl, data)
  <2>1. PICK ip : ip = GetIpAddrFromQname(n)
    OBVIOUS
  <2>2. data = IF ip # <<>> THEN FindDomainName(ip) ELSE FindAddress(n)
    BY <1>7, <2>1 DEF Rdata
  <2>3. PICK on : on = SetFlag(0, QR, TRUE)
    OBVIOUS
  <2>4. on = 32768
    BY <2>3 DEF SetFlag, GetFlag, QR
  <2>5. Process(dq, ttl) = EncodeResponse(dq.id, SetRcode(on, rcode), dq.name, dq.type, dq.cls, ttl, data)
    BY <1>4, <1>8, <2>1, <2>2, <2>3 DEF Process
  <2> QED BY <1>4, <1>5, <1>9, <1>10, <2>4, <2>5
<1>12. ttl \in Nat /\ Proper(n)
  BY DnsAssumption, ProperName
<1>13. m \in Message /\ OneRecord(m, id, flags, n, t, data)
  <2>1. PICK x \in Nat : x = ttl
    BY <1>12
  <2>2. data = <<>> \/ Proper(data)
    BY <1>7
  <2>3. m = EncodeResponse(id, flags, n, t, c, x, data)
    BY <1>11, <2>1
  <2>4. PICK e : e = EncodeResponse(id, flags, n, t, c, x, data)
    OBVIOUS
  <2>5. Proper(n)
    BY <1>12
  <2>6. e \in Message /\ OneRecord(e, id, flags, n, t, data)
    BY <2>2, <2>4, <2>5, ResponseDecoded
  <2> QED BY <2>3, <2>4, <2>6
<1>14. PICK r : /\ DecodeResponse(m) = [id |-> id, flags |-> flags, question |-> n, answers |-> <<r>>]
                /\ r.name = n /\ r.type = TypeA
                /\ r.data = EncodeDomainName(data) /\ r.text = AddressText(r.data)
  BY <1>10, <1>13 DEF OneRecord
<1>15. m \in ResponseMsg
  BY <1>1, <1>2 DEF ResponseMsg
<1>16. DecodedResponse[m] = DecodeResponse(m)
  BY <1>15 DEF DecodedResponse
<1>17. PICK s : s = Shown(m)
  OBVIOUS
<1>18. s.question = n /\ s.rcode = rcode /\ s.answers = <<r>>
  BY <1>9, <1>14, <1>16, <1>17 DEF Shown
<1>19. Len(s.answers) = 1 /\ s.answers[1] = r
  BY <1>18
<1>20. ResultFor(n, s)
  BY <1>6, <1>8, <1>14, <1>18, <1>19 DEF ResultFor
<1>21. DecodedResponse[m].id = QueryId
  BY <1>10, <1>14, <1>16
<1> QED BY <1>13, <1>15, <1>17, <1>20, <1>21

(***************************************************************************)
(* The responses of a server that compresses names.                        *)
(***************************************************************************)
\* A question stands in msg, with the header h and the name n; behind it, at
\* index Len(n) + 11, the answers.
Questioned(msg, h, n) ==
    /\ msg \in Message /\ h \in Message /\ Len(h) = 6 /\ Proper(n)
    /\ Placed(msg, 1, h) /\ Placed(msg, 7, EncodeDomainName(n))

LEMMA QuestionRead ==
    ASSUME NEW msg, NEW h, NEW n, Questioned(msg, h, n), NEW q, q = DecodeDomainName(msg, 7)
    PROVE  /\ msg[1] = h[1] /\ msg[2] = h[2] /\ msg[4] = h[4]
           /\ Len(n) \in Nat /\ q = [name |-> n, next |-> Len(n) + 9, offset |-> 0]
           /\ FollowPointers(msg, q) = n
<1>1. /\ msg \in Message /\ h \in Message /\ Len(h) = 6 /\ Proper(n)
      /\ Placed(msg, 1, h) /\ Placed(msg, 7, EncodeDomainName(n))
  BY DEF Questioned
<1>2. msg[1] = h[1] /\ msg[2] = h[2] /\ msg[4] = h[4]
  BY <1>1, HeaderPlaced
<1>3. Len(n) \in Nat
  BY <1>1, TextFacts DEF Proper
<1>4. PICK p \in Nat \ {0} : p = 7
  OBVIOUS
<1>5. DecodeDomainName(msg, p) = [name |-> n, next |-> p + Len(n) + 2, offset |-> 0]
  BY <1>1, <1>4, DecodeDomainNameAt
<1>6. p + Len(n) + 2 = Len(n) + 9
  BY <1>3, <1>4
<1>7. q = [name |-> n, next |-> Len(n) + 9, offset |-> 0]
  BY <1>4, <1>5, <1>6
<1>8. FollowPointers(msg, q) = n
  BY <1>1, <1>7, FollowNone
<1> QED BY <1>2, <1>3, <1>7, <1>8

LEMMA DottedFacts ==
    ASSUME NEW l \in Text, NEW n \in Text, NEW x, x = <<>>
    PROVE  /\ Dotted(x) \o n = n
           /\ l # <<>> => Dotted(Dotted(x) \o l) \o n = l \o <<Dot>> \o n /\ Dotted(l) \o n = l \o <<Dot>> \o n
<1>1. Dotted(<<>>) = <<>>
  BY DEF Dotted
<1>2. <<>> \o n = n /\ <<>> \o l = l
  BY TextConcat
<1>3. ASSUME l # <<>> PROVE Dotted(l) \o n = l \o <<Dot>> \o n
  <2>1. Dotted(l) = Append(l, Dot)
    BY <1>3 DEF Dotted
  <2>2. Append(l, Dot) = l \o <<Dot>>
    <3>1. l \in Seq(Char) /\ Dot \in Char
      BY TextFacts, Constants
    <3> QED BY <3>1, AppendIsConcat
  <2> QED BY <2>1, <2>2
<1> QED BY <1>1, <1>2, <1>3

LEMMA DottedLabel ==
    ASSUME NEW l \in Text, NEW n \in Text, l # <<>>
    PROVE  Dotted(l) \o n = l \o <<Dot>> \o n
<1>1. PICK x : x = <<>>
  OBVIOUS
<1> QED BY <1>1, DottedFacts

LEMMA QuestionLength ==
    ASSUME NEW msg, NEW h, NEW n, Questioned(msg, h, n)
    PROVE  msg \in Message /\ Len(msg) >= 4
<1>1. msg \in Message /\ Len(h) = 6 /\ Placed(msg, 1, h)
  BY DEF Questioned
<1>2. Len(msg) \in Nat /\ 1 + Len(h) - 1 <= Len(msg)
  BY <1>1 DEF Placed, Message
<1> QED BY <1>1, <1>2

LEMMA QuestionLeads ==
    ASSUME NEW msg, NEW h, NEW n, Questioned(msg, h, n), NEW o \in Nat \ {0}, o = 6
    PROVE  LeadsTo(msg, o, n, Len(n) + 9, 0)
<1>1. PICK q : q = DecodeDomainName(msg, 7)
  OBVIOUS
<1>2. q = [name |-> n, next |-> Len(n) + 9, offset |-> 0]
  BY <1>1, QuestionRead
<1>3. o + 1 = 7
  OBVIOUS
<1> QED BY <1>1, <1>2, <1>3 DEF LeadsTo

\* The name of a record that is a pointer to the question.
LEMMA PointerToQuestion ==
    ASSUME NEW msg, NEW h, NEW n, Questioned(msg, h, n), IsOffset(6),
           NEW p \in Nat \ {0}, Placed(msg, p, Pointer(6)), NEW d, d = DecodeDomainName(msg, p)
    PROVE  d.next = p + 2 /\ FollowPointers(msg, d) = n
<1>1. /\ msg \in Message /\ h \in Message /\ Len(h) = 6 /\ Proper(n) /\ Placed(msg, 1, h)
  BY DEF Questioned
<1>2. PICK o \in Nat \ {0} : o = 6
  OBVIOUS
<1>3. d = [name |-> <<>>, next |-> p + 2, offset |-> o]
  BY <1>1, <1>2, DecodePointer
<1>4. LeadsTo(msg, o, n, Len(n) + 9, 0)
  BY <1>2, QuestionLeads
<1>5. Len(msg) >= 4
  BY QuestionLength
<1>6. PICK z : z = Len(n) + 9
  OBVIOUS
<1>7. d.offset = o /\ d.name = <<>>
  BY <1>3
<1>8. Leads(msg, d, n, z, 0)
  BY <1>4, <1>6, <1>7 DEF Leads
<1>9. FollowPointers(msg, d) = Dotted(d.name) \o n
  BY <1>1, <1>5, <1>8, FollowOnce
<1>10. Dotted(d.name) \o n = n
  BY <1>1, <1>7, DottedFacts DEF Proper
<1> QED BY <1>3, <1>9, <1>10

\* What such a response is made of: the question, and the record of the address.
LEMMA OtherParts ==
    ASSUME NEW n \in Names
    PROVE  /\ IsOffset(6) /\ IsOffset(Len(n) + 16) /\ Len(n) \in Nat
           /\ Alias[n] \in Label /\ Len(Alias[n]) < LabelLimit
           /\ Address \in Message /\ Len(Address) \in Nat
<1>1. Len(n) \in Nat
  BY ProperName, TextFacts DEF Proper
<1>2. Alias[n] \in Label /\ Len(Alias[n]) < LabelLimit /\ Len(n) + 18 < LabelLimit * ByteRange
  <2>2. /\ Alias[n] \in Label /\ Len(Alias[n]) < LabelLimit
        /\ Len(n) + 3 * HeaderSize < LabelLimit * ByteRange
    BY DnsAssumption
  <2>3. Len(n) + 18 < LabelLimit * ByteRange
    <3>1. Len(n) + 3 * 6 < LabelLimit * ByteRange
      BY <2>2 DEF HeaderSize
    <3>2. PICK lim : lim = LabelLimit * ByteRange
      OBVIOUS
    <3>3. Len(n) + 3 * 6 < lim
      BY <3>1, <3>2
    <3>4. Len(n) + 18 < lim
      BY <3>3
    <3> QED BY <3>2, <3>4
  <2> QED BY <2>2, <2>3
<1>3. PICK lim : lim = LabelLimit * ByteRange
  OBVIOUS
<1>4. lim \in Nat
  <2>1. LabelLimit \in Nat /\ ByteRange \in Nat
    BY Constants
  <2> QED BY <1>3, <2>1
<1>5. Len(n) + 18 < lim
  BY <1>2, <1>3
<1>6. IsOffset(6) /\ IsOffset(Len(n) + 16)
  <2>1. 6 \in Nat /\ 6 < lim /\ Len(n) + 16 \in Nat /\ Len(n) + 16 < lim
    BY <1>1, <1>4, <1>5
  <2> QED BY <1>3, <2>1 DEF IsOffset
<1>7. Address \in Message /\ Len(Address) \in Nat
  <2>1. Address \in Seq(0 .. ByteRange - 1) /\ 0 .. ByteRange - 1 \subseteq Nat
    BY DnsAssumption
  <2>2. PICK B : B = 0 .. ByteRange - 1
    OBVIOUS
  <2>3. Address \in Seq(B) /\ B \subseteq Nat
    BY <2>1, <2>2
  <2>4. \A i \in 1 .. Len(Address) : Address[i] \in Nat
    BY <2>3, ElementOfSeq
  <2>5. Address \in Message
    <3>1. Address = [i \in 1 .. Len(Address) |-> Address[i]] /\ Len(Address) \in Nat
      BY <2>3
    <3> QED BY <2>4, <3>1 DEF Message
  <2> QED BY <2>5 DEF Message
<1> QED BY <1>1, <1>2, <1>6, <1>7

\* The record of the address, behind a name at index p that ends before z.
AddressFields == <<TypeA, ClassIn, 0, Len(Address)>>

LEMMA AddressRead ==
    ASSUME NEW msg \in Message, Address \in Message, NEW p, NEW d, d = DecodeDomainName(msg, p),
           NEW z \in Nat \ {0}, z = d.next, Placed(msg, z, AddressFields \o Address),
           NEW a, a = ReadResourceRecord(msg, p)
    PROVE  a.name = FollowPointers(msg, d) /\ a.text = AddressText(Address)
<1>1. PICK f : f = AddressFields
  OBVIOUS
<1>2. f \in Message /\ Len(f) = 4 /\ f[1] = TypeA /\ f[4] = Len(Address)
  <2>1. Len(Address) \in Nat /\ TypeA \in Nat /\ ClassIn \in Nat
    BY DEF Message, TypeA, ClassIn
  <2> QED BY <1>1, <2>1 DEF AddressFields, Message
<1>3. PICK c : c = f \o Address
  OBVIOUS
<1>4. IsConcat(c, f, Address)
  BY <1>2, <1>3 DEF IsConcat
<1>5. PICK w : w = z + 4
  OBVIOUS
<1>6. Placed(msg, z, f) /\ Placed(msg, w, Address)
  <2>1. Placed(msg, z, c) /\ w = z + Len(f)
    BY <1>1, <1>2, <1>3, <1>5
  <2> QED BY <1>4, <2>1, PartsAt
<1>7. RecordAt(msg, p, d, f, Address)
  BY <1>2, <1>5, <1>6 DEF RecordAt
<1>8. /\ a.name = FollowPointers(msg, d)
      /\ f[1] = TypeA => a.text = AddressText(Address)
  BY <1>7, RecordRead
<1> QED BY <1>2, <1>8

\* The front of the response to the query for n, with k answers.
Asking(n, k) ==
    Header(QueryId, 32768, 1, k) \o EncodeDomainName(n) \o <<TypeA, ClassIn>>

LEMMA AskingParts ==
    ASSUME NEW n, Proper(n), NEW k \in Nat
    PROVE  /\ Asking(n, k) \in Message /\ Len(Asking(n, k)) = Len(n) + 10 /\ Len(n) \in Nat
           /\ \A msg \in Message : Placed(msg, 1, Asking(n, k)) =>
                 \E h : Questioned(msg, h, n) /\ h[1] = QueryId /\ h[2] = 32768 /\ h[4] = k
<1>1. PICK h : h = Header(QueryId, 32768, 1, k)
  OBVIOUS
<1>2. PICK e : e = EncodeDomainName(n)
  OBVIOUS
<1>3. PICK w : w = <<TypeA, ClassIn>>
  OBVIOUS
<1>4. PICK a : a = h \o e
  OBVIOUS
<1>5. PICK c : c = a \o w
  OBVIOUS
<1>6. c = Asking(n, k)
  BY <1>1, <1>2, <1>3, <1>4, <1>5 DEF Asking
<1>7. h \in Message /\ Len(h) = 6 /\ h[1] = QueryId /\ h[2] = 32768 /\ h[4] = k
  <2>1. PICK id \in Nat, f \in Nat, q \in Nat : id = QueryId /\ f = 32768 /\ q = 1
    BY DEF QueryId
  <2>2. h = Header(id, f, q, k)
    BY <1>1, <2>1
  <2> QED BY <2>1, <2>2, HeaderFacts
<1>8. e \in Message /\ Len(e) = Len(n) + 2 /\ Len(n) \in Nat
  BY <1>2, EncodedFacts DEF Proper
<1>9. w \in Message /\ Len(w) = 2
  BY <1>3, Pair DEF TypeA, ClassIn
<1>10. IsConcat(a, h, e) /\ a \in Message /\ Len(a) = Len(n) + 8
  <2>1. IsConcat(a, h, e)
    BY <1>4, <1>7, <1>8 DEF IsConcat
  <2>2. a \in Message /\ Len(a) = Len(h) + Len(e)
    BY <2>1, ConcatFacts
  <2> QED BY <1>7, <1>8, <2>1, <2>2
<1>11. IsConcat(c, a, w) /\ c \in Message /\ Len(c) = Len(n) + 10
  <2>1. IsConcat(c, a, w)
    BY <1>5, <1>9, <1>10 DEF IsConcat
  <2>2. c \in Message /\ Len(c) = Len(a) + Len(w)
    BY <2>1, ConcatFacts
  <2> QED BY <1>8, <1>9, <1>10, <2>1, <2>2
<1>12. ASSUME NEW msg \in Message, Placed(msg, 1, Asking(n, k)) PROVE Questioned(msg, h, n)
  <2>1. Placed(msg, 1, a)
    <3>1. PICK q : q = Len(a) + 1
      OBVIOUS
    <3>2. Placed(msg, 1, c)
      BY <1>6, <1>12
    <3> QED BY <1>11, <3>1, <3>2, FrontParts
  <2>2. Placed(msg, 1, h) /\ Placed(msg, 7, e)
    <3>1. PICK q : q = 7
      OBVIOUS
    <3>2. q = Len(h) + 1
      BY <1>7, <3>1
    <3>3. Placed(msg, 1, h) /\ Placed(msg, q, e)
      BY <1>10, <2>1, <3>2, FrontParts
    <3> QED BY <3>1, <3>3
  <2> QED BY <1>2, <1>7, <2>2 DEF Questioned
<1> QED BY <1>6, <1>7, <1>8, <1>11, <1>12

LEMMA AskingType ==
    ASSUME NEW n, Proper(n), NEW k \in Nat
    PROVE  Asking(n, k) \in Message /\ Len(Asking(n, k)) = Len(n) + 10 /\ Len(n) \in Nat
BY AskingParts

LEMMA AskingFacts ==
    ASSUME NEW n, Proper(n), NEW k \in Nat, NEW msg \in Message, Placed(msg, 1, Asking(n, k))
    PROVE  \E h : Questioned(msg, h, n) /\ h[1] = QueryId /\ h[2] = 32768 /\ h[4] = k
BY AskingParts

LEMMA AddressType ==
    ASSUME Address \in Message
    PROVE  AddressFields \o Address \in Message /\ Len(AddressFields \o Address) = Len(Address) + 4
<1>1. PICK f : f = AddressFields
  OBVIOUS
<1>2. f \in Message /\ Len(f) = 4
  <2>1. Len(Address) \in Nat /\ TypeA \in Nat /\ ClassIn \in Nat
    BY DEF Message, TypeA, ClassIn
  <2> QED BY <1>1, <2>1 DEF AddressFields, Message
<1>3. f \o Address \in Message /\ Len(f \o Address) = Len(f) + Len(Address) /\ Len(Address) \in Nat
  BY <1>2, MessageConcat
<1> QED BY <1>1, <1>2, <1>3

OtherAnswer(name, p) ==
    LET canonical == IF Alias[name] = <<>> THEN name ELSE Alias[name] \o <<Dot>> \o name
        last == p.answers[Len(p.answers)]
    IN  /\ p.question = name
        /\ last.name = canonical /\ last.text = AddressText(Address)
        /\ Len(p.answers) = 2 => p.answers[1].name = name /\ p.answers[1].text = canonical

\* Without another name: one record, whose name is a pointer to the question.
PlainResponse(n) == Asking(n, 1) \o Pointer(6) \o (AddressFields \o Address)

PlainRead(m, n, a) ==
    /\ DecodeResponse(m) = [id |-> QueryId, flags |-> 32768, question |-> n, answers |-> <<a>>]
    /\ a.name = n /\ a.text = AddressText(Address)

LEMMA PlainDecoded ==
    ASSUME NEW n \in Names, NEW m, m = PlainResponse(n)
    PROVE  m \in Message /\ \E a : PlainRead(m, n, a)
<1>1. PICK b : b = Asking(n, 1)
  OBVIOUS
<1>2. PICK ptr : ptr = Pointer(6)
  OBVIOUS
<1>3. PICK adr : adr = AddressFields \o Address
  OBVIOUS
<1>4. PICK c : c = b \o ptr
  OBVIOUS
<1>5. m = c \o adr
  BY <1>1, <1>2, <1>3, <1>4 DEF PlainResponse
<1>6. Proper(n) /\ IsOffset(6) /\ Address \in Message /\ Len(Address) \in Nat /\ Len(n) \in Nat
  BY ProperName, OtherParts
<1>7. b \in Message /\ Len(b) = Len(n) + 10
  BY <1>1, <1>6, AskingType
<1>8. ptr \in Message /\ Len(ptr) = 2
  BY <1>2, <1>6, PointerBytes
<1>9. adr \in Message
  BY <1>3, <1>6, AddressType
<1>10. IsConcat(c, b, ptr) /\ c \in Message /\ Len(c) = Len(n) + 12
  <2>1. IsConcat(c, b, ptr)
    BY <1>4, <1>7, <1>8 DEF IsConcat
  <2>2. c \in Message /\ Len(c) = Len(b) + Len(ptr)
    BY <2>1, ConcatFacts
  <2> QED BY <1>6, <1>7, <1>8, <2>1, <2>2
<1>11. PICK z \in Nat \ {0} : z = Len(n) + 13
  BY <1>6
<1>12. m \in Message /\ Placed(m, 1, c) /\ Placed(m, z, adr)
  <2>1. IsConcat(m, c, adr)
    BY <1>5, <1>9, <1>10 DEF IsConcat
  <2>2. m \in Message /\ Placed(m, 1, c) /\ \A r : r = Len(c) + 1 => Placed(m, r, adr)
    BY <2>1, ConcatFacts
  <2>3. z = Len(c) + 1
    BY <1>6, <1>10, <1>11
  <2> QED BY <2>2, <2>3
<1>13. PICK p \in Nat \ {0} : p = Len(n) + 11
  BY <1>6
<1>14. Placed(m, 1, b) /\ Placed(m, p, ptr)
  <2>1. p = Len(b) + 1
    BY <1>6, <1>7, <1>13
  <2> QED BY <1>10, <1>12, <2>1, FrontParts
<1>15. PICK h : Questioned(m, h, n) /\ h[1] = QueryId /\ h[2] = 32768 /\ h[4] = 1
  <2>1. PICK k \in Nat : k = 1
    OBVIOUS
  <2>2. Placed(m, 1, Asking(n, k))
    BY <1>1, <1>14, <2>1
  <2>3. \E u : Questioned(m, u, n) /\ u[1] = QueryId /\ u[2] = 32768 /\ u[4] = k
    BY <1>6, <1>12, <2>2, AskingFacts
  <2> QED BY <2>1, <2>3
<1>16. PICK q : q = DecodeDomainName(m, 7)
  OBVIOUS
<1>17. /\ m[1] = QueryId /\ m[2] = 32768 /\ m[4] = 1
       /\ q = [name |-> n, next |-> Len(n) + 9, offset |-> 0] /\ FollowPointers(m, q) = n
  <2>1. /\ m[1] = h[1] /\ m[2] = h[2] /\ m[4] = h[4]
        /\ q = [name |-> n, next |-> Len(n) + 9, offset |-> 0] /\ FollowPointers(m, q) = n
    BY <1>15, <1>16, QuestionRead
  <2> QED BY <1>15, <2>1
<1>18. q.next + 2 = p
  <2>1. q.next = Len(n) + 9
    BY <1>17
  <2> QED BY <1>6, <1>13, <2>1
<1>19. PICK d : d = DecodeDomainName(m, p)
  OBVIOUS
<1>20. d.next = p + 2 /\ FollowPointers(m, d) = n
  <2>1. Placed(m, p, Pointer(6))
    BY <1>2, <1>14
  <2> QED BY <1>6, <1>15, <1>19, <2>1, PointerToQuestion
<1>21. PICK a : a = ReadResourceRecord(m, p)
  OBVIOUS
<1>22. a.name = n /\ a.text = AddressText(Address)
  <2>1. z = d.next
    BY <1>6, <1>11, <1>13, <1>20
  <2>2. Placed(m, z, AddressFields \o Address)
    BY <1>3, <1>12
  <2>3. a.name = FollowPointers(m, d) /\ a.text = AddressText(Address)
    BY <1>6, <1>12, <1>19, <1>21, <2>1, <2>2, AddressRead
  <2> QED BY <1>20, <2>3
<1>23. DecodeResponse(m) = [id |-> m[1], flags |-> m[2],
                            question |-> FollowPointers(m, q), answers |-> <<a>>]
  BY <1>16, <1>17, <1>18, <1>21, OneAnswer
<1>24. DecodeResponse(m) = [id |-> QueryId, flags |-> 32768, question |-> n, answers |-> <<a>>]
  BY <1>17, <1>23
<1>25. PlainRead(m, n, a)
  BY <1>22, <1>24 DEF PlainRead
<1> QED BY <1>12, <1>25

\* With another name: its record first, whose data is a label and a pointer to
\* the question; the name of the second record is a pointer to that data.
CnameFields(l) == <<TypeCname, ClassIn, 0, Len(Compressed(l, 6))>>

AliasedResponse(n, l) ==
    Asking(n, 2) \o (Pointer(6) \o CnameFields(l)) \o Compressed(l, 6)
        \o Pointer(Len(n) + 16) \o (AddressFields \o Address)

\* The parts of the message at their places.
Aliased(m, n, l) ==
    /\ m \in Message /\ (\E h : Questioned(m, h, n) /\ h[1] = QueryId /\ h[2] = 32768 /\ h[4] = 2)
    /\ Placed(m, Len(n) + 11, Pointer(6)) /\ Placed(m, Len(n) + 13, CnameFields(l))
    /\ Placed(m, Len(n) + 17, Compressed(l, 6))
    /\ Placed(m, Len(n) + Len(l) + 20, Pointer(Len(n) + 16))
    /\ Placed(m, Len(n) + Len(l) + 22, AddressFields \o Address)

LEMMA CnameType ==
    ASSUME NEW l, Compressed(l, 6) \in Message
    PROVE  /\ CnameFields(l) \in Message /\ Len(CnameFields(l)) = 4
           /\ CnameFields(l)[1] = TypeCname /\ CnameFields(l)[4] = Len(Compressed(l, 6))
<1>1. PICK c : c = Compressed(l, 6)
  OBVIOUS
<1>2. Len(c) \in Nat /\ TypeCname \in Nat /\ ClassIn \in Nat
  BY <1>1 DEF Message, TypeCname, ClassIn
<1>3. CnameFields(l) = <<TypeCname, ClassIn, 0, Len(c)>>
  BY <1>1 DEF CnameFields
<1> QED BY <1>1, <1>2, <1>3 DEF Message

LEMMA AliasedParts ==
    ASSUME NEW n \in Names, NEW l \in Label, l # <<>>, NEW m, m = AliasedResponse(n, l)
    PROVE  Aliased(m, n, l)
<1>1. PICK b : b = Asking(n, 2)
  OBVIOUS
<1>2. PICK ptr : ptr = Pointer(6)
  OBVIOUS
<1>3. PICK g : g = CnameFields(l)
  OBVIOUS
<1>4. PICK first : first = ptr \o g
  OBVIOUS
<1>5. PICK cname : cname = Compressed(l, 6)
  OBVIOUS
<1>6. PICK back : back = Pointer(Len(n) + 16)
  OBVIOUS
<1>7. PICK adr : adr = AddressFields \o Address
  OBVIOUS
<1>8. PICK c1 : c1 = b \o first
  OBVIOUS
<1>9. PICK c2 : c2 = c1 \o cname
  OBVIOUS
<1>10. PICK c3 : c3 = c2 \o back
  OBVIOUS
<1>11. m = c3 \o adr
  BY <1>1, <1>2, <1>3, <1>4, <1>5, <1>6, <1>7, <1>8, <1>9, <1>10 DEF AliasedResponse
<1>12. /\ Proper(n) /\ IsOffset(6) /\ IsOffset(Len(n) + 16)
       /\ Address \in Message /\ Len(Address) \in Nat /\ Len(n) \in Nat
  BY ProperName, OtherParts
<1>13. PICK k \in Nat : k = Len(l)
  BY <1>12, CompressedBytes
<1>14. PICK j \in Nat : j = Len(n)
  BY <1>12
<1>15. b \in Message /\ Len(b) = j + 10
  BY <1>1, <1>12, <1>14, AskingType
<1>16. ptr \in Message /\ Len(ptr) = 2
  BY <1>2, <1>12, PointerBytes
<1>17. cname \in Message /\ Len(cname) = k + 3
  BY <1>5, <1>12, <1>13, CompressedBytes
<1>18. g \in Message /\ Len(g) = 4
  BY <1>3, <1>5, <1>17, CnameType
<1>19. back \in Message /\ Len(back) = 2
  BY <1>6, <1>12, PointerBytes
<1>20. adr \in Message
  BY <1>7, <1>12, AddressType
<1>21. IsConcat(first, ptr, g) /\ first \in Message /\ Len(first) = 6
  <2>1. IsConcat(first, ptr, g)
    BY <1>4, <1>16, <1>18 DEF IsConcat
  <2>2. first \in Message /\ Len(first) = Len(ptr) + Len(g)
    BY <2>1, ConcatFacts
  <2> QED BY <1>16, <1>18, <2>1, <2>2
<1>22. IsConcat(c1, b, first) /\ c1 \in Message /\ Len(c1) = j + 16
  <2>1. IsConcat(c1, b, first)
    BY <1>8, <1>15, <1>21 DEF IsConcat
  <2>2. c1 \in Message /\ Len(c1) = Len(b) + Len(first)
    BY <2>1, ConcatFacts
  <2> QED BY <1>15, <1>21, <2>1, <2>2
<1>23. IsConcat(c2, c1, cname) /\ c2 \in Message /\ Len(c2) = j + k + 19
  <2>1. IsConcat(c2, c1, cname)
    BY <1>9, <1>17, <1>22 DEF IsConcat
  <2>2. c2 \in Message /\ Len(c2) = Len(c1) + Len(cname)
    BY <2>1, ConcatFacts
  <2> QED BY <1>17, <1>22, <2>1, <2>2
<1>24. IsConcat(c3, c2, back) /\ c3 \in Message /\ Len(c3) = j + k + 21
  <2>1. IsConcat(c3, c2, back)
    BY <1>10, <1>19, <1>23 DEF IsConcat
  <2>2. c3 \in Message /\ Len(c3) = Len(c2) + Len(back)
    BY <2>1, ConcatFacts
  <2> QED BY <1>19, <1>23, <2>1, <2>2
<1>25. m \in Message /\ Placed(m, 1, c3) /\ Placed(m, j + k + 22, adr)
  <2>1. IsConcat(m, c3, adr)
    BY <1>11, <1>20, <1>24 DEF IsConcat
  <2>2. m \in Message /\ Placed(m, 1, c3) /\ \A r : r = Len(c3) + 1 => Placed(m, r, adr)
    BY <2>1, ConcatFacts
  <2>3. j + k + 22 = Len(c3) + 1
    BY <1>24
  <2> QED BY <2>2, <2>3
<1>26. Placed(m, 1, c2) /\ Placed(m, j + k + 20, back)
  <2>1. PICK p : p = j + k + 20
    OBVIOUS
  <2>2. p = Len(c2) + 1
    BY <1>23, <2>1
  <2>3. Placed(m, 1, c2) /\ Placed(m, p, back)
    BY <1>24, <1>25, <2>2, FrontParts
  <2> QED BY <2>1, <2>3
<1>27. Placed(m, 1, c1) /\ Placed(m, j + 17, cname)
  <2>1. PICK p : p = j + 17
    OBVIOUS
  <2>2. p = Len(c1) + 1
    BY <1>22, <2>1
  <2>3. Placed(m, 1, c1) /\ Placed(m, p, cname)
    BY <1>23, <1>25, <1>26, <2>2, FrontParts
  <2> QED BY <2>1, <2>3
<1>28. PICK s \in Nat \ {0} : s = j + 11
  OBVIOUS
<1>29. Placed(m, 1, b) /\ Placed(m, s, first)
  <2>1. s = Len(b) + 1
    BY <1>15, <1>28
  <2> QED BY <1>22, <1>25, <1>27, <2>1, FrontParts
<1>30. Placed(m, s, ptr) /\ Placed(m, j + 13, g)
  <2>1. PICK p : p = j + 13
    OBVIOUS
  <2>2. p = s + Len(ptr)
    BY <1>16, <1>28, <2>1
  <2>3. Placed(m, s, ptr) /\ Placed(m, p, g)
    BY <1>21, <1>25, <1>29, <2>2, PartsAt
  <2> QED BY <2>1, <2>3
<1>31. \E h : Questioned(m, h, n) /\ h[1] = QueryId /\ h[2] = 32768 /\ h[4] = 2
  <2>1. PICK two \in Nat : two = 2
    OBVIOUS
  <2>2. Placed(m, 1, Asking(n, two))
    BY <1>1, <1>29, <2>1
  <2>3. \E h : Questioned(m, h, n) /\ h[1] = QueryId /\ h[2] = 32768 /\ h[4] = two
    BY <1>12, <1>25, <2>2, AskingFacts
  <2> QED BY <2>1, <2>3
<1> QED BY <1>2, <1>3, <1>5, <1>6, <1>7, <1>13, <1>14, <1>25, <1>26, <1>27, <1>28, <1>30, <1>31 DEF Aliased

AliasedRead(m, n, l, a, b) ==
    /\ DecodeResponse(m) = [id |-> QueryId, flags |-> 32768, question |-> n, answers |-> <<a, b>>]
    /\ a.name = n /\ a.text = l \o <<Dot>> \o n
    /\ b.name = l \o <<Dot>> \o n /\ b.text = AddressText(Address)

\* The data of the first record, decoded where it is.
LEMMA CnameRead ==
    ASSUME NEW msg, NEW h, NEW n, Questioned(msg, h, n), IsOffset(6),
           NEW l \in Label, l # <<>>, Len(l) < LabelLimit,
           NEW d, d = DecodeDomainName(Compressed(l, 6), 1)
    PROVE  FollowPointers(msg, d) = l \o <<Dot>> \o n
<1>1. PICK o \in Nat \ {0} : o = 6
  OBVIOUS
<1>2. PICK c : c = Compressed(l, o)
  OBVIOUS
<1>3. PICK one \in Nat \ {0} : one = 1
  OBVIOUS
<1>4. c \in Message /\ Placed(c, one, Compressed(l, o))
  <2>1. c \in Message
    BY <1>1, <1>2, CompressedBytes
  <2> QED BY <1>2, <1>3, <2>1, PlacedSelf
<1>5. d.name = l /\ d.offset = o
  <2>1. DecodeDomainName(c, one) = [name |-> l, next |-> one + Len(l) + 3, offset |-> o]
    BY <1>1, <1>4, DecodeCompressed
  <2> QED BY <1>1, <1>2, <1>3, <2>1
<1>6. LeadsTo(msg, o, n, Len(n) + 9, 0)
  BY <1>1, QuestionLeads
<1>7. msg \in Message /\ Len(msg) >= 4
  BY QuestionLength
<1>8. FollowPointers(msg, d) = Dotted(d.name) \o n
  <2>1. PICK z : z = Len(n) + 9
    OBVIOUS
  <2>2. Leads(msg, d, n, z, 0)
    BY <1>5, <1>6, <2>1 DEF Leads
  <2> QED BY <1>7, <2>2, FollowOnce
<1>9. l \in Text /\ n \in Text
  BY DEF Questioned, Proper, Label, Text
<1>10. Dotted(l) \o n = l \o <<Dot>> \o n
  BY <1>9, DottedLabel
<1> QED BY <1>5, <1>8, <1>10

LEMMA AliasedDecoded ==
    ASSUME NEW n \in Names, NEW l \in Label, l # <<>>, Len(l) < LabelLimit, NEW m, Aliased(m, n, l)
    PROVE  \E a, b : AliasedRead(m, n, l, a, b)
<1>1. PICK h : Questioned(m, h, n) /\ h[1] = QueryId /\ h[2] = 32768 /\ h[4] = 2
  BY DEF Aliased
<1>2. /\ m \in Message
      /\ Placed(m, Len(n) + 11, Pointer(6)) /\ Placed(m, Len(n) + 13, CnameFields(l))
      /\ Placed(m, Len(n) + 17, Compressed(l, 6))
      /\ Placed(m, Len(n) + Len(l) + 20, Pointer(Len(n) + 16))
      /\ Placed(m, Len(n) + Len(l) + 22, AddressFields \o Address)
  BY DEF Aliased
<1>3. /\ IsOffset(6) /\ IsOffset(Len(n) + 16) /\ Len(n) \in Nat
      /\ Address \in Message /\ Len(Address) \in Nat
  BY OtherParts
<1>4. /\ Compressed(l, 6) \in Message /\ Len(Compressed(l, 6)) = Len(l) + 3 /\ Len(l) \in Nat
  BY <1>3, CompressedBytes
<1>5. PICK q : q = DecodeDomainName(m, 7)
  OBVIOUS
<1>6. /\ m[1] = QueryId /\ m[2] = 32768 /\ m[4] = 2
      /\ q = [name |-> n, next |-> Len(n) + 9, offset |-> 0] /\ FollowPointers(m, q) = n
  <2>1. /\ m[1] = h[1] /\ m[2] = h[2] /\ m[4] = h[4]
        /\ q = [name |-> n, next |-> Len(n) + 9, offset |-> 0] /\ FollowPointers(m, q) = n
    BY <1>1, <1>5, QuestionRead
  <2> QED BY <1>1, <2>1
<1>7. PICK p \in Nat \ {0} : p = Len(n) + 11
  BY <1>3
<1>8. q.next + 2 = p
  <2>1. q.next = Len(n) + 9
    BY <1>6
  <2> QED BY <1>3, <1>7, <2>1
<1>9. PICK d : d = DecodeDomainName(m, p)
  OBVIOUS
<1>10. d.next = p + 2 /\ FollowPointers(m, d) = n
  <2>1. Placed(m, p, Pointer(6))
    BY <1>2, <1>7
  <2> QED BY <1>1, <1>3, <1>9, <2>1, PointerToQuestion
<1>11. PICK f : f = CnameFields(l)
  OBVIOUS
<1>12. PICK c : c = Compressed(l, 6)
  OBVIOUS
<1>13. f \in Message /\ Len(f) = 4 /\ f[1] = TypeCname /\ f[4] = Len(c)
  BY <1>4, <1>11, <1>12, CnameType
<1>14. PICK a : a = ReadResourceRecord(m, p)
  OBVIOUS
<1>15. RecordAt(m, p, d, f, c)
  <2>1. d.next = Len(n) + 13 /\ d.next + 4 = Len(n) + 17 /\ d.next \in Nat \ {0}
    BY <1>3, <1>7, <1>10
  <2>2. Placed(m, d.next, f) /\ Placed(m, d.next + 4, c)
    BY <1>2, <1>11, <1>12, <2>1
  <2> QED BY <1>4, <1>9, <1>12, <1>13, <2>1, <2>2 DEF RecordAt
<1>16. /\ a.name = FollowPointers(m, d) /\ a.next = d.next + 4 + Len(c)
       /\ f[1] = TypeCname => a.text = FollowPointers(m, DecodeDomainName(c, 1))
  BY <1>2, <1>14, <1>15, RecordRead
<1>17. a.name = n /\ a.next = Len(n) + Len(l) + 20
  <2>1. a.next = p + 2 + 4 + (Len(l) + 3)
    BY <1>4, <1>10, <1>12, <1>16
  <2> QED BY <1>3, <1>4, <1>7, <1>10, <1>16, <2>1
<1>18. a.text = l \o <<Dot>> \o n
  <2>1. PICK e : e = DecodeDomainName(Compressed(l, 6), 1)
    OBVIOUS
  <2>2. FollowPointers(m, e) = l \o <<Dot>> \o n
    BY <1>1, <1>3, <2>1, CnameRead
  <2> QED BY <1>12, <1>13, <1>16, <2>1, <2>2
<1>19. PICK r \in Nat \ {0} : r = Len(n) + Len(l) + 20
  BY <1>3, <1>4
<1>20. PICK b : b = ReadResourceRecord(m, r)
  OBVIOUS
<1>21. PICK s : s = DecodeDomainName(m, r)
  OBVIOUS
<1>22. PICK o \in Nat \ {0} : o = Len(n) + 16
  BY <1>3
<1>23. s = [name |-> <<>>, next |-> r + 2, offset |-> o]
  <2>1. IsOffset(o) /\ Placed(m, r, Pointer(o))
    BY <1>2, <1>3, <1>19, <1>22
  <2> QED BY <1>2, <1>21, <2>1, DecodePointer
<1>24. PICK six \in Nat \ {0} : six = 6
  OBVIOUS
<1>25. LeadsTo(m, o, l, o + 1 + Len(l) + 3, six)
  <2>1. PICK t \in Nat \ {0} : t = o + 1
    OBVIOUS
  <2>2. t = Len(n) + 17
    BY <1>3, <1>22, <2>1
  <2>3. IsOffset(six) /\ Placed(m, t, Compressed(l, six))
    BY <1>2, <1>3, <1>24, <2>2
  <2>4. DecodeDomainName(m, t) = [name |-> l, next |-> t + Len(l) + 3, offset |-> six]
    BY <1>2, <2>3, DecodeCompressed
  <2> QED BY <2>1, <2>4 DEF LeadsTo
<1>26. LeadsTo(m, six, n, Len(n) + 9, 0)
  BY <1>1, <1>24, QuestionLeads
<1>27. FollowPointers(m, s) = l \o <<Dot>> \o n
  <2>1. PICK y : y = o + 1 + Len(l) + 3
    OBVIOUS
  <2>2. PICK z : z = Len(n) + 9
    OBVIOUS
  <2>3. s.offset = o /\ s.name = <<>>
    BY <1>23
  <2>4. m \in Message /\ Len(m) >= 4
    BY <1>1, QuestionLength
  <2>5. LeadsOn(m, s, l, y, six, n, z)
    BY <1>25, <1>26, <2>1, <2>2, <2>3, <2>4 DEF Leads, LeadsOn
  <2>6. FollowPointers(m, s) = Dotted(Dotted(s.name) \o l) \o n
    BY <2>5, FollowTwice
  <2>7. l \in Text /\ n \in Text
    BY <1>1 DEF Questioned, Proper, Label, Text
  <2>8. PICK x : x = s.name
    OBVIOUS
  <2>9. x = <<>>
    BY <2>3, <2>8
  <2>10. Dotted(Dotted(x) \o l) \o n = l \o <<Dot>> \o n
    <3>1. Dotted(x) = <<>>
      BY <2>9 DEF Dotted
    <3>2. PICK v : v = Dotted(x) \o l
      OBVIOUS
    <3>3. v = l
      BY <2>7, <3>1, <3>2, TextConcat
    <3>4. Dotted(l) \o n = l \o <<Dot>> \o n
      BY <2>7, DottedLabel
    <3> QED BY <3>2, <3>3, <3>4
  <2> QED BY <2>6, <2>8, <2>10
<1>28. b.name = l \o <<Dot>> \o n /\ b.text = AddressText(Address)
  <2>1. PICK z \in Nat \ {0} : z = s.next
    BY <1>23
  <2>2. z = Len(n) + Len(l) + 22
    <3>1. s.next = r + 2
      BY <1>23
    <3> QED BY <1>3, <1>4, <1>19, <2>1, <3>1
  <2>3. Placed(m, z, AddressFields \o Address)
    BY <1>2, <2>2
  <2>4. b.name = FollowPointers(m, s) /\ b.text = AddressText(Address)
    BY <1>2, <1>3, <1>20, <1>21, <2>1, <2>3, AddressRead
  <2> QED BY <1>27, <2>4
<1>29. DecodeResponse(m) = [id |-> m[1], flags |-> m[2],
                            question |-> FollowPointers(m, q), answers |-> <<a, b>>]
  <2>1. a = ReadResourceRecord(m, q.next + 2)
    BY <1>8, <1>14
  <2>2. b = ReadResourceRecord(m, a.next)
    BY <1>17, <1>19, <1>20
  <2> QED BY <1>5, <1>6, <2>1, <2>2, TwoAnswers
<1>30. DecodeResponse(m) = [id |-> QueryId, flags |-> 32768, question |-> n, answers |-> <<a, b>>]
  BY <1>6, <1>29
<1>31. AliasedRead(m, n, l, a, b)
  BY <1>17, <1>18, <1>28, <1>30 DEF AliasedRead
<1> QED BY <1>31

\* The other server's response to the query for n.
LEMMA OtherIs ==
    ASSUME NEW n \in Names, NEW q, q.id = QueryId, q.name = n, q.type = TypeA, q.cls = ClassIn
    PROVE  OtherResponse(q) = IF Alias[n] = <<>> THEN PlainResponse(n) ELSE AliasedResponse(n, Alias[n])
<1>1. PICK l : l = Alias[n]
  OBVIOUS
<1>2. PICK e : e = EncodeDomainName(n)
  OBVIOUS
<1>3. PICK ptr : ptr = Pointer(6)
  OBVIOUS
<1>4. PICK cn : cn = <<Len(l)>> \o l \o ptr
  OBVIOUS
<1>5. PICK first : first = ptr \o <<TypeCname, ClassIn, 0, Len(cn)>>
  OBVIOUS
<1>6. PICK on : on = SetFlag(0, QR, TRUE)
  OBVIOUS
<1>7. PICK ad : ad = <<TypeA, ClassIn, 0, Len(Address)>> \o Address
  OBVIOUS
<1>8. OtherResponse(q) =
        IF l = <<>> THEN (Header(QueryId, on, 1, 1) \o e \o <<TypeA, ClassIn>>) \o ptr \o ad
        ELSE (Header(QueryId, on, 1, 2) \o e \o <<TypeA, ClassIn>>) \o first \o cn
             \o Pointer(6 + Len(e) + 2 + Len(first)) \o ad
  BY <1>1, <1>2, <1>3, <1>4, <1>5, <1>6, <1>7 DEF OtherResponse, HeaderSize
<1>9. on = 32768
  BY <1>6 DEF SetFlag, GetFlag, QR
<1>10. ad = AddressFields \o Address
  BY <1>7 DEF AddressFields
<1>11. cn = Compressed(l, 6)
  BY <1>3, <1>4 DEF Compressed
<1>12. first = ptr \o CnameFields(l)
  BY <1>5, <1>11 DEF CnameFields
<1>13. 6 + Len(e) + 2 + Len(first) = Len(n) + 16
  <2>1. Len(n) \in Nat /\ Len(e) = Len(n) + 2
    <3>1. n \in Text
      BY ProperName DEF Proper
    <3> QED BY <1>2, <3>1, EncodedFacts
  <2>2. Len(first) = 6
    <3>1. PICK f : f = <<TypeCname, ClassIn, 0, Len(cn)>>
      OBVIOUS
    <3>2. PICK k : k = Len(cn)
      OBVIOUS
    <3>3. PICK x, y : ptr = <<x, y>>
      BY <1>3 DEF Pointer
    <3>4. PICK S : S = {TypeCname, ClassIn, 0, k, x, y}
      OBVIOUS
    <3>5. f \in Seq(S) /\ Len(f) = 4
      BY <3>1, <3>2, <3>4
    <3>6. ptr \in Seq(S) /\ Len(ptr) = 2
      BY <3>3, <3>4
    <3>7. first = ptr \o f
      BY <1>5, <3>1
    <3>8. Len(ptr \o f) = Len(ptr) + Len(f)
      BY <3>5, <3>6, ConcatProperties
    <3> QED BY <3>5, <3>6, <3>7, <3>8
  <2>3. PICK x, y, z : x = Len(n) /\ y = Len(e) /\ z = Len(first)
    OBVIOUS
  <2>4. x \in Nat /\ y = x + 2 /\ z = 6
    BY <2>1, <2>2, <2>3
  <2>5. 6 + y + 2 + z = x + 16
    BY <2>4
  <2> QED BY <2>3, <2>5
<1>14. Header(QueryId, on, 1, 1) \o e \o <<TypeA, ClassIn>> = Asking(n, 1)
  BY <1>2, <1>9 DEF Asking
<1>15. Header(QueryId, on, 1, 2) \o e \o <<TypeA, ClassIn>> = Asking(n, 2)
  BY <1>2, <1>9 DEF Asking
<1>16. CASE l = <<>>
  <2>1. OtherResponse(q) = Asking(n, 1) \o ptr \o ad
    BY <1>8, <1>14, <1>16
  <2> QED BY <1>1, <1>3, <1>10, <1>16, <2>1 DEF PlainResponse
<1>17. CASE l # <<>>
  <2>1. PICK a : a = Asking(n, 2)
    OBVIOUS
  <2>2. PICK k : k = 6 + Len(e) + 2 + Len(first)
    OBVIOUS
  <2>3. OtherResponse(q) = a \o first \o cn \o Pointer(k) \o ad
    BY <1>8, <1>15, <1>17, <2>1, <2>2
  <2>4. k = Len(n) + 16
    BY <1>13, <2>2
  <2>5. AliasedResponse(n, l) = a \o first \o cn \o Pointer(k) \o ad
    BY <1>3, <1>10, <1>11, <1>12, <2>1, <2>4 DEF AliasedResponse
  <2> QED BY <1>1, <1>17, <2>3, <2>5
<1> QED BY <1>16, <1>17

\* The other server's reply is a message that the client shows as the answer.
LEMMA OtherReplyFacts ==
    ASSUME NEW n \in Names, NEW m, m = OtherReply[Query[n]]
    PROVE  /\ m \in Message /\ m \in ResponseMsg /\ DecodedResponse[m].id = QueryId
           /\ OtherAnswer(n, Shown(m))
<1>1. PICK q : q = Query[n]
  OBVIOUS
<1>2. /\ q \in QueryMsg
      /\ DecodedQuery[q] = [id |-> QueryId, flags |-> 0, name |-> n, type |-> TypeA, cls |-> ClassIn]
  BY <1>1, QueryFacts
<1>3. PICK dq : dq = DecodedQuery[q]
  OBVIOUS
<1>4. dq.id = QueryId /\ dq.name = n /\ dq.type = TypeA /\ dq.cls = ClassIn
  BY <1>2, <1>3
<1>5. m = OtherResponse(dq)
  BY <1>1, <1>3 DEF OtherReply
<1>6. m = IF Alias[n] = <<>> THEN PlainResponse(n) ELSE AliasedResponse(n, Alias[n])
  BY <1>4, <1>5, OtherIs
<1>7. m \in ResponseMsg
  BY <1>1 DEF ResponseMsg
<1>8. DecodedResponse[m] = DecodeResponse(m)
  BY <1>7 DEF DecodedResponse
<1>9. PICK s : s = Shown(m)
  OBVIOUS
<1>10. CASE Alias[n] = <<>>
  <2>1. m = PlainResponse(n)
    BY <1>6, <1>10
  <2>2. m \in Message /\ \E a : PlainRead(m, n, a)
    BY <2>1, PlainDecoded
  <2>3. PICK a : PlainRead(m, n, a)
    BY <2>2
  <2>4. /\ DecodeResponse(m) = [id |-> QueryId, flags |-> 32768, question |-> n, answers |-> <<a>>]
        /\ a.name = n /\ a.text = AddressText(Address)
    BY <2>3 DEF PlainRead
  <2>5. s.question = n /\ s.answers = <<a>>
    BY <1>8, <1>9, <2>4 DEF Shown
  <2>6. Len(s.answers) = 1 /\ s.answers[1] = a
    BY <2>5
  <2>7. OtherAnswer(n, s)
    BY <1>10, <2>4, <2>5, <2>6 DEF OtherAnswer
  <2> QED BY <1>7, <1>8, <1>9, <2>2, <2>4, <2>7
<1>11. CASE Alias[n] # <<>>
  <2>1. PICK l : l = Alias[n]
    OBVIOUS
  <2>2. m = AliasedResponse(n, l)
    BY <1>6, <1>11, <2>1
  <2>3. l \in Label /\ l # <<>> /\ Len(l) < LabelLimit
    BY <1>11, <2>1, OtherParts
  <2>4. Aliased(m, n, l)
    BY <2>2, <2>3, AliasedParts
  <2>5. PICK a, b : AliasedRead(m, n, l, a, b)
    BY <2>3, <2>4, AliasedDecoded
  <2>6. /\ DecodeResponse(m) = [id |-> QueryId, flags |-> 32768, question |-> n, answers |-> <<a, b>>]
        /\ a.name = n /\ a.text = l \o <<Dot>> \o n
        /\ b.name = l \o <<Dot>> \o n /\ b.text = AddressText(Address)
    BY <2>5 DEF AliasedRead
  <2>7. s.question = n /\ s.answers = <<a, b>>
    BY <1>8, <1>9, <2>6 DEF Shown
  <2>8. Len(s.answers) = 2 /\ s.answers[1] = a /\ s.answers[2] = b
    BY <2>7
  <2>9. OtherAnswer(n, s)
    BY <1>11, <2>1, <2>6, <2>7, <2>8 DEF OtherAnswer
  <2>10. m \in Message
    BY <2>4 DEF Aliased
  <2> QED BY <1>7, <1>8, <1>9, <2>6, <2>9, <2>10
<1> QED BY <1>10, <1>11

(***************************************************************************)
(* What holds in every state.                                              *)
(***************************************************************************)
\* The messages with which the server that is used may answer the query for n.
Reply(v, n) ==
    IF v = "own" THEN {OwnReply[Query[n]][ttl] : ttl \in Ttl} ELSE {OtherReply[Query[n]]}

AnyReply == UNION {Reply(v, n) : v \in {"own", "other"}, n \in Names}

Results == {Failed} \cup {Shown(m) : m \in AnyReply}

Answering(v, n, p) == IF v = "own" THEN ResultFor(n, p) ELSE OtherAnswer(n, p)

Types ==
    /\ via \in {"own", "other"}
    /\ server \in {"receive", "send", "idle", "stopped"}
    /\ clientEndpoint \in Client \cup {NoClient}
    /\ outgoing \in AnyReply \cup {<<>>}
    /\ todo \in [Client -> Seq(Names)]
    /\ waiting \in [Client -> BOOLEAN]
    /\ printed \in [Client -> Seq(Results)]
    /\ toClient \in [Client -> SUBSET AnyReply]
    /\ faults \subseteq Fault

\* Of its names a client has what it printed something for behind it.
InOrder ==
    \A c \in Client :
        /\ Len(printed[c]) <= Len(Asked[c])
        /\ todo[c] = SubSeq(Asked[c], Len(printed[c]) + 1, Len(Asked[c]))
        /\ waiting[c] => todo[c] # <<>>

\* Only queries, and messages that are none, get to the server; it answers the
\* former, and nobody waits for an answer to the latter.
Queries ==
    /\ \A d \in toServer : \/ \E c \in Client, n \in Names : d = <<c, Query[n]>>
                           \/ via = "own" /\ d = <<NoClient, NonQuery>>
    /\ server = "send" => via = "own" /\ clientEndpoint \in Client /\ outgoing \in AnyReply

Sending(c) == server = "send" /\ clientEndpoint = c

\* A query, a response being sent and a response on its way: of these there is
\* at most one, while the client waits for it, and it is about the name on which
\* the client is.
UnderWay(c) ==
    /\ \A d \in toServer : d[1] = c =>
          waiting[c] /\ d[2] = Query[Head(todo[c])] /\ ~Sending(c) /\ toClient[c] = {}
    /\ Sending(c) => waiting[c] /\ outgoing \in Reply(via, Head(todo[c])) /\ toClient[c] = {}
    /\ \A m \in toClient[c] :
          waiting[c] /\ m \in Reply(via, Head(todo[c])) /\ toClient[c] = {m}

Printed(c) ==
    \A i \in DOMAIN printed[c] :
        printed[c][i] = Failed \/ Answering(via, Asked[c][i], printed[c][i])

Faithful == Trusted => \A c \in Client : UnderWay(c) /\ Printed(c)

\* The names that client c has asked for so far, whatever came of it.
Turn(c) == Len(printed[c]) + (IF waiting[c] THEN 1 ELSE 0)
SoFar(c) == {Asked[c][i] : i \in 1 .. Turn(c)}
Belated(c) == UNION {Reply(via, n) : n \in SoFar(c)}

\* Also when messages are repeated or come late, what is on its way for a client is
\* about a name for which it has asked, and so is what it prints.
Own(c) ==
    /\ \A d \in toServer : d[1] = c => d[2] \in {Query[n] : n \in SoFar(c)}
    /\ Sending(c) => outgoing \in Belated(c)
    /\ toClient[c] \subseteq Belated(c)
    /\ \A i \in DOMAIN printed[c] :
          printed[c][i] = Failed \/ \E j \in 1 .. i : Answering(via, Asked[c][j], printed[c][i])

IInv == Types /\ InOrder /\ Queries /\ Faithful /\ \A c \in Client : Own(c)

(***************************************************************************)
(* The names and the messages.                                             *)
(***************************************************************************)
LEMMA AskedFacts ==
    ASSUME NEW c \in Client
    PROVE  Asked[c] \in Seq(Names) /\ Len(Asked[c]) = Len(Argv[c]) /\ Len(Asked[c]) \in Nat
<1>1. PICK s : s = Asked[c]
  OBVIOUS
<1>2. PICK a : a = Argv[c]
  OBVIOUS
<1>3. a \in Seq(Seq(Label))
  BY <1>2, DnsAssumption
<1>4. PICK N \in Nat : N = Len(a) /\ DOMAIN a = 1 .. N
  BY <1>3
<1>5. s = [i \in 1 .. N |-> Join(a[i])]
  BY <1>1, <1>2, <1>4 DEF Asked
<1>6. s \in Seq({s[i] : i \in 1 .. N}) /\ Len(s) = N /\ DOMAIN s = 1 .. N
  BY <1>4, <1>5
<1>7. \A i \in 1 .. Len(s) : s[i] \in Names
  <2>1. TAKE i \in 1 .. Len(s)
  <2>2. s[i] \in Range(s)
    BY <1>6, <2>1 DEF Range
  <2> QED BY <1>1, <2>2 DEF Names
<1>8. s \in Seq(Names)
  BY <1>6, <1>7, ElementOfSeq
<1> QED BY <1>1, <1>2, <1>4, <1>6, <1>8

LEMMA NamesAreTexts == Names \subseteq Text
BY ProperName DEF Proper

LEMMA ReplyFacts ==
    ASSUME NEW v \in {"own", "other"}, NEW n \in Names, NEW m \in Reply(v, n)
    PROVE  /\ m \in AnyReply /\ m \in Message /\ m \in ResponseMsg /\ DecodedResponse[m].id = QueryId
           /\ Answering(v, n, Shown(m)) /\ Shown(m) \in Results
<1>1. m \in AnyReply
  BY DEF AnyReply
<1>2. Shown(m) \in Results
  BY <1>1 DEF Results
<1>3. CASE v = "own"
  <2>1. PICK ttl \in Ttl : m = OwnReply[Query[n]][ttl]
    BY <1>3 DEF Reply
  <2> QED BY <1>1, <1>2, <1>3, <2>1, OwnReplyFacts DEF Answering
<1>4. CASE v # "own"
  <2>1. m = OtherReply[Query[n]]
    BY <1>4 DEF Reply
  <2> QED BY <1>1, <1>2, <1>4, <2>1, OtherReplyFacts DEF Answering
<1> QED BY <1>3, <1>4

LEMMA AnyReplyFacts ==
    ASSUME NEW m \in AnyReply
    PROVE  /\ m \in Message /\ m \in ResponseMsg /\ DecodedResponse[m].id = QueryId /\ Shown(m) \in Results
<1>1. PICK v \in {"own", "other"}, n \in Names : m \in Reply(v, n)
  BY DEF AnyReply
<1> QED BY <1>1, ReplyFacts

\* What is left of a sequence behind its first k elements.
LEMMA RestFacts ==
    ASSUME NEW S, NEW s \in Seq(S), NEW k \in Nat, k <= Len(s), NEW t, t = SubSeq(s, k + 1, Len(s))
    PROVE  /\ t \in Seq(S) /\ Len(t) = Len(s) - k
           /\ t # <<>> => /\ k + 1 \in 1 .. Len(s) /\ Head(t) = s[k + 1]
                          /\ Tail(t) = SubSeq(s, (k + 1) + 1, Len(s))
<1>1. PICK N \in Nat : N = Len(s)
  OBVIOUS
<1>2. t \in Seq(S) /\ Len(t) = N - k /\ \A i \in 1 .. N - k : t[i] = s[k + i]
  <2>1. k + 1 \in 1 .. N + 1 /\ N \in k .. N
    BY <1>1
  <2>2. \A i \in k + 1 .. N : s[i] \in S
    BY <1>1
  <2> QED BY <1>1, <2>1, <2>2
<1>3. ASSUME t # <<>>
      PROVE  k + 1 \in 1 .. N /\ Head(t) = s[k + 1] /\ Tail(t) = SubSeq(s, (k + 1) + 1, N)
  <2>1. Len(t) # 0
    BY <1>2, <1>3
  <2>2. k < N
    BY <1>1, <1>2, <2>1
  <2>3. Head(t) = s[k + 1]
    BY <1>2, <2>2
  <2>4. PICK u : u = SubSeq(s, (k + 1) + 1, N)
    OBVIOUS
  <2>5. u \in Seq(S) /\ Len(u) = N - k - 1 /\ \A i \in 1 .. N - k - 1 : u[i] = s[k + 1 + i]
    <3>1. \A i \in (k + 1) + 1 .. N : s[i] \in S
      BY <1>1
    <3> QED BY <1>1, <2>2, <2>4, <3>1
  <2>6. Tail(t) \in Seq(S) /\ Len(Tail(t)) = N - k - 1 /\ \A i \in 1 .. N - k - 1 : Tail(t)[i] = t[i + 1]
    BY <1>2, <1>3, <2>2
  <2>7. PICK w : w = Tail(t)
    OBVIOUS
  <2>8. \A i \in 1 .. N - k - 1 : w[i] = u[i]
    <3>1. TAKE i \in 1 .. N - k - 1
    <3>2. i + 1 \in 1 .. N - k /\ k + (i + 1) = k + 1 + i
      OBVIOUS
    <3>3. w[i] = t[i + 1] /\ t[i + 1] = s[k + (i + 1)]
      BY <1>2, <2>6, <2>7, <3>2
    <3> QED BY <2>5, <3>2, <3>3
  <2>9. w = u
    <3>1. PICK K : K = N - k - 1
      OBVIOUS
    <3>2. w \in Seq(S) /\ u \in Seq(S) /\ Len(w) = K /\ Len(u) = K /\ \A i \in 1 .. K : w[i] = u[i]
      BY <2>5, <2>6, <2>7, <2>8, <3>1
    <3>3. Len(w) = Len(u) /\ \A i \in 1 .. Len(w) : w[i] = u[i]
      BY <3>2
    <3> QED BY <3>2, <3>3, SeqEqual
  <2>10. k + 1 \in 1 .. N
    BY <2>2
  <2>11. Tail(t) = SubSeq(s, (k + 1) + 1, N)
    BY <2>4, <2>7, <2>9
  <2> QED BY <2>3, <2>10, <2>11
<1> QED BY <1>1, <1>2, <1>3

LEMMA FailedIsResult == Failed \in Results
BY DEF Results

LEMMA QueryIsMessage ==
    ASSUME NEW d, \/ \E c \in Client, n \in Names : d = <<c, Query[n]>>
                  \/ d = <<NoClient, NonQuery>>
    PROVE  d \in (Client \cup {NoClient}) \X Message
<1>1. PICK c \in Client \cup {NoClient}, m \in Message : d = <<c, m>>
  <2>1. CASE \E c \in Client, n \in Names : d = <<c, Query[n]>>
    <3>1. PICK c \in Client, n \in Names : d = <<c, Query[n]>>
      BY <2>1
    <3>2. Query[n] \in Message
      BY QueryFacts
    <3> QED BY <3>1, <3>2
  <2>2. CASE d = <<NoClient, NonQuery>>
    BY <2>2, NonQueryFacts
  <2> QED BY <2>1, <2>2
<1> QED BY <1>1

\* The name a client is on, and what follows it.
LEMMA OnName ==
    ASSUME Types, InOrder, NEW c \in Client
    PROVE  /\ Len(printed[c]) \in Nat /\ Len(todo[c]) = Len(Asked[c]) - Len(printed[c])
           /\ todo[c] # <<>> => /\ Head(todo[c]) \in Names
                                /\ Len(printed[c]) + 1 \in 1 .. Len(Asked[c])
                                /\ Head(todo[c]) = Asked[c][Len(printed[c]) + 1]
                                /\ Tail(todo[c]) \in Seq(Names)
                                /\ Tail(todo[c]) = SubSeq(Asked[c], (Len(printed[c]) + 1) + 1, Len(Asked[c]))
<1>1. PICK s \in Seq(Names) : s = Asked[c]
  BY AskedFacts
<1>2. PICK k \in Nat : k = Len(printed[c])
  BY DEF Types
<1>3. PICK t : t = todo[c]
  OBVIOUS
<1>4. k <= Len(s) /\ t = SubSeq(s, k + 1, Len(s)) /\ t \in Seq(Names)
  BY <1>1, <1>2, <1>3 DEF InOrder, Types
<1>5. Len(t) = Len(s) - k
  BY <1>4, RestFacts
<1>6. t # <<>> => /\ k + 1 \in 1 .. Len(s) /\ Head(t) = s[k + 1]
                  /\ Tail(t) = SubSeq(s, (k + 1) + 1, Len(s))
  BY <1>4, RestFacts
<1>7. t # <<>> => Head(t) \in Names /\ Tail(t) \in Seq(Names)
  BY <1>4
<1> QED BY <1>1, <1>2, <1>3, <1>5, <1>6, <1>7

LEMMA InitShape == Init => Types /\ InOrder /\ Queries
<1> SUFFICES ASSUME Init PROVE Types /\ InOrder /\ Queries
  OBVIOUS
<1>1. todo \in [Client -> Seq(Names)]
  BY AskedFacts DEF Init, Asked
<1>2. Types
  BY <1>1 DEF Init, Types
<1>3. InOrder
  <2> SUFFICES ASSUME NEW c \in Client
               PROVE  /\ Len(printed[c]) <= Len(Asked[c])
                      /\ todo[c] = SubSeq(Asked[c], Len(printed[c]) + 1, Len(Asked[c]))
                      /\ ~waiting[c]
    BY DEF InOrder
  <2>1. printed[c] = <<>> /\ ~waiting[c] /\ todo[c] = Asked[c]
    BY DEF Init
  <2>2. PICK s \in Seq(Names) : s = Asked[c]
    BY AskedFacts
  <2>3. s = SubSeq(s, 1, Len(s)) /\ Len(s) >= 0
    OBVIOUS
  <2>4. Len(printed[c]) = 0
    BY <2>1
  <2>5. 0 + 1 = 1
    OBVIOUS
  <2> QED BY <2>1, <2>2, <2>3, <2>4, <2>5
<1> QED BY <1>2, <1>3 DEF Init, Queries

\* A client that prints a result goes on to its next name.
LEMMA Dumped ==
    ASSUME Types, InOrder, NEW c \in Client, todo[c] # <<>>, NEW p \in Results, Dump(c, p)
    PROVE  /\ todo' \in [Client -> Seq(Names)] /\ waiting' \in [Client -> BOOLEAN]
           /\ printed' \in [Client -> Seq(Results)]
           /\ InOrder'
<1>1. /\ printed' = [printed EXCEPT ![c] = Append(@, p)]
      /\ todo' = [todo EXCEPT ![c] = Tail(@)]
      /\ waiting' = [waiting EXCEPT ![c] = FALSE]
  BY DEF Dump
<1>2. Tail(todo[c]) \in Seq(Names)
  BY OnName
<1>3. Append(printed[c], p) \in Seq(Results) /\ Len(Append(printed[c], p)) = Len(printed[c]) + 1
  BY DEF Types
<1>4. ASSUME NEW x \in Client
      PROVE  /\ Len(printed'[x]) <= Len(Asked[x])
             /\ todo'[x] = SubSeq(Asked[x], Len(printed'[x]) + 1, Len(Asked[x]))
             /\ waiting'[x] => todo'[x] # <<>>
  <2>1. CASE x = c
    <3>1. printed'[c] = Append(printed[c], p) /\ todo'[c] = Tail(todo[c]) /\ ~waiting'[c]
      BY <1>1 DEF Types
    <3>2. Len(printed'[c]) = Len(printed[c]) + 1
      BY <1>3, <3>1
    <3>3. /\ Len(printed[c]) + 1 \in 1 .. Len(Asked[c])
          /\ Tail(todo[c]) = SubSeq(Asked[c], (Len(printed[c]) + 1) + 1, Len(Asked[c]))
      BY OnName
    <3>4. Len(Asked[c]) \in Nat
      BY AskedFacts
    <3>5. Len(printed[c]) + 1 <= Len(Asked[c])
      BY <3>3, <3>4
    <3> QED BY <2>1, <3>1, <3>2, <3>3, <3>5
  <2>2. CASE x # c
    <3>1. printed'[x] = printed[x] /\ todo'[x] = todo[x] /\ waiting'[x] = waiting[x]
      BY <1>1, <2>2 DEF Types
    <3> QED BY <3>1 DEF InOrder
  <2> QED BY <2>1, <2>2
<1>5. InOrder'
  BY <1>4 DEF InOrder
<1> QED BY <1>1, <1>2, <1>3, <1>5 DEF Types

LEMMA ShapeReceive ==
    ASSUME Types, InOrder, Queries, Receive
    PROVE  Types' /\ InOrder' /\ Queries'
<1>1. PICK d \in toServer :
        /\ TakeQuery(d)
        /\ clientEndpoint' = d[1]
        /\ \/ /\ GetFlag(DecodedQuery[d[2]].flags, QR)
              /\ server' = "idle" /\ UNCHANGED outgoing
           \/ /\ ~GetFlag(DecodedQuery[d[2]].flags, QR)
              /\ server' = "send"
              /\ \E ttl \in Ttl : outgoing' = OwnReply[d[2]][ttl]
  BY DEF Receive
<1>2. UNCHANGED <<via, todo, waiting, printed, toClient>> /\ via = "own"
  BY DEF Receive, clientVars
<1>3. toServer' \subseteq toServer /\ faults' \subseteq Fault
  BY <1>1 DEF TakeQuery, Goes, Types
<1>4. \/ \E c \in Client, n \in Names : d = <<c, Query[n]>>
      \/ d = <<NoClient, NonQuery>>
  BY <1>1 DEF Queries
<1>5. InOrder'
  BY <1>2 DEF InOrder
<1>6. \A x \in toServer' : \/ \E c \in Client, n \in Names : x = <<c, Query[n]>>
                           \/ via' = "own" /\ x = <<NoClient, NonQuery>>
  BY <1>2, <1>3 DEF Queries
<1>7. CASE server' = "idle"
  <2>1. clientEndpoint' \in Client \cup {NoClient} /\ outgoing' = outgoing
    BY <1>1, <1>4, <1>7
  <2>2. Types'
    BY <1>2, <1>3, <1>7, <2>1 DEF Types
  <2>3. Queries'
    BY <1>6, <1>7 DEF Queries
  <2> QED BY <1>5, <2>2, <2>3
<1>8. CASE server' = "send"
  <2>1. PICK ttl \in Ttl : outgoing' = OwnReply[d[2]][ttl] /\ ~GetFlag(DecodedQuery[d[2]].flags, QR)
    BY <1>1, <1>8
  <2>2. d # <<NoClient, NonQuery>>
    BY <2>1, NonQueryFacts
  <2>3. PICK c \in Client, n \in Names : d = <<c, Query[n]>>
    BY <1>4, <2>2
  <2>4. outgoing' \in Reply("own", n)
    BY <2>1, <2>3 DEF Reply
  <2>5. outgoing' \in AnyReply
    BY <2>4 DEF AnyReply
  <2>6. clientEndpoint' = c
    BY <1>1, <2>3
  <2>7. Types'
    BY <1>2, <1>3, <1>8, <2>5, <2>6 DEF Types
  <2>8. Queries'
    BY <1>2, <1>6, <1>8, <2>5, <2>6 DEF Queries
  <2> QED BY <1>5, <2>7, <2>8
<1> QED BY <1>1, <1>7, <1>8

\* What the other actions of the server do to the shape.
LEMMA ShapeServer ==
    ASSUME Types, InOrder, Queries, ReceiveFails \/ Sent \/ SendFails \/ Stop
    PROVE  Types' /\ InOrder' /\ Queries'
<1>1. UNCHANGED <<via, clientEndpoint, todo, waiting, printed, toServer>>
  BY DEF ReceiveFails, Sent, SendFails, Stop, clientVars
<1>2. server' \in {"receive", "idle", "stopped"}
  BY DEF ReceiveFails, Sent, SendFails, Stop
<1>3. faults' \subseteq Fault
  BY DEF ReceiveFails, Sent, SendFails, Stop, Goes, Types
<1>4. outgoing' \in AnyReply \cup {<<>>}
  BY DEF ReceiveFails, Sent, SendFails, Stop, Types
<1>5. toClient' \in [Client -> SUBSET AnyReply]
  <2>1. CASE Sent
    <3>1. clientEndpoint \in Client /\ outgoing \in AnyReply
      BY <2>1 DEF Sent, Queries
    <3> QED BY <2>1, <3>1 DEF Sent, Types
  <2>2. CASE ReceiveFails \/ SendFails \/ Stop
    BY <2>2 DEF ReceiveFails, SendFails, Stop, Types
  <2> QED BY <2>1, <2>2
<1>6. Types'
  BY <1>1, <1>2, <1>3, <1>4, <1>5 DEF Types
<1>7. InOrder'
  BY <1>1 DEF InOrder
<1>8. Queries'
  BY <1>1, <1>2 DEF Queries
<1> QED BY <1>6, <1>7, <1>8

\* What the other server and the network do to it.
LEMMA ShapeNetwork ==
    ASSUME Types, InOrder, Queries, Other \/ Lose \/ Stray
    PROVE  Types' /\ InOrder' /\ Queries'
<1>1. UNCHANGED <<via, server, clientEndpoint, outgoing, todo, waiting, printed>>
  BY DEF Other, Lose, Stray, clientVars, serverVars
<1>2. faults' \subseteq Fault
  BY DEF Other, Lose, Stray, TakeQuery, Goes, Types
<1>3. \A d \in toServer' : d \in toServer \/ (via = "own" /\ d = <<NoClient, NonQuery>>)
  BY DEF Other, Lose, Stray, TakeQuery
<1>4. toClient' \in [Client -> SUBSET AnyReply]
  <2>1. CASE Other
    <3>1. PICK d \in toServer : toClient' = [toClient EXCEPT ![d[1]] = @ \cup {OtherReply[d[2]]}]
      BY <2>1 DEF Other
    <3>2. PICK c \in Client, n \in Names : d = <<c, Query[n]>>
      BY <2>1, <3>1 DEF Other, Queries
    <3>3. PICK m : m = OtherReply[Query[n]]
      OBVIOUS
    <3>4. m \in Reply("other", n)
      BY <3>3 DEF Reply
    <3>5. m \in AnyReply
      BY <3>4 DEF AnyReply
    <3>6. toClient' = [toClient EXCEPT ![c] = @ \cup {m}]
      BY <3>1, <3>2, <3>3
    <3> QED BY <3>5, <3>6 DEF Types
  <2>2. CASE Lose \/ Stray
    <3>1. \/ toClient' = toClient
          \/ \E c \in Client, m \in AnyReply : toClient' = [toClient EXCEPT ![c] = @ \ {m}]
      BY <2>2 DEF Lose, Stray, Types
    <3> QED BY <3>1 DEF Types
  <2> QED BY <2>1, <2>2
<1>5. Types'
  BY <1>1, <1>2, <1>4 DEF Types
<1>6. InOrder'
  BY <1>1 DEF InOrder
<1>7. Queries'
  BY <1>1, <1>3 DEF Queries
<1> QED BY <1>5, <1>6, <1>7

\* What a client does to it.
LEMMA ShapeClient ==
    ASSUME Types, InOrder, Queries, NEW c \in Client, Resolve(c) \/ Answer(c) \/ ResolveFails(c)
    PROVE  Types' /\ InOrder' /\ Queries'
<1>1. UNCHANGED <<via, server, clientEndpoint, outgoing>>
  BY DEF Resolve, Answer, ResolveFails, serverVars
<1>2. faults' \subseteq Fault
  BY DEF Resolve, Answer, ResolveFails, TakeResponse, Goes, Types
<1>3. CASE Resolve(c)
  <2>1. /\ toServer' = toServer \cup {<<c, Query[Head(todo[c])]>>}
        /\ waiting' = [waiting EXCEPT ![c] = TRUE]
        /\ UNCHANGED <<todo, printed, toClient>> /\ todo[c] # <<>>
    BY <1>3 DEF Resolve
  <2>2. PICK n \in Names : n = Head(todo[c])
    BY <2>1, OnName
  <2>3. \A d \in toServer' : d \in toServer \/ d = <<c, Query[n]>>
    BY <2>1, <2>2
  <2>4. Types'
    BY <1>1, <1>2, <2>1 DEF Types
  <2>5. InOrder'
    <3> SUFFICES ASSUME NEW x \in Client
                 PROVE  /\ Len(printed[x]) <= Len(Asked[x])
                        /\ todo[x] = SubSeq(Asked[x], Len(printed[x]) + 1, Len(Asked[x]))
                        /\ waiting'[x] => todo[x] # <<>>
      BY <2>1 DEF InOrder
    <3>1. waiting'[x] => waiting[x] \/ x = c
      BY <2>1 DEF Types
    <3> QED BY <2>1, <3>1 DEF InOrder
  <2>6. Queries'
    BY <1>1, <2>3 DEF Queries
  <2> QED BY <2>4, <2>5, <2>6
<1>4. CASE Answer(c)
  <2>1. PICK m \in toClient[c] :
          /\ TakeResponse(c, m)
          /\ LET r == DecodedResponse[m]
             IN  Dump(c, IF r.id = QueryId
                          THEN [question |-> r.question, rcode |-> GetRcode(r.flags),
                                answers |-> r.answers]
                          ELSE Failed)
    BY <1>4 DEF Answer
  <2>2. m \in AnyReply
    BY <2>1 DEF Types
  <2>3. DecodedResponse[m].id = QueryId /\ Shown(m) \in Results
    BY <2>2, AnyReplyFacts
  <2>4. Dump(c, Shown(m))
    BY <2>1, <2>3 DEF Shown
  <2>5. todo[c] # <<>>
    BY <1>4 DEF Answer, InOrder
  <2>6. /\ todo' \in [Client -> Seq(Names)] /\ waiting' \in [Client -> BOOLEAN]
        /\ printed' \in [Client -> Seq(Results)] /\ InOrder'
    BY <2>3, <2>4, <2>5, Dumped
  <2>7. toClient' \in [Client -> SUBSET AnyReply] /\ toServer' = toServer
    BY <1>4, <2>1 DEF Answer, TakeResponse, Types
  <2>8. Types'
    BY <1>1, <1>2, <2>6, <2>7 DEF Types
  <2>9. Queries'
    BY <1>1, <2>7 DEF Queries
  <2> QED BY <2>6, <2>8, <2>9
<1>5. CASE ResolveFails(c)
  <2>1. Dump(c, Failed) /\ todo[c] # <<>> /\ UNCHANGED <<toServer, toClient>>
    BY <1>5 DEF ResolveFails
  <2>2. /\ todo' \in [Client -> Seq(Names)] /\ waiting' \in [Client -> BOOLEAN]
        /\ printed' \in [Client -> Seq(Results)] /\ InOrder'
    BY <2>1, FailedIsResult, Dumped
  <2>3. Types'
    BY <1>1, <1>2, <2>1, <2>2 DEF Types
  <2>4. Queries'
    BY <1>1, <2>1 DEF Queries
  <2> QED BY <2>2, <2>3, <2>4
<1> QED BY <1>3, <1>4, <1>5

LEMMA ShapeStep ==
    Types /\ InOrder /\ Queries /\ [Next]_vars => Types' /\ InOrder' /\ Queries'
<1> SUFFICES ASSUME Types, InOrder, Queries, [Next]_vars
             PROVE  Types' /\ InOrder' /\ Queries'
  OBVIOUS
<1>1. CASE Receive
  BY <1>1, ShapeReceive
<1>2. CASE ReceiveFails \/ Sent \/ SendFails \/ Stop
  BY <1>2, ShapeServer
<1>3. CASE Other \/ Lose \/ Stray
  BY <1>3, ShapeNetwork
<1>4. ASSUME NEW c \in Client, Resolve(c) \/ Answer(c) \/ ResolveFails(c)
      PROVE  Types' /\ InOrder' /\ Queries'
  BY <1>4, ShapeClient
<1>5. CASE UNCHANGED vars
  BY <1>5 DEF vars, serverVars, clientVars, Types, InOrder, Queries
<1> QED BY <1>1, <1>2, <1>3, <1>4, <1>5 DEF Next

(***************************************************************************)
(* One thing under way at a time.                                          *)
(***************************************************************************)
\* Less may be under way for a client about which nothing else changes.
Less(c) ==
    /\ via' = via /\ waiting'[c] = waiting[c] /\ todo'[c] = todo[c]
    /\ toClient'[c] \subseteq toClient[c]
    /\ \A d \in toServer' : d[1] = c => d \in toServer
    /\ Sending(c)' => Sending(c) /\ outgoing' = outgoing

LEMMA LessUnderWay ==
    ASSUME NEW c \in Client, UnderWay(c), Less(c)
    PROVE  UnderWay(c)'
<1>1. \A d \in toServer' : d[1] = c =>
          waiting'[c] /\ d[2] = Query[Head(todo'[c])] /\ ~Sending(c)' /\ toClient'[c] = {}
  BY DEF UnderWay, Less
<1>2. Sending(c)' => waiting'[c] /\ outgoing' \in Reply(via', Head(todo'[c])) /\ toClient'[c] = {}
  BY DEF UnderWay, Less
<1>3. \A m \in toClient'[c] :
          waiting'[c] /\ m \in Reply(via', Head(todo'[c])) /\ toClient'[c] = {m}
  BY DEF UnderWay, Less
<1> QED BY <1>1, <1>2, <1>3 DEF UnderWay

\* Nothing is under way for a client that does not wait.
Idle(c) == (\A d \in toServer : d[1] # c) /\ ~Sending(c) /\ toClient[c] = {}

LEMMA IdleFacts ==
    ASSUME NEW c \in Client
    PROVE  /\ Idle(c) => UnderWay(c)
           /\ UnderWay(c) /\ ~waiting[c] => Idle(c)
BY DEF Idle, UnderWay

\* A query is under way for c, and nothing else.
LEMMA OneQuery ==
    ASSUME Types, InOrder, Queries, NEW d \in toServer, NEW c \in Client, NEW n \in Names,
           d = <<c, Query[n]>>, UnderWay(c)
    PROVE  /\ waiting[c] /\ Query[n] = Query[Head(todo[c])] /\ Head(todo[c]) \in Names
           /\ ~Sending(c) /\ toClient[c] = {}
           /\ \A x \in toServer : x[1] = c => x = d
<1>1. d[1] = c /\ d[2] = Query[n]
  OBVIOUS
<1>2. waiting[c] /\ d[2] = Query[Head(todo[c])] /\ ~Sending(c) /\ toClient[c] = {}
  BY <1>1 DEF UnderWay
<1>3. Head(todo[c]) \in Names
  BY <1>2, OnName DEF InOrder
<1>4. ASSUME NEW x \in toServer, x[1] = c PROVE x = d
  <2>1. x[2] = Query[Head(todo[c])]
    BY <1>4 DEF UnderWay
  <2>2. c # NoClient
    BY DnsAssumption
  <2>3. \/ \E y \in Client, z \in Names : x = <<y, Query[z]>>
        \/ x = <<NoClient, NonQuery>>
    BY DEF Queries
  <2>4. PICK y \in Client, z \in Names : x = <<y, Query[z]>>
    BY <1>4, <2>2, <2>3
  <2>5. y = c /\ Query[z] = Query[n]
    BY <1>1, <1>2, <1>4, <2>1, <2>4
  <2> QED BY <2>4, <2>5
<1> QED BY <1>1, <1>2, <1>3, <1>4

\* What was printed stays as good as it was.
LEMMA SamePrinted ==
    ASSUME NEW c \in Client, Printed(c), via' = via, printed'[c] = printed[c]
    PROVE  Printed(c)'
BY DEF Printed

\* One more result is printed, which is the failure's or answers the name the
\* client is on.
LEMMA MorePrinted ==
    ASSUME Types, InOrder, NEW c \in Client, todo[c] # <<>>, Printed(c), via' = via,
           NEW p \in Results, p = Failed \/ Answering(via, Head(todo[c]), p),
           printed'[c] = Append(printed[c], p)
    PROVE  Printed(c)'
<1>1. PICK s \in Seq(Results) : s = printed[c]
  BY DEF Types
<1>2. PICK k \in Nat : k = Len(s)
  OBVIOUS
<1>3. Head(todo[c]) = Asked[c][k + 1]
  BY <1>1, <1>2, OnName
<1>4. PICK u : u = Append(s, p)
  OBVIOUS
<1>5. /\ DOMAIN u = 1 .. k + 1 /\ u[k + 1] = p /\ \A i \in 1 .. k : u[i] = s[i]
      /\ DOMAIN s = 1 .. k
  <2>1. u \in Seq(Results) /\ Len(u) = k + 1 /\ u[k + 1] = p /\ \A i \in 1 .. k : u[i] = s[i]
    BY <1>2, <1>4, AppendProperties
  <2> QED BY <1>2, <2>1
<1>6. \A i \in 1 .. k : u[i] = Failed \/ Answering(via, Asked[c][i], u[i])
  BY <1>1, <1>5 DEF Printed
<1>7. u[k + 1] = Failed \/ Answering(via, Asked[c][k + 1], u[k + 1])
  BY <1>3, <1>5
<1>8. \A i \in DOMAIN u : i \in 1 .. k \/ i = k + 1
  BY <1>5
<1>9. \A i \in DOMAIN u : u[i] = Failed \/ Answering(via, Asked[c][i], u[i])
  BY <1>6, <1>7, <1>8
<1> QED BY <1>1, <1>4, <1>9 DEF Printed

LEMMA UnderWayReceive ==
    ASSUME Types, InOrder, Queries, Receive, Trusted', NEW c \in Client, UnderWay(c)
    PROVE  UnderWay(c)'
<1>1. PICK d \in toServer :
        /\ TakeQuery(d)
        /\ clientEndpoint' = d[1]
        /\ \/ /\ GetFlag(DecodedQuery[d[2]].flags, QR)
              /\ server' = "idle" /\ UNCHANGED outgoing
           \/ /\ ~GetFlag(DecodedQuery[d[2]].flags, QR)
              /\ server' = "send"
              /\ \E ttl \in Ttl : outgoing' = OwnReply[d[2]][ttl]
  BY DEF Receive
<1>2. UNCHANGED <<via, todo, waiting, printed, toClient>> /\ via = "own" /\ server = "receive"
  BY DEF Receive, clientVars
<1>3. toServer' = toServer \ {d}
  BY <1>1 DEF TakeQuery, Goes, Trusted
<1>4. ~Sending(c)
  BY <1>2 DEF Sending
<1>5. CASE ~Sending(c)'
  <2>1. Less(c)
    BY <1>2, <1>3, <1>5 DEF Less
  <2> QED BY <2>1, LessUnderWay
<1>6. CASE Sending(c)'
  <2>1. server' = "send" /\ d[1] = c
    BY <1>1, <1>6 DEF Sending
  <2>2. c # NoClient
    BY DnsAssumption
  <2>3. PICK n \in Names : d = <<c, Query[n]>>
    <3>1. \/ \E x \in Client, n \in Names : d = <<x, Query[n]>>
          \/ d = <<NoClient, NonQuery>>
      BY DEF Queries
    <3>2. PICK x \in Client, n \in Names : d = <<x, Query[n]>>
      BY <2>1, <2>2, <3>1
    <3>3. x = c
      BY <2>1, <3>2
    <3> QED BY <3>2, <3>3
  <2>4. /\ waiting[c] /\ Query[n] = Query[Head(todo[c])] /\ toClient[c] = {}
        /\ \A x \in toServer : x[1] = c => x = d
    BY <2>3, OneQuery
  <2>5. PICK ttl \in Ttl : outgoing' = OwnReply[d[2]][ttl]
    BY <1>1, <2>1
  <2>6. outgoing' \in Reply(via', Head(todo'[c]))
    BY <1>2, <2>3, <2>4, <2>5 DEF Reply
  <2>7. \A x \in toServer' : x[1] # c
    BY <1>3, <2>4
  <2> QED BY <1>2, <2>4, <2>6, <2>7 DEF UnderWay
<1> QED BY <1>5, <1>6

LEMMA UnderWayServer ==
    ASSUME Types, InOrder, Queries, ReceiveFails \/ Sent \/ SendFails \/ Stop,
           NEW c \in Client, UnderWay(c)
    PROVE  UnderWay(c)'
<1>1. UNCHANGED <<via, clientEndpoint, todo, waiting, printed, toServer>>
  BY DEF ReceiveFails, Sent, SendFails, Stop, clientVars
<1>2. ~Sending(c)'
  BY DEF ReceiveFails, Sent, SendFails, Stop, Sending
<1>3. CASE Sent /\ clientEndpoint = c
  <2>1. server = "send" /\ toClient' = [toClient EXCEPT ![c] = @ \cup {outgoing}]
    BY <1>3 DEF Sent
  <2>2. Sending(c)
    BY <1>3, <2>1 DEF Sending
  <2>3. waiting[c] /\ outgoing \in Reply(via, Head(todo[c])) /\ toClient[c] = {}
    BY <2>2 DEF UnderWay
  <2>4. \A d \in toServer : d[1] # c
    BY <2>2 DEF UnderWay
  <2>5. toClient'[c] = {outgoing}
    BY <2>1, <2>3 DEF Types
  <2> QED BY <1>1, <1>2, <2>3, <2>4, <2>5 DEF UnderWay
<1>4. CASE ~(Sent /\ clientEndpoint = c)
  <2>1. toClient'[c] = toClient[c]
    BY <1>4 DEF ReceiveFails, Sent, SendFails, Stop, Types
  <2>2. Less(c)
    BY <1>1, <1>2, <2>1 DEF Less
  <2> QED BY <2>2, LessUnderWay
<1> QED BY <1>3, <1>4

LEMMA UnderWayOther ==
    ASSUME Types, InOrder, Queries, Other, Trusted', NEW c \in Client, UnderWay(c)
    PROVE  UnderWay(c)'
<1>1. PICK d \in toServer :
        TakeQuery(d) /\ toClient' = [toClient EXCEPT ![d[1]] = @ \cup {OtherReply[d[2]]}]
  BY DEF Other
<1>2. UNCHANGED <<via, server, clientEndpoint, outgoing, todo, waiting, printed>> /\ via = "other"
  BY DEF Other, serverVars, clientVars
<1>3. toServer' = toServer \ {d}
  BY <1>1 DEF TakeQuery, Goes, Trusted
<1>4. PICK x \in Client, n \in Names : d = <<x, Query[n]>>
  BY <1>1, <1>2 DEF Queries
<1>5. PICK m : m = OtherReply[Query[n]]
  OBVIOUS
<1>6. toClient' = [toClient EXCEPT ![x] = @ \cup {m}]
  BY <1>1, <1>4, <1>5
<1>7. Sending(c)' <=> Sending(c)
  BY <1>2 DEF Sending
<1>8. CASE x = c
  <2>1. /\ waiting[c] /\ Query[n] = Query[Head(todo[c])] /\ ~Sending(c) /\ toClient[c] = {}
        /\ \A y \in toServer : y[1] = c => y = d
    BY <1>4, <1>8, OneQuery
  <2>2. toClient'[c] = {m}
    BY <1>6, <1>8, <2>1 DEF Types
  <2>3. m \in Reply(via', Head(todo'[c]))
    BY <1>2, <1>5, <2>1 DEF Reply
  <2>4. \A y \in toServer' : y[1] # c
    BY <1>3, <2>1
  <2> QED BY <1>2, <1>7, <2>1, <2>2, <2>3, <2>4 DEF UnderWay
<1>9. CASE x # c
  <2>1. toClient'[c] = toClient[c]
    BY <1>6, <1>9 DEF Types
  <2>2. Less(c)
    BY <1>2, <1>3, <1>7, <2>1 DEF Less
  <2> QED BY <2>2, LessUnderWay
<1> QED BY <1>8, <1>9

LEMMA UnderWayNetwork ==
    ASSUME Types, Lose \/ Stray, NEW c \in Client, UnderWay(c)
    PROVE  UnderWay(c)'
<1>1. UNCHANGED <<via, server, clientEndpoint, outgoing, todo, waiting, printed>>
  BY DEF Lose, Stray, serverVars, clientVars
<1>2. Sending(c)' <=> Sending(c)
  BY <1>1 DEF Sending
<1>3. \A d \in toServer' : d[1] = c => d \in toServer
  <2>1. c # NoClient
    BY DnsAssumption
  <2> QED BY <2>1 DEF Lose, Stray
<1>4. toClient'[c] \subseteq toClient[c]
  BY DEF Lose, Stray, Types
<1>5. Less(c)
  BY <1>1, <1>2, <1>3, <1>4 DEF Less
<1> QED BY <1>5, LessUnderWay

\* What another client does leaves c's messages alone.
LEMMA UnderWayOthers ==
    ASSUME Types, NEW x \in Client, Resolve(x) \/ Answer(x) \/ ResolveFails(x),
           NEW c \in Client, c # x, UnderWay(c)
    PROVE  UnderWay(c)' /\ printed'[c] = printed[c] /\ via' = via
<1>1. UNCHANGED <<via, server, clientEndpoint, outgoing>>
  BY DEF Resolve, Answer, ResolveFails, serverVars
<1>2. Sending(c)' <=> Sending(c)
  BY <1>1 DEF Sending
<1>3. waiting'[c] = waiting[c] /\ todo'[c] = todo[c] /\ printed'[c] = printed[c]
  BY DEF Resolve, Answer, ResolveFails, Dump, Types
<1>4. toClient'[c] \subseteq toClient[c]
  BY DEF Resolve, Answer, ResolveFails, TakeResponse, Types
<1>5. \A d \in toServer' : d[1] = c => d \in toServer
  BY DEF Resolve, Answer, ResolveFails
<1>6. Less(c)
  BY <1>1, <1>2, <1>3, <1>4, <1>5 DEF Less
<1> QED BY <1>1, <1>3, <1>6, LessUnderWay

\* What a client does while no receive fails and nothing is delivered twice.
LEMMA UnderWayResolve ==
    ASSUME Types, InOrder, Queries, NEW c \in Client, Resolve(c), UnderWay(c)
    PROVE  UnderWay(c)' /\ printed'[c] = printed[c] /\ via' = via
<1>1. /\ toServer' = toServer \cup {<<c, Query[Head(todo[c])]>>}
      /\ waiting' = [waiting EXCEPT ![c] = TRUE]
      /\ UNCHANGED <<via, server, clientEndpoint, outgoing, todo, printed, toClient>>
      /\ ~waiting[c]
  BY DEF Resolve, serverVars
<1>2. Idle(c)
  BY <1>1, IdleFacts
<1>3. waiting'[c] /\ ~Sending(c)' /\ toClient'[c] = {}
  BY <1>1, <1>2 DEF Idle, Sending, Types
<1>4. \A d \in toServer' : d[1] = c => d[2] = Query[Head(todo[c])]
  BY <1>1, <1>2 DEF Idle
<1> QED BY <1>1, <1>3, <1>4 DEF UnderWay

LEMMA UnderWayAnswer ==
    ASSUME Types, InOrder, Queries, NEW c \in Client, Answer(c), Trusted', UnderWay(c), Printed(c)
    PROVE  UnderWay(c)' /\ Printed(c)'
<1>1. PICK m \in toClient[c] :
        /\ TakeResponse(c, m)
        /\ LET r == DecodedResponse[m]
           IN  Dump(c, IF r.id = QueryId
                        THEN [question |-> r.question, rcode |-> GetRcode(r.flags),
                              answers |-> r.answers]
                        ELSE Failed)
  BY DEF Answer
<1>2. UNCHANGED <<via, server, clientEndpoint, outgoing, toServer>> /\ waiting[c]
  BY DEF Answer, serverVars
<1>3. todo[c] # <<>>
  BY <1>2 DEF InOrder
<1>4. m \in Reply(via, Head(todo[c])) /\ toClient[c] = {m} /\ ~Sending(c) /\ \A d \in toServer : d[1] # c
  BY <1>1 DEF UnderWay
<1>5. Head(todo[c]) \in Names /\ via \in {"own", "other"}
  BY <1>3, OnName DEF Types
<1>6. DecodedResponse[m].id = QueryId /\ Answering(via, Head(todo[c]), Shown(m)) /\ Shown(m) \in Results
  BY <1>4, <1>5, ReplyFacts
<1>7. Dump(c, Shown(m))
  BY <1>1, <1>6 DEF Shown
<1>8. printed'[c] = Append(printed[c], Shown(m)) /\ ~waiting'[c]
  BY <1>7 DEF Dump, Types
<1>9. toClient'[c] = {}
  BY <1>1, <1>4 DEF TakeResponse, Goes, Trusted, Types
<1>10. Idle(c)'
  BY <1>2, <1>4, <1>9 DEF Idle, Sending
<1>11. UnderWay(c)'
  BY <1>2, <1>10 DEF Idle, UnderWay
<1>12. Printed(c)'
  <2>1. PICK p \in Results : p = Shown(m)
    BY <1>6
  <2>2. Answering(via, Head(todo[c]), p) /\ printed'[c] = Append(printed[c], p)
    BY <1>6, <1>8, <2>1
  <2>3. via' = via
    BY <1>2
  <2> QED BY <1>3, <2>2, <2>3, MorePrinted
<1> QED BY <1>11, <1>12

LEMMA UnderWayFails ==
    ASSUME Types, InOrder, Queries, NEW c \in Client, ResolveFails(c), Trusted', UnderWay(c), Printed(c)
    PROVE  UnderWay(c)' /\ Printed(c)'
<1>1. UNCHANGED <<via, server, clientEndpoint, outgoing, toServer, toClient>> /\ todo[c] # <<>>
  BY DEF ResolveFails, serverVars
<1>2. ~waiting[c]
  BY DEF ResolveFails, Goes, Trusted
<1>3. printed'[c] = Append(printed[c], Failed)
  BY DEF ResolveFails, Dump, Types
<1>4. Idle(c)
  BY <1>2, IdleFacts
<1>5. UnderWay(c)'
  BY <1>1, <1>4 DEF Idle, UnderWay, Sending
<1>6. Printed(c)'
  <2>1. PICK p \in Results : p = Failed
    BY FailedIsResult
  <2>2. printed'[c] = Append(printed[c], p) /\ via' = via
    BY <1>1, <1>3, <2>1
  <2> QED BY <1>1, <2>1, <2>2, MorePrinted
<1> QED BY <1>5, <1>6

\* Nobody but a client prints.
LEMMA NotPrinted ==
    ASSUME \/ Receive \/ ReceiveFails \/ Sent \/ SendFails \/ Stop
           \/ Other \/ Lose \/ Stray \/ UNCHANGED vars,
           NEW c \in Client, Printed(c)
    PROVE  Printed(c)'
<1>1. via' = via /\ printed' = printed
  BY DEF Receive, ReceiveFails, Sent, SendFails, Stop, Other, Lose, Stray, vars, clientVars
<1> QED BY <1>1, SamePrinted

LEMMA FaithfulStep ==
    IInv /\ [Next]_vars => Faithful'
<1> SUFFICES ASSUME Types, InOrder, Queries, Faithful, [Next]_vars, Trusted', NEW c \in Client
             PROVE  UnderWay(c)' /\ Printed(c)'
  BY DEF IInv, Faithful
<1>1. Trusted
  <2>1. faults \subseteq faults'
    BY DEF Next, Receive, ReceiveFails, Sent, SendFails, Stop, Other, Lose, Stray, Resolve, Answer,
           ResolveFails, TakeQuery, TakeResponse, Goes, vars
  <2> QED BY <2>1 DEF Trusted
<1>2. UnderWay(c) /\ Printed(c)
  BY <1>1 DEF Faithful
<1>3. CASE Receive
  BY <1>2, <1>3, UnderWayReceive, NotPrinted
<1>4. CASE ReceiveFails \/ Sent \/ SendFails \/ Stop
  BY <1>2, <1>4, UnderWayServer, NotPrinted
<1>5. CASE Other
  BY <1>2, <1>5, UnderWayOther, NotPrinted
<1>6. CASE Lose \/ Stray
  BY <1>2, <1>6, UnderWayNetwork, NotPrinted
<1>7. ASSUME NEW x \in Client, Resolve(x) \/ Answer(x) \/ ResolveFails(x)
      PROVE  UnderWay(c)' /\ Printed(c)'
  <2>1. CASE x # c
    BY <1>2, <1>7, <2>1, UnderWayOthers, SamePrinted
  <2>2. CASE x = c /\ Resolve(c)
    BY <1>2, <2>2, UnderWayResolve, SamePrinted
  <2>3. CASE x = c /\ Answer(c)
    BY <1>2, <2>3, UnderWayAnswer
  <2>4. CASE x = c /\ ResolveFails(c)
    BY <1>2, <2>4, UnderWayFails
  <2> QED BY <1>7, <2>1, <2>2, <2>3, <2>4
<1>8. CASE UNCHANGED vars
  <2>1. Printed(c)'
    BY <1>2, <1>8, NotPrinted
  <2>2. Less(c)
    BY <1>8 DEF vars, serverVars, clientVars, Less, Sending
  <2> QED BY <1>2, <2>1, <2>2, LessUnderWay
<1> QED BY <1>3, <1>4, <1>5, <1>6, <1>7, <1>8 DEF Next

(***************************************************************************)
(* Nothing but what was asked for.                                         *)
(***************************************************************************)
LEMMA AnswerDumps ==
    ASSUME Types, NEW c \in Client, Answer(c)
    PROVE  \E p \in Results : Dump(c, p)
<1>1. PICK m \in toClient[c] :
        LET r == DecodedResponse[m]
        IN  Dump(c, IF r.id = QueryId
                     THEN [question |-> r.question, rcode |-> GetRcode(r.flags),
                           answers |-> r.answers]
                     ELSE Failed)
  BY DEF Answer
<1>2. DecodedResponse[m].id = QueryId /\ Shown(m) \in Results
  BY AnyReplyFacts DEF Types
<1>3. Dump(c, Shown(m))
  BY <1>1, <1>2 DEF Shown
<1> QED BY <1>2, <1>3

\* A client asks for one name after another.
LEMMA TurnGrows ==
    ASSUME Types, Types', InOrder, [Next]_vars, NEW c \in Client
    PROVE  via' = via /\ SoFar(c) \subseteq SoFar(c)'
<1>1. via' = via
  BY DEF Next, Receive, ReceiveFails, Sent, SendFails, Stop, Other, Lose, Stray, Resolve, Answer,
         ResolveFails, vars
<1>2. PICK k \in Nat, l \in Nat : k = Len(printed[c]) /\ l = Len(printed'[c])
  BY DEF Types
<1>3. PICK a \in {0, 1}, b \in {0, 1} :
        a = (IF waiting[c] THEN 1 ELSE 0) /\ b = (IF waiting'[c] THEN 1 ELSE 0)
  OBVIOUS
<1>4. k + a <= l + b
  <2>1. CASE printed'[c] = printed[c] /\ waiting'[c] = waiting[c]
    BY <1>2, <1>3, <2>1
  <2>2. CASE Resolve(c)
    <3>1. printed' = printed /\ waiting'[c]
      BY <2>2 DEF Resolve, Types
    <3> QED BY <1>2, <1>3, <3>1
  <2>3. CASE \E q \in Results : Dump(c, q)
    <3>1. PICK q \in Results : Dump(c, q)
      BY <2>3
    <3>2. PICK s \in Seq(Results) : s = printed[c]
      BY DEF Types
    <3>3. printed'[c] = Append(s, q)
      BY <3>1, <3>2 DEF Dump, Types
    <3>4. l = k + 1
      <4>1. PICK u : u = Append(s, q)
        OBVIOUS
      <4>2. Len(u) = Len(s) + 1
        BY <4>1, AppendProperties
      <4> QED BY <1>2, <3>2, <3>3, <4>1, <4>2
    <3>5. k + a <= k + 1 /\ k + 1 <= l + b
      <4>1. a \in 0 .. 1 /\ b \in 0 .. 1
        OBVIOUS
      <4> QED BY <3>4, <4>1
    <3> QED BY <3>4, <3>5
  <2>4. \/ printed'[c] = printed[c] /\ waiting'[c] = waiting[c]
        \/ Resolve(c) \/ \E q \in Results : Dump(c, q)
    <3>1. CASE \/ Receive \/ ReceiveFails \/ Sent \/ SendFails \/ Stop
               \/ Other \/ Lose \/ Stray \/ UNCHANGED vars
      <4>1. printed' = printed /\ waiting' = waiting
        BY <3>1 DEF Receive, ReceiveFails, Sent, SendFails, Stop, Other, Lose, Stray, vars, clientVars
      <4> QED BY <4>1
    <3>2. ASSUME NEW x \in Client, Resolve(x) \/ Answer(x) \/ ResolveFails(x), x # c
          PROVE  printed'[c] = printed[c] /\ waiting'[c] = waiting[c]
      BY <3>2 DEF Resolve, Answer, ResolveFails, Dump, Types
    <3>3. CASE Answer(c)
      <4>1. PICK q \in Results : Dump(c, q)
        BY <3>3, AnswerDumps
      <4> QED BY <4>1
    <3>4. CASE ResolveFails(c)
      BY <3>4, FailedIsResult DEF ResolveFails
    <3> QED BY <3>1, <3>2, <3>3, <3>4 DEF Next
  <2> QED BY <2>1, <2>2, <2>3, <2>4
<1>5. Turn(c) = k + a /\ Turn(c)' = l + b
  BY <1>2, <1>3 DEF Turn
<1>6. 1 .. k + a \subseteq 1 .. l + b
  BY <1>4
<1> QED BY <1>1, <1>5, <1>6 DEF SoFar

LEMMA MoreBelated ==
    ASSUME NEW c \in Client, via' = via, SoFar(c) \subseteq SoFar(c)'
    PROVE  Belated(c) \subseteq Belated(c)'
BY DEF Belated

\* A step may take away from what is on its way for a client, and no more.
LEMMA OwnLess ==
    ASSUME NEW c \in Client, Own(c), via' = via, SoFar(c) \subseteq SoFar(c)',
           toClient'[c] \subseteq toClient[c], \A d \in toServer' : d[1] = c => d \in toServer,
           Sending(c)' => Sending(c) /\ outgoing' = outgoing, printed'[c] = printed[c]
    PROVE  Own(c)'
<1>1. Belated(c) \subseteq Belated(c)'
  BY MoreBelated
<1>2. \A d \in toServer' : d[1] = c => d[2] \in {Query[n] : n \in SoFar(c)'}
  BY DEF Own
<1>3. (Sending(c)' => outgoing' \in Belated(c)') /\ toClient'[c] \subseteq Belated(c)'
  BY <1>1 DEF Own
<1>4. \A i \in DOMAIN printed'[c] :
         printed'[c][i] = Failed \/ \E j \in 1 .. i : Answering(via', Asked[c][j], printed'[c][i])
  BY DEF Own
<1> QED BY <1>2, <1>3, <1>4 DEF Own

LEMMA OwnReceive ==
    ASSUME Queries, Receive, NEW c \in Client, Own(c), SoFar(c) \subseteq SoFar(c)'
    PROVE  Own(c)'
<1>1. PICK d \in toServer :
        /\ TakeQuery(d)
        /\ clientEndpoint' = d[1]
        /\ \/ server' = "idle"
           \/ server' = "send" /\ \E ttl \in Ttl : outgoing' = OwnReply[d[2]][ttl]
  BY DEF Receive
<1>2. /\ UNCHANGED <<via, todo, waiting, printed, toClient>> /\ via = "own" /\ server = "receive"
      /\ toServer' \subseteq toServer
  BY <1>1 DEF Receive, clientVars, TakeQuery
<1>3. CASE ~Sending(c)'
  BY <1>2, <1>3, OwnLess
<1>4. CASE Sending(c)'
  <2>1. server' = "send" /\ d[1] = c
    BY <1>1, <1>4 DEF Sending
  <2>2. PICK n \in SoFar(c) : d[2] = Query[n]
    BY <2>1 DEF Own
  <2>3. PICK ttl \in Ttl : outgoing' = OwnReply[Query[n]][ttl]
    BY <1>1, <2>1, <2>2
  <2>4. outgoing' \in Reply(via', n)
    BY <1>2, <2>3 DEF Reply
  <2>5. outgoing' \in Belated(c)'
    BY <2>2, <2>4 DEF Belated
  <2>6. \A x \in toServer' : x[1] = c => x[2] \in {Query[z] : z \in SoFar(c)'}
    BY <1>2 DEF Own
  <2>7. toClient'[c] \subseteq Belated(c)'
    BY <1>2, MoreBelated DEF Own
  <2>8. \A i \in DOMAIN printed'[c] :
           printed'[c][i] = Failed \/ \E j \in 1 .. i : Answering(via', Asked[c][j], printed'[c][i])
    BY <1>2 DEF Own
  <2> QED BY <2>5, <2>6, <2>7, <2>8 DEF Own
<1> QED BY <1>3, <1>4

\* A response is put on its way to a client.
LEMMA OwnSent ==
    ASSUME NEW c \in Client, Own(c), via' = via, SoFar(c) \subseteq SoFar(c)',
           NEW m \in Belated(c), toClient'[c] \subseteq toClient[c] \cup {m},
           toServer' \subseteq toServer, Sending(c)' => Sending(c) /\ outgoing' = outgoing,
           printed' = printed
    PROVE  Own(c)'
<1>1. Belated(c) \subseteq Belated(c)'
  BY MoreBelated
<1>2. \A d \in toServer' : d[1] = c => d[2] \in {Query[n] : n \in SoFar(c)'}
  BY DEF Own
<1>3. (Sending(c)' => outgoing' \in Belated(c)') /\ toClient'[c] \subseteq Belated(c)'
  BY <1>1 DEF Own
<1>4. \A i \in DOMAIN printed'[c] :
         printed'[c][i] = Failed \/ \E j \in 1 .. i : Answering(via', Asked[c][j], printed'[c][i])
  BY DEF Own
<1> QED BY <1>2, <1>3, <1>4 DEF Own

LEMMA OwnServer ==
    ASSUME Types, ReceiveFails \/ Sent \/ SendFails \/ Stop,
           NEW c \in Client, Own(c), SoFar(c) \subseteq SoFar(c)'
    PROVE  Own(c)'
<1>1. UNCHANGED <<via, clientEndpoint, todo, waiting, printed, toServer>>
  BY DEF ReceiveFails, Sent, SendFails, Stop, clientVars
<1>2. ~Sending(c)'
  BY DEF ReceiveFails, Sent, SendFails, Stop, Sending
<1>3. CASE Sent /\ clientEndpoint = c
  <2>1. outgoing \in Belated(c)
    BY <1>3 DEF Sent, Sending, Own
  <2>2. PICK m : m = outgoing
    OBVIOUS
  <2>3. toClient'[c] \subseteq toClient[c] \cup {m}
    <3>1. toClient' = [toClient EXCEPT ![c] = @ \cup {m}]
      BY <1>3, <2>2 DEF Sent
    <3> QED BY <3>1 DEF Types
  <2>4. via' = via /\ toServer' \subseteq toServer /\ printed' = printed
    BY <1>1
  <2>5. m \in Belated(c)
    BY <2>1, <2>2
  <2> QED BY <1>2, <2>3, <2>4, <2>5, OwnSent
<1>4. CASE ~(Sent /\ clientEndpoint = c)
  <2>1. toClient'[c] = toClient[c]
    BY <1>4 DEF ReceiveFails, Sent, SendFails, Stop, Types
  <2> QED BY <1>1, <1>2, <2>1, OwnLess
<1> QED BY <1>3, <1>4

LEMMA OwnNetwork ==
    ASSUME Types, Queries, Other \/ Lose \/ Stray,
           NEW c \in Client, Own(c), SoFar(c) \subseteq SoFar(c)'
    PROVE  Own(c)'
<1>1. UNCHANGED <<via, server, clientEndpoint, outgoing, todo, waiting, printed>>
  BY DEF Other, Lose, Stray, serverVars, clientVars
<1>2. Sending(c)' <=> Sending(c)
  BY <1>1 DEF Sending
<1>3. CASE Other
  <2>1. PICK d \in toServer :
          TakeQuery(d) /\ toClient' = [toClient EXCEPT ![d[1]] = @ \cup {OtherReply[d[2]]}]
    BY <1>3 DEF Other
  <2>2. via = "other" /\ toServer' \subseteq toServer
    BY <1>3, <2>1 DEF Other, TakeQuery
  <2>3. CASE d[1] = c
    <3>1. PICK n \in SoFar(c) : d[2] = Query[n]
      BY <2>3 DEF Own
    <3>2. PICK m : m = OtherReply[Query[n]]
      OBVIOUS
    <3>3. m \in Reply(via, n)
      BY <2>2, <3>2 DEF Reply
    <3>4. m \in Belated(c)
      BY <3>3 DEF Belated
    <3>5. toClient'[c] \subseteq toClient[c] \cup {m}
      BY <2>1, <2>3, <3>1, <3>2 DEF Types
    <3> QED BY <1>1, <1>2, <2>2, <3>4, <3>5, OwnSent
  <2>4. CASE d[1] # c
    <3>1. toClient'[c] = toClient[c]
      BY <2>1, <2>4 DEF Types
    <3> QED BY <1>1, <1>2, <2>2, <3>1, OwnLess
  <2> QED BY <2>3, <2>4
<1>4. CASE Lose \/ Stray
  <2>1. c # NoClient
    BY DnsAssumption
  <2>2. \A d \in toServer' : d[1] = c => d \in toServer
    BY <1>4, <2>1 DEF Lose, Stray
  <2>3. toClient'[c] \subseteq toClient[c]
    BY <1>4 DEF Lose, Stray, Types
  <2> QED BY <1>1, <1>2, <2>2, <2>3, OwnLess
<1> QED BY <1>3, <1>4

\* The client asks for a name, which is one it has asked for from then on.
LEMMA OwnResolve ==
    ASSUME Types, InOrder, NEW c \in Client, Resolve(c), Own(c), SoFar(c) \subseteq SoFar(c)'
    PROVE  Own(c)'
<1>1. /\ toServer' = toServer \cup {<<c, Query[Head(todo[c])]>>}
      /\ waiting' = [waiting EXCEPT ![c] = TRUE]
      /\ UNCHANGED <<via, server, clientEndpoint, outgoing, todo, printed, toClient>>
      /\ todo[c] # <<>>
  BY DEF Resolve, serverVars
<1>2. PICK n : n = Head(todo[c])
  OBVIOUS
<1>3. PICK k \in Nat : k = Len(printed[c])
  BY DEF Types
<1>4. Turn(c)' = k + 1
  BY <1>1, <1>3 DEF Turn, Types
<1>5. n = Asked[c][k + 1]
  BY <1>1, <1>2, <1>3, OnName
<1>6. n \in SoFar(c)'
  BY <1>4, <1>5 DEF SoFar
<1>7. \A d \in toServer' : d[1] = c => d[2] \in {Query[z] : z \in SoFar(c)'}
  BY <1>1, <1>2, <1>6 DEF Own
<1>8. Belated(c) \subseteq Belated(c)'
  BY <1>1, MoreBelated
<1>9. (Sending(c)' => outgoing' \in Belated(c)') /\ toClient'[c] \subseteq Belated(c)'
  BY <1>1, <1>8 DEF Own, Sending
<1>10. \A i \in DOMAIN printed'[c] :
          printed'[c][i] = Failed \/ \E j \in 1 .. i : Answering(via', Asked[c][j], printed'[c][i])
  BY <1>1 DEF Own
<1> QED BY <1>7, <1>9, <1>10 DEF Own

\* One more result is printed, which is the failure's or answers a name for which
\* the client has asked.
LEMMA OwnDumped ==
    ASSUME Types, NEW c \in Client, Own(c), SoFar(c) \subseteq SoFar(c)', via' = via,
           UNCHANGED <<server, clientEndpoint, outgoing, toServer>>,
           toClient'[c] \subseteq toClient[c], NEW p \in Results,
           p = Failed \/ \E n \in SoFar(c) : waiting[c] /\ Answering(via, n, p),
           printed'[c] = Append(printed[c], p)
    PROVE  Own(c)'
<1>1. PICK s \in Seq(Results) : s = printed[c]
  BY DEF Types
<1>2. PICK k \in Nat : k = Len(s)
  OBVIOUS
<1>3. PICK u : u = Append(s, p)
  OBVIOUS
<1>4. /\ DOMAIN u = 1 .. k + 1 /\ u[k + 1] = p /\ \A i \in 1 .. k : u[i] = s[i]
      /\ DOMAIN s = 1 .. k
  <2>1. u \in Seq(Results) /\ Len(u) = k + 1 /\ u[k + 1] = p /\ \A i \in 1 .. k : u[i] = s[i]
    BY <1>2, <1>3, AppendProperties
  <2> QED BY <1>2, <2>1
<1>5. p = Failed \/ \E j \in 1 .. k + 1 : Answering(via, Asked[c][j], p)
  <2>1. ASSUME NEW n \in SoFar(c), waiting[c], Answering(via, n, p)
        PROVE  \E j \in 1 .. k + 1 : Answering(via, Asked[c][j], p)
    <3>1. Turn(c) = k + 1
      BY <1>1, <1>2, <2>1 DEF Turn
    <3> QED BY <2>1, <3>1 DEF SoFar
  <2> QED BY <2>1
<1>6. \A i \in 1 .. k : u[i] = Failed \/ \E j \in 1 .. i : Answering(via, Asked[c][j], u[i])
  BY <1>1, <1>4 DEF Own
<1>7. \A i \in DOMAIN u : i \in 1 .. k \/ i = k + 1
  BY <1>4
<1>8. \A i \in DOMAIN u : u[i] = Failed \/ \E j \in 1 .. i : Answering(via, Asked[c][j], u[i])
  BY <1>4, <1>5, <1>6, <1>7
<1>9. Belated(c) \subseteq Belated(c)'
  BY MoreBelated
<1>10. (Sending(c)' => outgoing' \in Belated(c)') /\ toClient'[c] \subseteq Belated(c)'
  BY <1>9 DEF Own, Sending
<1>11. \A d \in toServer' : d[1] = c => d[2] \in {Query[z] : z \in SoFar(c)'}
  BY DEF Own
<1>12. printed'[c] = u
  BY <1>1, <1>3
<1> QED BY <1>8, <1>10, <1>11, <1>12 DEF Own

LEMMA OwnClient ==
    ASSUME Types, InOrder, NEW c \in Client, Answer(c) \/ ResolveFails(c), Own(c),
           SoFar(c) \subseteq SoFar(c)'
    PROVE  Own(c)'
<1>1. UNCHANGED <<via, server, clientEndpoint, outgoing, toServer>>
  BY DEF Answer, ResolveFails, serverVars
<1>2. CASE ResolveFails(c)
  <2>1. PICK p \in Results : p = Failed
    BY FailedIsResult
  <2>2. printed'[c] = Append(printed[c], p) /\ toClient' = toClient
    BY <1>2, <2>1 DEF ResolveFails, Dump, Types
  <2> QED BY <1>1, <2>1, <2>2, OwnDumped
<1>3. CASE Answer(c)
  <2>1. PICK m \in toClient[c] :
          /\ TakeResponse(c, m)
          /\ LET r == DecodedResponse[m]
             IN  Dump(c, IF r.id = QueryId
                          THEN [question |-> r.question, rcode |-> GetRcode(r.flags),
                                answers |-> r.answers]
                          ELSE Failed)
    BY <1>3 DEF Answer
  <2>2. waiting[c] /\ via \in {"own", "other"}
    BY <1>3 DEF Answer, Types
  <2>3. PICK n \in SoFar(c) : m \in Reply(via, n)
    BY <2>1 DEF Own, Belated
  <2>4. n \in Names
    <3>1. todo[c] # <<>>
      BY <2>2 DEF InOrder
    <3>2. PICK k \in Nat : k = Len(printed[c])
      BY DEF Types
    <3>3. PICK s \in Seq(Names) : s = Asked[c]
      BY AskedFacts
    <3>4. k + 1 \in 1 .. Len(s)
      BY <3>1, <3>2, <3>3, OnName
    <3>5. Turn(c) = k + 1
      BY <2>2, <3>2 DEF Turn
    <3>6. PICK i \in 1 .. k + 1 : n = s[i]
      BY <2>3, <3>3, <3>5 DEF SoFar
    <3>7. i \in 1 .. Len(s)
      BY <3>4, <3>6
    <3> QED BY <3>6, <3>7
  <2>5. DecodedResponse[m].id = QueryId /\ Answering(via, n, Shown(m)) /\ Shown(m) \in Results
    BY <2>2, <2>3, <2>4, ReplyFacts
  <2>6. PICK p \in Results : p = Shown(m)
    BY <2>5
  <2>7. Dump(c, p)
    BY <2>1, <2>5, <2>6 DEF Shown
  <2>8. printed'[c] = Append(printed[c], p) /\ toClient'[c] \subseteq toClient[c]
    BY <2>1, <2>7 DEF Dump, TakeResponse, Types
  <2>9. \E z \in SoFar(c) : waiting[c] /\ Answering(via, z, p)
    BY <2>2, <2>3, <2>5, <2>6
  <2> QED BY <1>1, <2>8, <2>9, OwnDumped
<1> QED BY <1>2, <1>3

LEMMA OwnStep ==
    ASSUME IInv, Types', [Next]_vars, NEW c \in Client
    PROVE  Own(c)'
<1>1. Types /\ InOrder /\ Queries /\ Own(c)
  BY DEF IInv
<1>2. via' = via /\ SoFar(c) \subseteq SoFar(c)'
  BY <1>1, TurnGrows
<1>3. CASE Receive
  BY <1>1, <1>2, <1>3, OwnReceive
<1>4. CASE ReceiveFails \/ Sent \/ SendFails \/ Stop
  BY <1>1, <1>2, <1>4, OwnServer
<1>5. CASE Other \/ Lose \/ Stray
  BY <1>1, <1>2, <1>5, OwnNetwork
<1>6. ASSUME NEW x \in Client, Resolve(x) \/ Answer(x) \/ ResolveFails(x)
      PROVE  Own(c)'
  <2>1. CASE x # c
    <3>1. UNCHANGED <<server, clientEndpoint, outgoing>> /\ printed'[c] = printed[c]
      BY <1>1, <1>6, <2>1 DEF Resolve, Answer, ResolveFails, Dump, serverVars, Types
    <3>2. toClient'[c] \subseteq toClient[c]
      BY <1>1, <1>6, <2>1 DEF Resolve, Answer, ResolveFails, TakeResponse, Types
    <3>3. \A d \in toServer' : d[1] = c => d \in toServer
      BY <1>6, <2>1 DEF Resolve, Answer, ResolveFails
    <3> QED BY <1>1, <1>2, <3>1, <3>2, <3>3, OwnLess DEF Sending
  <2>2. CASE x = c /\ Resolve(c)
    BY <1>1, <1>2, <2>2, OwnResolve
  <2>3. CASE x = c /\ (Answer(c) \/ ResolveFails(c))
    BY <1>1, <1>2, <2>3, OwnClient
  <2> QED BY <1>6, <2>1, <2>2, <2>3
<1>7. CASE UNCHANGED vars
  <2>1. UNCHANGED <<server, clientEndpoint, outgoing, printed, toClient, toServer>>
    BY <1>7 DEF vars, serverVars, clientVars
  <2> QED BY <1>1, <1>2, <2>1, OwnLess DEF Sending
<1> QED BY <1>3, <1>4, <1>5, <1>6, <1>7 DEF Next

\* Init says that nothing is printed and nothing under way.
LEMMA InitFaithful == Init => Faithful /\ \A c \in Client : Own(c)
<1> SUFFICES ASSUME Init, NEW c \in Client PROVE UnderWay(c) /\ Printed(c) /\ Own(c)
  BY DEF Faithful
<1>1. toServer = {} /\ toClient[c] = {} /\ server = "receive" /\ printed[c] = <<>>
  BY DEF Init
<1>2. UnderWay(c)
  BY <1>1 DEF UnderWay, Sending
<1>3. DOMAIN printed[c] = {}
  BY <1>1
<1>4. Own(c)
  BY <1>1, <1>3 DEF Own, Sending
<1> QED BY <1>2, <1>3, <1>4 DEF Printed

\* The invariant holds in every state of every behaviour.  It is about one thing
\* under way at a time for every client: the query, the response that the server
\* sends, the response on its way; and, when messages are repeated or late, about
\* the names for which each client has asked so far.
THEOREM Safe == Spec => []IInv
<1>1. Init => IInv
  BY InitShape, InitFaithful DEF IInv
<1>2. IInv /\ [Next]_vars => IInv'
  BY ShapeStep, FaithfulStep, OwnStep DEF IInv
<1> QED BY <1>1, <1>2, PTL DEF Spec

\* Clients print one result for each name, in order, and whatever is under way is
\* a message that DNSQuery::encode or DNSResponse::encode wrote, or the other
\* server: numbers throughout.
THEOREM TypeCorrect == Spec => []TypeOK
<1>1. IInv => TypeOK
  <2> SUFFICES ASSUME IInv PROVE TypeOK
    OBVIOUS
  <2>1. Types /\ InOrder /\ Queries
    BY DEF IInv
  <2>2. \A d \in toServer : d \in (Client \cup {NoClient}) \X Message
    <3>1. TAKE d \in toServer
    <3>2. \/ \E c \in Client, n \in Names : d = <<c, Query[n]>>
          \/ d = <<NoClient, NonQuery>>
      BY <2>1, <3>1 DEF Queries
    <3> QED BY <3>2, QueryIsMessage
  <2>3. \A c \in Client : \A m \in toClient[c] : m \in Message
    BY <2>1, AnyReplyFacts DEF Types
  <2>4. outgoing \in Message
    <3>1. <<>> \in Message
      BY DEF Message
    <3> QED BY <2>1, <3>1, AnyReplyFacts DEF Types
  <2>5. todo \in [Client -> Seq(Text)]
    <3>1. \A s \in Seq(Names) : s \in Seq(Text)
      <4>1. TAKE s \in Seq(Names)
      <4>2. \A i \in 1 .. Len(s) : s[i] \in Text
        BY NamesAreTexts
      <4> QED BY <4>2, ElementOfSeq
    <3> QED BY <2>1, <3>1 DEF Types
  <2>6. \A c \in Client : Len(printed[c]) + Len(todo[c]) = Len(Argv[c])
    <3>1. TAKE c \in Client
    <3>2. /\ Len(printed[c]) \in Nat /\ Len(todo[c]) = Len(Asked[c]) - Len(printed[c])
          /\ Len(Asked[c]) = Len(Argv[c]) /\ Len(Asked[c]) \in Nat
      BY <2>1, OnName, AskedFacts
    <3> QED BY <3>2
  <2> QED BY <2>1, <2>2, <2>3, <2>4, <2>5, <2>6 DEF Types, TypeOK, Message, Cell
<1> QED BY <1>1, Safe, PTL

\* Of the server of dns/server, for every records file, every list of names and
\* every address and name in them: what a client prints for a name is the result for
\* it, through the codecs of both sides, its address as numbers; and what it prints
\* from a repeated or late response is the result for a name it asked for before.
THEOREM AnswersMatch == Spec => []AnswerMatches
<1>1. IInv => AnswerMatches
  <2> SUFFICES ASSUME IInv, via = "own", NEW c \in Client, NEW i \in DOMAIN printed[c],
                      printed[c][i] # Failed
               PROVE  \E j \in 1 .. i : /\ ResultFor(Asked[c][j], printed[c][i])
                                        /\ Trusted => j = i
    BY DEF AnswerMatches
  <2>1. CASE ~Trusted
    <3>1. PICK j \in 1 .. i : Answering(via, Asked[c][j], printed[c][i])
      BY DEF IInv, Own
    <3> QED BY <2>1, <3>1 DEF Answering
  <2>2. CASE Trusted
    <3>1. Answering(via, Asked[c][i], printed[c][i])
      BY <2>2 DEF IInv, Faithful, Printed
    <3>2. i \in 1 .. i
      BY DEF IInv, Types
    <3> QED BY <3>1, <3>2 DEF Answering
  <2> QED BY <2>1, <2>2
<1> QED BY <1>1, Safe, PTL

\* Of a server that compresses names: the two turns of the loop over pointers in
\* decodeDomainName lead to the names that the pointers stand for.
THEOREM PointersLead == Spec => []PointersFollowed
<1>1. IInv => PointersFollowed
  <2> SUFFICES ASSUME IInv, via = "other", Trusted, NEW c \in Client, NEW i \in DOMAIN printed[c],
                      printed[c][i] # Failed
               PROVE  LET p == printed[c][i]
                          name == Asked[c][i]
                          canonical == IF Alias[name] = <<>> THEN name
                                       ELSE Alias[name] \o <<Dot>> \o name
                          last == p.answers[Len(p.answers)]
                      IN  /\ p.question = name
                          /\ last.name = canonical /\ last.text = AddressText(Address)
                          /\ Len(p.answers) = 2 =>
                                p.answers[1].name = name /\ p.answers[1].text = canonical
    BY DEF PointersFollowed
  <2>1. Answering(via, Asked[c][i], printed[c][i])
    BY DEF IInv, Faithful, Printed
  <2> QED BY <2>1 DEF Answering, OtherAnswer
<1> QED BY <1>1, Safe, PTL

=============================================================================
