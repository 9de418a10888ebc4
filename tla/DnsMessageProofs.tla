-------------------------- MODULE DnsMessageProofs --------------------------
(***************************************************************************)
(* Lemmas about the operators of DnsMessage and about those of the         *)
(* resolver and of the other server in Dns: the coding of names, the       *)
(* reversal of addresses, the records file, pointers and messages.         *)
(***************************************************************************)
EXTENDS Dns, FiniteSetTheorems, SequenceTheorems, WellFoundedInduction, TLAPS

(***************************************************************************)
(* Induction, as the least number principle.                               *)
(***************************************************************************)
LEMMA LeastNatural ==
    ASSUME NEW T, T \subseteq Nat, T # {}
    PROVE  \E x \in T : \A y \in T : x <= y
<1> DEFINE R == {ss \in Nat \X Nat : ss[1] < ss[2]}
<1>1. IsWellFoundedOn(R, Nat)
  BY NatLessThanWellFounded DEF OpToRel
<1>2. PICK x \in T : \A y \in T : ~(<<y, x>> \in R)
  BY <1>1, WFMin
<1>3. \A y \in T : ~(y < x)
  BY <1>2
<1>4. \A y \in T : x <= y
  BY <1>3
<1> QED BY <1>4

\* A set of numbers that holds k and the successor of each of its members
\* up to n holds all of k .. n.
LEMMA Induction ==
    ASSUME NEW k \in Nat, NEW n \in Nat, NEW G, k \in G,
           \A i \in k .. n - 1 : i \in G => i + 1 \in G
    PROVE  k .. n \subseteq G
<1> DEFINE T == {i \in Nat : i \in k .. n /\ i \notin G}
<1> SUFFICES ASSUME T # {} PROVE FALSE
  OBVIOUS
<1>1. PICK x \in T : \A y \in T : x <= y
  BY LeastNatural
<1>2. x # k /\ x \in k .. n /\ x \notin G
  OBVIOUS
<1>3. x - 1 \in k .. n - 1 /\ x - 1 \notin T
  BY <1>1, <1>2
<1>4. x - 1 \in G
  BY <1>3
<1>5. (x - 1) + 1 \in G
  BY <1>3, <1>4
<1> QED BY <1>2, <1>5

(***************************************************************************)
(* Least and greatest numbers.                                             *)
(***************************************************************************)
LEMMA MinIs ==
    ASSUME NEW T, T \subseteq Nat, T # {}
    PROVE  Min(T) \in T /\ \A y \in T : Min(T) <= y
<1>1. \E x \in T : \A y \in T : x <= y
  BY LeastNatural
<1> QED BY <1>1 DEF Min

LEMMA MaxIs ==
    ASSUME NEW n \in Nat, NEW T, T \subseteq 1 .. n, T # {}
    PROVE  Max(T) \in T /\ \A y \in T : y <= Max(T)
<1> DEFINE U == {u \in Nat : n - u \in T}
<1>1. U \subseteq Nat /\ U # {}
  <2>1. PICK x \in T : TRUE
    OBVIOUS
  <2>2. n - x \in Nat /\ n - (n - x) = x
    OBVIOUS
  <2> QED BY <2>2
<1>2. PICK u \in U : \A y \in U : u <= y
  BY <1>1, LeastNatural
<1>3. n - u \in T /\ u \in Nat
  OBVIOUS
<1>4. ASSUME NEW y \in T PROVE y <= n - u
  <2>1. n - y \in Nat /\ n - (n - y) = y
    OBVIOUS
  <2>2. u <= n - y
    BY <1>2, <2>1
  <2> QED BY <1>3, <2>2
<1>5. \A y \in T : y <= n - u
  BY <1>4
<1> HIDE DEF U
<1>6. \E x \in T : \A y \in T : y <= x
  BY <1>3, <1>5
<1> QED BY <1>6 DEF Max

(***************************************************************************)
(* Division.                                                               *)
(***************************************************************************)
LEMMA Division ==
    ASSUME NEW n \in Nat \ {0}, NEW k \in Nat
    PROVE  ((k \div n) * n) + (k % n) = k
<1> DEFINE Times(q) == q * n
           G == {m \in Nat : \E q \in Nat, r \in 0 .. n - 1 : m = Times(q) + r}
<1>1. Times(0) = 0 /\ \A q \in Nat : Times(q) \in Nat /\ Times(q + 1) = Times(q) + n
  OBVIOUS
<1>2. ASSUME NEW q \in Nat, NEW r \in 0 .. n - 1
      PROVE  (Times(q) + r) \div n = q /\ (Times(q) + r) % n = r
  OBVIOUS
<1> HIDE DEF Times
<1>3. 0 \in G
  <2>1. 0 \in Nat /\ 0 \in 0 .. n - 1 /\ 0 = Times(0) + 0
    BY <1>1
  <2> QED BY <2>1
<1>4. ASSUME NEW m \in 0 .. k - 1, m \in G PROVE m + 1 \in G
  <2>1. PICK q \in Nat, r \in 0 .. n - 1 : m = Times(q) + r
    BY <1>4
  <2>2. CASE r < n - 1
    <3>1. r + 1 \in 0 .. n - 1 /\ m + 1 = Times(q) + (r + 1)
      BY <1>1, <2>1, <2>2
    <3> QED BY <3>1
  <2>3. CASE r = n - 1
    <3>1. q + 1 \in Nat /\ 0 \in 0 .. n - 1 /\ m + 1 = Times(q + 1) + 0
      BY <1>1, <2>1, <2>3
    <3> QED BY <3>1
  <2> QED BY <2>1, <2>2, <2>3
<1> HIDE DEF G
<1>5. 0 .. k \subseteq G
  BY <1>3, <1>4, Induction
<1>6. PICK q \in Nat, r \in 0 .. n - 1 : k = Times(q) + r
  BY <1>5 DEF G
<1>7. k \div n = q /\ k % n = r
  BY <1>2, <1>6
<1> QED BY <1>6, <1>7 DEF Times

(***************************************************************************)
(* Slices of sequences.                                                    *)
(***************************************************************************)
LEMMA Slice ==
    ASSUME NEW S, NEW s \in Seq(S), NEW a \in Nat \ {0}, NEW b \in Nat, a <= b + 1, b <= Len(s)
    PROVE  /\ SubSeq(s, a, b) \in Seq(S)
           /\ Len(SubSeq(s, a, b)) = b - a + 1
           /\ \A i \in 1 .. b - a + 1 : SubSeq(s, a, b)[i] = s[a + i - 1]
<1>1. Len(s) \in Nat
  BY LenProperties
<1>2. ASSUME NEW i \in a .. b PROVE s[i] \in S
  <2>1. i \in 1 .. Len(s)
    BY <1>1
  <2> QED BY <2>1, ElementOfSeq
<1>3. /\ SubSeq(s, a, b) \in Seq(S)
      /\ Len(SubSeq(s, a, b)) = IF a <= b THEN b - a + 1 ELSE 0
      /\ \A i \in 1 .. b - a + 1 : SubSeq(s, a, b)[i] = s[a + i - 1]
  BY <1>2, SubSeqProperties
<1> QED BY <1>3

LEMMA SlicesEqual ==
    ASSUME NEW S, NEW s \in Seq(S), NEW t \in Seq(S),
           NEW a \in Nat \ {0}, NEW b \in Nat, a <= b + 1, b <= Len(s),
           NEW c \in Nat \ {0}, NEW d \in Nat, c <= d + 1, d <= Len(t),
           d - c = b - a, \A i \in a .. b : s[i] = t[c + (i - a)]
    PROVE  SubSeq(s, a, b) = SubSeq(t, c, d)
<1> DEFINE u == SubSeq(s, a, b)
           v == SubSeq(t, c, d)
<1>1. /\ u \in Seq(S) /\ Len(u) = b - a + 1
      /\ \A i \in 1 .. b - a + 1 : u[i] = s[a + i - 1]
  BY Slice
<1>2. /\ v \in Seq(S) /\ Len(v) = b - a + 1
      /\ \A i \in 1 .. b - a + 1 : v[i] = t[c + i - 1]
  <2>1. /\ v \in Seq(S) /\ Len(v) = d - c + 1
        /\ \A i \in 1 .. d - c + 1 : v[i] = t[c + i - 1]
    BY Slice
  <2>2. d - c + 1 = b - a + 1
    OBVIOUS
  <2> HIDE DEF v
  <2> QED BY <2>1, <2>2
<1>3. ASSUME NEW i \in 1 .. Len(u) PROVE u[i] = v[i]
  <2>1. PICK k : k = a + i - 1
    OBVIOUS
  <2>2. i \in 1 .. b - a + 1
    BY <1>1
  <2> HIDE DEF u, v
  <2>3. k \in a .. b /\ c + (k - a) = c + i - 1
    BY <2>1, <2>2
  <2>4. s[k] = t[c + (k - a)]
    BY <2>3
  <2> QED BY <1>1, <1>2, <2>1, <2>2, <2>3, <2>4
<1> HIDE DEF u, v
<1>4. u = v
  BY <1>1, <1>2, <1>3, SeqEqual
<1> QED BY <1>4 DEF u, v

Char == 1 .. ByteRange - 1

(***************************************************************************)
(* Names whose labels are neither empty nor too long for a length byte.    *)
(***************************************************************************)
Proper(name) ==
    /\ name \in Text /\ name # <<>>
    /\ name[1] # Dot /\ name[Len(name)] # Dot
    /\ \A i \in 1 .. Len(name) - 1 : name[i] = Dot => name[i + 1] # Dot
    /\ \A i \in 1 .. Len(name) : i + LabelLimit - 1 <= Len(name) =>
          \E j \in i .. i + LabelLimit - 1 : name[j] = Dot

LabelStart(name, p) == p = 1 \/ name[p - 1] = Dot

LEMMA Constants ==
    /\ LabelLimit \in Nat /\ LabelLimit > 1 /\ ByteRange \in Nat /\ LabelLimit <= ByteRange
    /\ Dot \in Char /\ Arpa \in Char /\ Dot # Arpa /\ Char \subseteq Nat
BY DnsMessageAssumption DEF Char

LEMMA TextFacts ==
    ASSUME NEW name \in Text
    PROVE  /\ Len(name) \in Nat /\ DOMAIN name = 1 .. Len(name)
           /\ \A i \in 1 .. Len(name) : name[i] \in Char
           /\ name \in Seq(Char) /\ name \in Seq(Nat)
<1>1. name \in Seq(Char)
  BY DEF Text, Char
<1>2. \A i \in 1 .. Len(name) : name[i] \in Char
  BY <1>1
<1>3. \A i \in 1 .. Len(name) : name[i] \in Nat
  BY <1>2, Constants
<1> QED BY <1>1, <1>2, <1>3

LEMMA LabelEndIs ==
    ASSUME NEW name \in Text, NEW p \in 1 .. Len(name) + 1
    PROVE  /\ LabelEnd(name, p) \in p .. Len(name) + 1
           /\ \A i \in p .. LabelEnd(name, p) - 1 : name[i] # Dot
           /\ LabelEnd(name, p) <= Len(name) => name[LabelEnd(name, p)] = Dot
<1>1. Len(name) \in Nat
  BY TextFacts
<1>2. Dots(name, p) \subseteq Nat /\ Dots(name, p) \subseteq p .. Len(name)
  BY <1>1 DEF Dots
<1>3. CASE Dots(name, p) = {}
  <2>1. LabelEnd(name, p) = Len(name) + 1
    BY <1>3 DEF LabelEnd
  <2>2. \A i \in p .. Len(name) : name[i] # Dot
    BY <1>3 DEF Dots
  <2> QED BY <1>1, <2>1, <2>2
<1>4. CASE Dots(name, p) # {}
  <2>1. PICK m : m = Min(Dots(name, p))
    OBVIOUS
  <2>2. m \in Dots(name, p) /\ \A y \in Dots(name, p) : m <= y
    BY <1>2, <1>4, <2>1, MinIs
  <2>3. LabelEnd(name, p) = m
    BY <1>4, <2>1 DEF LabelEnd
  <2>4. m \in p .. Len(name) /\ name[m] = Dot
    BY <2>2 DEF Dots
  <2>5. \A i \in p .. m - 1 : name[i] # Dot
    BY <1>1, <2>2, <2>4 DEF Dots
  <2> QED BY <1>1, <2>3, <2>4, <2>5
<1> QED BY <1>3, <1>4

LEMMA LabelFits ==
    ASSUME NEW name, Proper(name), NEW p \in 1 .. Len(name), LabelStart(name, p)
    PROVE  /\ LabelEnd(name, p) - p \in 1 .. LabelLimit - 1
           /\ (LabelEnd(name, p) - p) % ByteRange = LabelEnd(name, p) - p
<1>1. name \in Text /\ Len(name) \in Nat
  BY TextFacts DEF Proper
<1>2. PICK q : q = LabelEnd(name, p)
  OBVIOUS
<1>3. /\ q \in p .. Len(name) + 1 /\ \A i \in p .. q - 1 : name[i] # Dot
      /\ q <= Len(name) => name[q] = Dot
  BY <1>1, <1>2, LabelEndIs
<1>4. name[p] # Dot
  <2>1. CASE p = 1
    BY <2>1 DEF Proper
  <2>2. CASE p # 1
    <3>1. PICK k : k = p - 1
      OBVIOUS
    <3>2. k \in 1 .. Len(name) - 1 /\ name[k] = Dot /\ k + 1 = p
      BY <1>1, <2>2, <3>1 DEF LabelStart
    <3>3. name[k + 1] # Dot
      BY <3>2 DEF Proper
    <3> QED BY <3>2, <3>3
  <2> QED BY <2>1, <2>2
<1>5. q # p
  BY <1>1, <1>3, <1>4
<1>6. q - p < LabelLimit
  <2> SUFFICES ASSUME q - p >= LabelLimit PROVE FALSE
    BY <1>1, <1>3, Constants
  <2>1. p + LabelLimit - 1 <= Len(name)
    BY <1>1, <1>3, Constants
  <2>2. PICK j \in p .. p + LabelLimit - 1 : name[j] = Dot
    BY <2>1 DEF Proper
  <2>3. j \in p .. q - 1
    BY <1>1, <1>3, <2>2, Constants
  <2> QED BY <1>3, <2>2, <2>3
<1>7. q - p \in 1 .. LabelLimit - 1
  BY <1>1, <1>3, <1>5, <1>6, Constants
<1>8. q - p \in Nat /\ q - p < ByteRange
  BY <1>7, Constants
<1>9. (q - p) % ByteRange = q - p
  BY <1>8, Constants
<1> QED BY <1>2, <1>7, <1>9

(***************************************************************************)
(* The encoding.                                                           *)
(***************************************************************************)
LEMMA EncodeType ==
    ASSUME NEW name \in Text
    PROVE  /\ EncodeDomainName(name) \in Seq(Nat)
           /\ Len(EncodeDomainName(name)) = Len(name) + 2
<1>1. Len(name) \in Nat
  BY TextFacts
<1>2. ASSUME NEW i \in 1 .. Len(name) + 2
      PROVE  (IF i = Len(name) + 2 THEN 0
              ELSE IF i = 1 \/ name[i - 1] = Dot THEN (LabelEnd(name, i) - i) % ByteRange
              ELSE name[i - 1]) \in Nat
  <2>1. CASE i = Len(name) + 2
    BY <2>1
  <2>2. CASE i # Len(name) + 2 /\ (i = 1 \/ name[i - 1] = Dot)
    <3>1. i \in 1 .. Len(name) + 1
      BY <1>1, <2>2
    <3>2. LabelEnd(name, i) - i \in Nat
      BY <1>1, <3>1, LabelEndIs
    <3>3. (LabelEnd(name, i) - i) % ByteRange \in Nat
      BY <3>2, Constants
    <3> QED BY <2>2, <3>3
  <2>3. CASE i # Len(name) + 2 /\ ~(i = 1 \/ name[i - 1] = Dot)
    <3>1. i - 1 \in 1 .. Len(name)
      BY <1>1, <2>3
    <3>2. name[i - 1] \in Nat
      BY <3>1, TextFacts, Constants
    <3> QED BY <2>3, <3>2
  <2> QED BY <2>1, <2>2, <2>3
<1> QED BY <1>1, <1>2 DEF EncodeDomainName

LEMMA EncodeFacts ==
    ASSUME NEW name, Proper(name)
    PROVE  /\ EncodeDomainName(name)[Len(name) + 2] = 0
           /\ \A p \in 1 .. Len(name) : LabelStart(name, p) =>
                 EncodeDomainName(name)[p] = LabelEnd(name, p) - p
           /\ \A p \in 1 .. Len(name) : name[p] # Dot =>
                 EncodeDomainName(name)[p + 1] = name[p]
<1>1. name \in Text /\ Len(name) \in Nat
  BY TextFacts DEF Proper
<1>2. EncodeDomainName(name)[Len(name) + 2] = 0
  BY <1>1 DEF EncodeDomainName
<1>3. ASSUME NEW p \in 1 .. Len(name), LabelStart(name, p)
      PROVE  EncodeDomainName(name)[p] = LabelEnd(name, p) - p
  <2>1. p \in 1 .. Len(name) + 2 /\ p # Len(name) + 2
    BY <1>1
  <2>2. EncodeDomainName(name)[p] = (LabelEnd(name, p) - p) % ByteRange
    BY <1>3, <2>1 DEF EncodeDomainName, LabelStart
  <2> QED BY <1>3, <2>2, LabelFits
<1>4. ASSUME NEW p \in 1 .. Len(name), name[p] # Dot
      PROVE  EncodeDomainName(name)[p + 1] = name[p]
  <2>1. PICK k : k = p + 1
    OBVIOUS
  <2>2. k \in 1 .. Len(name) + 2 /\ k # Len(name) + 2 /\ k # 1 /\ k - 1 = p
    BY <1>1, <2>1
  <2>3. EncodeDomainName(name)[k] = name[k - 1]
    BY <1>4, <2>2 DEF EncodeDomainName
  <2> QED BY <2>1, <2>2, <2>3
<1> QED BY <1>2, <1>3, <1>4

(***************************************************************************)
(* The loop that reads labels.                                             *)
(***************************************************************************)
ReadOne(msg, End, r) ==
    LET after == r.next + msg[r.next] + 1
    IN  IF msg[r.next] \in End THEN r
        ELSE [name |-> r.name \o SubSeq(msg, r.next + 1, after - 1)
                       \o (IF msg[after] \in End THEN <<>> ELSE <<Dot>>),
              next |-> after]

\* t is what the loop holds after each of its N turns from index p on.
Reads(msg, p, End, N, t) ==
    /\ t[0] = [name |-> <<>>, next |-> p]
    /\ \A n \in 1 .. N : t[n] = ReadOne(msg, End, t[n - 1])
    /\ ReadLabels(msg, p, End) = IF msg[p] \in End THEN t[0] ELSE t[N]

LEMMA ReadLabelsLoop ==
    ASSUME NEW msg, NEW p, NEW End, NEW N \in Nat, N = Len(msg) \div 2
    PROVE  \E t : Reads(msg, p, End, N, t)
<1> DEFINE R(m, h) == h = [i \in 0 .. m |-> IF i = 0 THEN [name |-> <<>>, next |-> p]
                                            ELSE ReadOne(msg, End, h[i - 1])]
           G == {m \in Nat : \E u : R(m, u)}
<1>1. 0 \in G
  <2> DEFINE f == [i \in 0 .. 0 |-> [name |-> <<>>, next |-> p]]
  <2>1. R(0, f)
    OBVIOUS
  <2> QED BY <2>1
<1>2. ASSUME NEW k \in 0 .. N - 1, k \in G PROVE k + 1 \in G
  <2>1. PICK f : R(k, f)
    BY <1>2
  <2> DEFINE g == [i \in 0 .. k + 1 |-> IF i = k + 1 THEN ReadOne(msg, End, f[k]) ELSE f[i]]
  <2>2. ASSUME NEW i \in 0 .. k + 1
        PROVE  g[i] = IF i = 0 THEN [name |-> <<>>, next |-> p] ELSE ReadOne(msg, End, g[i - 1])
    <3>1. CASE i = k + 1
      <4>1. g[k] = f[k] /\ i - 1 = k /\ i # 0
        BY <3>1
      <4> QED BY <3>1, <4>1
    <3>2. CASE i # k + 1
      <4>1. i \in 0 .. k /\ g[i] = f[i] /\ (i # 0 => g[i - 1] = f[i - 1])
        BY <3>2
      <4>2. f[i] = IF i = 0 THEN [name |-> <<>>, next |-> p] ELSE ReadOne(msg, End, f[i - 1])
        BY <2>1, <4>1
      <4> HIDE DEF g
      <4> QED BY <4>1, <4>2
    <3> QED BY <3>1, <3>2
  <2>3. g = [i \in 0 .. k + 1 |-> g[i]]
    OBVIOUS
  <2> HIDE DEF g
  <2>4. R(k + 1, g)
    BY <2>2, <2>3
  <2>5. k + 1 \in Nat
    OBVIOUS
  <2>6. \E u : R(k + 1, u)
    <3> HIDE DEF R
    <3> QED BY <2>4
  <2> HIDE DEF R
  <2> QED BY <2>5, <2>6
<1> HIDE DEF G
<1>3. N \in G
  <2>1. 0 .. N \subseteq G
    BY <1>1, <1>2, Induction, SMTT(30)
  <2> QED BY <2>1
<1> DEFINE turn == CHOOSE u : R(N, u)
<1>4. R(N, turn)
  BY <1>3 DEF G
<1>5. ReadLabels(msg, p, End) = IF msg[p] \in End THEN turn[0] ELSE turn[N]
  BY DEF ReadLabels, ReadOne
<1> HIDE DEF turn
<1>6. /\ turn[0] = [name |-> <<>>, next |-> p]
      /\ \A n \in 1 .. N : turn[n] = ReadOne(msg, End, turn[n - 1])
  BY <1>4
<1>7. Reads(msg, p, End, N, turn)
  BY <1>5, <1>6 DEF Reads
<1> QED BY <1>7

\* name stands encoded at index p of msg.
Holds(msg, p, name) ==
    /\ p + Len(name) + 1 <= Len(msg)
    /\ \A i \in 1 .. Len(name) + 2 : msg[p + i - 1] = EncodeDomainName(name)[i]

\* What ends a name, and no byte that is the length of a label.
Ends(End) == 0 \in End /\ \A b \in 1 .. LabelLimit - 1 : b \notin End

\* The labels before the j-th character have been read.
ReadUpTo(name, p, j) == [name |-> SubSeq(name, 1, j - 1), next |-> p + j - 1]

LEMMA HoldsAt ==
    ASSUME NEW msg \in Seq(Nat), NEW p \in Nat \ {0}, NEW name, Proper(name), Holds(msg, p, name)
    PROVE  /\ msg[p + Len(name) + 1] = 0
           /\ \A i \in 1 .. Len(name) : LabelStart(name, i) =>
                 msg[p + i - 1] = LabelEnd(name, i) - i
           /\ \A i \in 1 .. Len(name) : name[i] # Dot => msg[p + i] = name[i]
<1>1. name \in Text /\ Len(name) \in Nat
  BY TextFacts DEF Proper
<1>2. msg[p + Len(name) + 1] = 0
  <2>1. PICK k : k = Len(name) + 2
    OBVIOUS
  <2>2. k \in 1 .. Len(name) + 2 /\ p + k - 1 = p + Len(name) + 1
    BY <1>1, <2>1
  <2>3. msg[p + k - 1] = EncodeDomainName(name)[k]
    BY <2>2 DEF Holds
  <2> QED BY <2>1, <2>2, <2>3, EncodeFacts
<1>3. ASSUME NEW i \in 1 .. Len(name), LabelStart(name, i)
      PROVE  msg[p + i - 1] = LabelEnd(name, i) - i
  <2>1. i \in 1 .. Len(name) + 2
    BY <1>1
  <2>2. msg[p + i - 1] = EncodeDomainName(name)[i]
    BY <2>1 DEF Holds
  <2> QED BY <1>3, <2>2, EncodeFacts
<1>4. ASSUME NEW i \in 1 .. Len(name), name[i] # Dot
      PROVE  msg[p + i] = name[i]
  <2>1. PICK k : k = i + 1
    OBVIOUS
  <2>2. k \in 1 .. Len(name) + 2 /\ p + k - 1 = p + i
    BY <1>1, <2>1
  <2>3. msg[p + k - 1] = EncodeDomainName(name)[k]
    BY <2>2 DEF Holds
  <2> QED BY <1>4, <2>1, <2>2, <2>3, EncodeFacts
<1> QED BY <1>2, <1>3, <1>4

LEMMA ReadsOne ==
    ASSUME NEW msg \in Seq(Nat), NEW p \in Nat \ {0}, NEW name, Proper(name), Holds(msg, p, name),
           NEW End, Ends(End), NEW j \in 1 .. Len(name), LabelStart(name, j)
    PROVE  \/ ReadOne(msg, End, ReadUpTo(name, p, j)) = [name |-> name, next |-> p + Len(name) + 1]
           \/ \E k \in 1 .. Len(name) :
                 /\ LabelStart(name, k) /\ k >= j + 2
                 /\ ReadOne(msg, End, ReadUpTo(name, p, j)) = ReadUpTo(name, p, k)
<1>1. /\ name \in Text /\ name \in Seq(Char) /\ name \in Seq(Nat) /\ Len(name) \in Nat
      /\ \A i \in 1 .. Len(name) : name[i] \in Char
  BY TextFacts DEF Proper
<1>2. PICK e : e = LabelEnd(name, j)
  OBVIOUS
<1>3. /\ e \in j + 1 .. Len(name) + 1 /\ \A i \in j .. e - 1 : name[i] # Dot
      /\ e <= Len(name) => name[e] = Dot
      /\ e - j \in 1 .. LabelLimit - 1
  <2>1. /\ e \in j .. Len(name) + 1
        /\ \A i \in j .. e - 1 : name[i] # Dot
        /\ e <= Len(name) => name[e] = Dot
    BY <1>1, <1>2, LabelEndIs, SMTT(30)
  <2>2. e - j \in 1 .. LabelLimit - 1
    BY <1>2, LabelFits
  <2>3. LabelLimit \in Nat
    BY Constants
  <2>4. e \in j + 1 .. Len(name) + 1
    BY <1>1, <2>1, <2>2, <2>3
  <2> QED BY <2>1, <2>2, <2>4
<1>0. /\ Len(name) \in Nat /\ e \in Nat /\ j \in Nat /\ p \in Nat
      /\ j >= 1 /\ e > j /\ e <= Len(name) + 1 /\ p >= 1
  BY <1>1, <1>3
<1>4. msg[p + j - 1] = e - j /\ msg[p + j - 1] \notin End
  BY <1>2, <1>3, HoldsAt DEF Ends
<1>5. p + j - 1 + msg[p + j - 1] + 1 = p + e
  BY <1>1, <1>3, <1>4
<1>6. Len(msg) \in Nat /\ p + Len(name) + 1 <= Len(msg)
  BY DEF Holds
<1>7. SubSeq(msg, p + j, p + e - 1) = SubSeq(name, j, e - 1)
  <2>1. ASSUME NEW i \in j .. e - 1 PROVE msg[p + i] = name[i]
    <3>1. i \in 1 .. Len(name) /\ name[i] # Dot
      BY <1>1, <1>3
    <3> QED BY <3>1, HoldsAt
  <2>2. PICK a : a = p + j
    OBVIOUS
  <2>3. PICK b : b = p + e - 1
    OBVIOUS
  <2>4. PICK d : d = e - 1
    OBVIOUS
  <2>5. /\ a \in Nat \ {0} /\ b \in Nat /\ d \in Nat /\ j \in Nat \ {0}
        /\ a <= b + 1 /\ b <= Len(msg) /\ j <= d + 1 /\ d <= Len(name) /\ d - j = b - a
    BY <1>0, <1>6, <2>2, <2>3, <2>4
  <2>6. ASSUME NEW i \in a .. b PROVE msg[i] = name[j + (i - a)]
    <3>1. PICK k : k = j + (i - a)
      OBVIOUS
    <3>2. k \in j .. e - 1 /\ p + k = i
      BY <1>1, <1>3, <2>2, <2>3, <3>1
    <3> QED BY <2>1, <3>1, <3>2
  <2>7. SubSeq(msg, a, b) = SubSeq(name, j, d)
    <3>1. msg \in Seq(Nat) /\ name \in Seq(Nat)
      BY <1>1
    <3> QED BY <3>1, <2>5, <2>6, SlicesEqual
  <2> QED BY <2>2, <2>3, <2>4, <2>7
<1>8. ReadOne(msg, End, ReadUpTo(name, p, j)) =
        [name |-> SubSeq(name, 1, j - 1) \o SubSeq(name, j, e - 1)
                  \o (IF msg[p + e] \in End THEN <<>> ELSE <<Dot>>),
         next |-> p + e]
  <2>1. PICK r : r = p + j - 1
    OBVIOUS
  <2>2. PICK after : after = r + msg[r] + 1
    OBVIOUS
  <2>3. r + 1 = p + j /\ after = p + e /\ after - 1 = p + e - 1 /\ msg[r] \notin End
    BY <1>0, <1>4, <1>5, <2>1, <2>2
  <2>4. ReadUpTo(name, p, j).next = r /\ ReadUpTo(name, p, j).name = SubSeq(name, 1, j - 1)
    BY <2>1 DEF ReadUpTo
  <2>5. ReadOne(msg, End, ReadUpTo(name, p, j)) =
          [name |-> SubSeq(name, 1, j - 1) \o SubSeq(msg, r + 1, after - 1)
                    \o (IF msg[after] \in End THEN <<>> ELSE <<Dot>>),
           next |-> after]
    BY <2>2, <2>3, <2>4 DEF ReadOne
  <2> QED BY <1>7, <2>3, <2>5
<1>9. SubSeq(name, 1, j - 1) \o SubSeq(name, j, e - 1) = SubSeq(name, 1, e - 1)
  <2>1. PICK k : k = j - 1
    OBVIOUS
  <2>2. PICK d : d = e - 1
    OBVIOUS
  <2>3. 1 \in 1 .. Len(name) + 1 /\ k \in 0 .. Len(name) /\ d \in k .. Len(name) /\ k + 1 = j
    BY <1>0, <2>1, <2>2
  <2>4. SubSeq(name, 1, k) \o SubSeq(name, k + 1, d) = SubSeq(name, 1, d)
    <3>1. name \in Seq(Nat)
      BY <1>1
    <3> QED BY <3>1, <2>3, ConcatAdjacentSubSeq, SMTT(30)
  <2> QED BY <2>1, <2>2, <2>3, <2>4
<1>10. CASE e = Len(name) + 1
  <2>1. p + e = p + Len(name) + 1
    BY <1>1, <1>10
  <2>2. msg[p + e] \in End
    BY <2>1, HoldsAt DEF Ends
  <2>3. e - 1 = Len(name)
    BY <1>1, <1>10
  <2>4. SubSeq(name, 1, e - 1) = name
    BY <1>1, <2>3, SubSeqFull
  <2>5. name \o <<>> = name
    BY <1>1, ConcatEmptySeq
  <2> QED BY <1>8, <1>9, <2>1, <2>2, <2>4, <2>5
<1>11. CASE e # Len(name) + 1
  <2>1. e \in 1 .. Len(name) /\ e <= Len(name)
    BY <1>0, <1>11
  <2>9. name[e] = Dot
    BY <1>3, <2>1
  <2>2. e # Len(name)
    BY <2>9 DEF Proper
  <2>3. PICK k : k = e + 1
    OBVIOUS
  <2>4. k \in 1 .. Len(name) /\ k >= j + 2 /\ k - 1 = e /\ p + k - 1 = p + e
    BY <1>0, <2>1, <2>2, <2>3
  <2>5. LabelStart(name, k)
    BY <2>9, <2>4 DEF LabelStart
  <2>6. msg[p + e] \notin End
    <3>1. msg[p + k - 1] = LabelEnd(name, k) - k
      BY <2>4, <2>5, HoldsAt
    <3>2. LabelEnd(name, k) - k \in 1 .. LabelLimit - 1
      BY <2>4, <2>5, LabelFits
    <3> QED BY <2>4, <3>1, <3>2 DEF Ends
  <2>7. SubSeq(name, 1, e - 1) \o <<Dot>> = SubSeq(name, 1, e)
    <3>1. 1 \in 1 .. Len(name) /\ e \in 1 .. Len(name)
      BY <1>1, <2>1
    <3>2. SubSeq(name, 1, e) = SubSeq(name, 1, e - 1) \o <<name[e]>>
      BY <1>1, <3>1, SubSeqRecursiveSecond
    <3> QED BY <2>9, <3>2
  <2>8. ReadOne(msg, End, ReadUpTo(name, p, j)) = ReadUpTo(name, p, k)
    BY <1>8, <1>9, <2>4, <2>6, <2>7 DEF ReadUpTo
  <2> QED BY <2>4, <2>5, <2>8
<1> QED BY <1>10, <1>11

LEMMA ReadsName ==
    ASSUME NEW msg \in Seq(Nat), NEW p \in Nat \ {0}, NEW name, Proper(name), Holds(msg, p, name),
           NEW End, Ends(End)
    PROVE  ReadLabels(msg, p, End) = [name |-> name, next |-> p + Len(name) + 1]
<1>0. name \in Text /\ Len(name) \in Nat /\ Len(name) >= 1 /\ Len(msg) \in Nat
  <2>1. name \in Text /\ Len(name) \in Nat /\ name \in Seq(Nat) /\ name # <<>>
    BY TextFacts DEF Proper
  <2>2. Len(name) \in Nat \ {0}
    BY <2>1, EmptySeq
  <2> QED BY <2>1, <2>2
<1>1. Len(name) + 2 <= Len(msg)
  <2>1. p + Len(name) + 1 <= Len(msg) /\ p \in Nat /\ p >= 1
    BY DEF Holds
  <2> QED BY <1>0, <2>1
<1>2. PICK N : N = Len(msg) \div 2
  OBVIOUS
<1>3. N \in Nat /\ 2 * N + 1 > Len(name)
  BY <1>0, <1>1, <1>2
<1>4. PICK f : /\ f[0] = [name |-> <<>>, next |-> p]
               /\ \A n \in 1 .. N : f[n] = ReadOne(msg, End, f[n - 1])
               /\ ReadLabels(msg, p, End) = IF msg[p] \in End THEN f[0] ELSE f[N]
  <2>1. N \in Nat /\ N = Len(msg) \div 2
    BY <1>2, <1>3
  <2>2. \E t : Reads(msg, p, End, N, t)
    BY <2>1, ReadLabelsLoop
  <2> QED BY <2>2 DEF Reads
<1> DEFINE final == [name |-> name, next |-> p + Len(name) + 1]
           G == {n \in Nat : \/ f[n] = final
                             \/ \E j \in 1 .. Len(name) :
                                   LabelStart(name, j) /\ j >= 2 * n + 1 /\ f[n] = ReadUpTo(name, p, j)}
<1>5. 0 \in G
  <2>1. 1 \in 1 .. Len(name) /\ LabelStart(name, 1) /\ 1 >= 2 * 0 + 1
    BY <1>0 DEF LabelStart
  <2>2. SubSeq(name, 1, 1 - 1) = <<>> /\ p + 1 - 1 = p
    BY SubSeqEmpty
  <2>3. f[0] = ReadUpTo(name, p, 1)
    BY <1>4, <2>2 DEF ReadUpTo
  <2> QED BY <2>1, <2>3
<1>6. ASSUME NEW n \in 0 .. N - 1, n \in G PROVE n + 1 \in G
  <2>1. n + 1 \in 1 .. N /\ (n + 1) - 1 = n
    BY <1>3
  <2>2. f[n + 1] = ReadOne(msg, End, f[n])
    BY <1>4, <2>1
  <2>3. CASE f[n] = final
    <3>1. msg[final.next] \in End
      BY HoldsAt DEF Ends
    <3>2. ReadOne(msg, End, final) = final
      BY <3>1 DEF ReadOne
    <3> QED BY <2>1, <2>2, <2>3, <3>2
  <2>4. CASE \E j \in 1 .. Len(name) :
                LabelStart(name, j) /\ j >= 2 * n + 1 /\ f[n] = ReadUpTo(name, p, j)
    <3>1. PICK j \in 1 .. Len(name) :
                LabelStart(name, j) /\ j >= 2 * n + 1 /\ f[n] = ReadUpTo(name, p, j)
      BY <2>4
    <3>2. CASE f[n + 1] = final
      BY <2>1, <3>2
    <3>3. CASE \E k \in 1 .. Len(name) : LabelStart(name, k) /\ k >= j + 2 /\ f[n + 1] = ReadUpTo(name, p, k)
      <4>1. PICK k \in 1 .. Len(name) : LabelStart(name, k) /\ k >= j + 2 /\ f[n + 1] = ReadUpTo(name, p, k)
        BY <3>3
      <4>2. k >= 2 * (n + 1) + 1
        BY <1>0, <3>1, <4>1
      <4> QED BY <2>1, <4>1, <4>2
    <3>4. \/ f[n + 1] = final
          \/ \E k \in 1 .. Len(name) : LabelStart(name, k) /\ k >= j + 2 /\ f[n + 1] = ReadUpTo(name, p, k)
      BY <2>2, <3>1, ReadsOne
    <3> QED BY <3>2, <3>3, <3>4
  <2> QED BY <1>6, <2>3, <2>4
<1>7. N \in G
  <2> HIDE DEF G
  <2>1. 0 .. N \subseteq G
    BY <1>3, <1>5, <1>6, Induction
  <2> QED BY <1>3, <2>1
<1>8. f[N] = final
  <2>1. \A j \in 1 .. Len(name) : ~(j >= 2 * N + 1)
    BY <1>0, <1>3
  <2> QED BY <1>7, <2>1
<1>9. msg[p] \notin End
  <2>1. 1 \in 1 .. Len(name) /\ LabelStart(name, 1) /\ p + 1 - 1 = p
    BY <1>0 DEF LabelStart
  <2>2. msg[p + 1 - 1] = LabelEnd(name, 1) - 1 /\ LabelEnd(name, 1) - 1 \in 1 .. LabelLimit - 1
    BY <2>1, HoldsAt, LabelFits
  <2> QED BY <2>1, <2>2 DEF Ends
<1> QED BY <1>4, <1>8, <1>9

(***************************************************************************)
(* Joining labels.                                                         *)
(***************************************************************************)
JoinOne(s, i, text) == text \o (IF i > 1 THEN <<Dot>> ELSE <<>>) \o s[i]

Joined(s, n, f) ==
    /\ f[0] = <<>>
    /\ \A i \in 1 .. n : f[i] = JoinOne(s, i, f[i - 1])

LEMMA JoinLoop ==
    ASSUME NEW s, NEW N \in Nat, N = Len(s)
    PROVE  \E t : Joined(s, N, t) /\ Join(s) = t[N]
<1> DEFINE R(m, h) == h = [i \in 0 .. m |-> IF i = 0 THEN <<>> ELSE JoinOne(s, i, h[i - 1])]
           G == {m \in Nat : \E u : R(m, u)}
<1>1. 0 \in G
  <2> DEFINE f == [i \in 0 .. 0 |-> <<>>]
  <2>1. R(0, f)
    OBVIOUS
  <2> QED BY <2>1
<1>2. ASSUME NEW k \in 0 .. N - 1, k \in G PROVE k + 1 \in G
  <2>1. PICK f : R(k, f)
    BY <1>2
  <2> DEFINE g == [i \in 0 .. k + 1 |-> IF i = k + 1 THEN JoinOne(s, i, f[k]) ELSE f[i]]
  <2>2. ASSUME NEW i \in 0 .. k + 1
        PROVE  g[i] = IF i = 0 THEN <<>> ELSE JoinOne(s, i, g[i - 1])
    <3>1. CASE i = k + 1
      <4>1. g[k] = f[k] /\ i - 1 = k /\ i # 0
        BY <3>1
      <4> QED BY <3>1, <4>1
    <3>2. CASE i # k + 1
      <4>1. i \in 0 .. k /\ g[i] = f[i] /\ (i # 0 => g[i - 1] = f[i - 1])
        BY <3>2
      <4>2. f[i] = IF i = 0 THEN <<>> ELSE JoinOne(s, i, f[i - 1])
        BY <2>1, <4>1
      <4> HIDE DEF g
      <4> QED BY <4>1, <4>2
    <3> QED BY <3>1, <3>2
  <2>3. g = [i \in 0 .. k + 1 |-> g[i]]
    OBVIOUS
  <2> HIDE DEF g
  <2>4. R(k + 1, g)
    BY <2>2, <2>3
  <2>5. k + 1 \in Nat
    OBVIOUS
  <2>6. \E u : R(k + 1, u)
    <3> HIDE DEF R
    <3> QED BY <2>4
  <2> HIDE DEF R
  <2> QED BY <2>5, <2>6
<1> HIDE DEF G
<1>3. N \in G
  <2>1. 0 .. N \subseteq G
    BY <1>1, <1>2, Induction
  <2> QED BY <2>1
<1> DEFINE upTo == CHOOSE u : R(N, u)
<1>4. R(N, upTo)
  BY <1>3 DEF G
<1>5. Join(s) = upTo[N]
  BY DEF Join, JoinOne
<1> HIDE DEF upTo
<1>6. Joined(s, N, upTo)
  BY <1>4 DEF Joined
<1> QED BY <1>5, <1>6

LEMMA JoinEmpty == Join(<<>>) = <<>>
<1>1. Len(<<>>) = 0
  OBVIOUS
<1>2. \E t : Joined(<<>>, 0, t) /\ Join(<<>>) = t[0]
  BY <1>1, JoinLoop
<1> QED BY <1>2 DEF Joined

\* Joining depends on the labels joined only.
LEMMA JoinedAgree ==
    ASSUME NEW s, NEW t, NEW n \in Nat, NEW f, NEW g, NEW m \in Nat, n <= m,
           Joined(s, n, f), Joined(t, m, g), \A i \in 1 .. n : s[i] = t[i]
    PROVE  f[n] = g[n]
<1> DEFINE G == {i \in Nat : f[i] = g[i]}
<1>1. 0 \in G
  BY DEF Joined
<1>2. ASSUME NEW k \in 0 .. n - 1, k \in G PROVE k + 1 \in G
  <2>1. k + 1 \in 1 .. n /\ k + 1 \in 1 .. m /\ (k + 1) - 1 = k
    OBVIOUS
  <2>2. f[k + 1] = JoinOne(s, k + 1, f[k]) /\ g[k + 1] = JoinOne(t, k + 1, g[k])
    BY <2>1 DEF Joined
  <2>3. JoinOne(s, k + 1, f[k]) = JoinOne(t, k + 1, g[k])
    BY <1>2, <2>1 DEF JoinOne
  <2> QED BY <2>1, <2>2, <2>3
<1> HIDE DEF G
<1>3. 0 .. n \subseteq G
  BY <1>1, <1>2, Induction
<1> QED BY <1>3 DEF G

LEMMA JoinAppend ==
    ASSUME NEW s \in Seq(Text), NEW l \in Text
    PROVE  Join(Append(s, l)) = Join(s) \o (IF Len(s) > 0 THEN <<Dot>> ELSE <<>>) \o l
<1>1. PICK n : n = Len(s)
  OBVIOUS
<1>2. PICK t : t = Append(s, l)
  OBVIOUS
<1>3. n \in Nat /\ Len(t) = n + 1 /\ t[n + 1] = l /\ \A i \in 1 .. n : s[i] = t[i]
  BY <1>1, <1>2
<1>4. PICK f : Joined(s, n, f) /\ Join(s) = f[n]
  BY <1>1, <1>3, JoinLoop
<1>5. PICK g : Joined(t, n + 1, g) /\ Join(t) = g[n + 1]
  BY <1>3, JoinLoop
<1>6. f[n] = g[n]
  BY <1>3, <1>4, <1>5, JoinedAgree
<1>7. g[n + 1] = JoinOne(t, n + 1, g[n])
  <2>1. n + 1 \in 1 .. n + 1 /\ (n + 1) - 1 = n
    BY <1>3
  <2> QED BY <1>5, <2>1 DEF Joined
<1>8. n + 1 > 1 <=> Len(s) > 0
  BY <1>1, <1>3
<1> QED BY <1>1, <1>2, <1>3, <1>4, <1>5, <1>6, <1>7, <1>8 DEF JoinOne

(***************************************************************************)
(* The texts of labels.                                                    *)
(***************************************************************************)
IsLabel(l) == l \in Label /\ l # <<>> /\ Len(l) < LabelLimit /\ Dot \notin Range(l)

LEMMA LabelFacts ==
    ASSUME NEW l, IsLabel(l)
    PROVE  /\ l \in Text /\ Len(l) \in Nat /\ Len(l) >= 1 /\ Len(l) < LabelLimit
           /\ \A i \in 1 .. Len(l) : l[i] # Dot /\ l[i] \in Char
<1>1. l \in Text /\ l \in Label /\ l # <<>> /\ Len(l) < LabelLimit /\ Dot \notin Range(l)
  BY DEF IsLabel, Label, Text
<1>2. DOMAIN l = 1 .. Len(l) /\ Len(l) \in Nat /\ \A i \in 1 .. Len(l) : l[i] \in Char
  BY <1>1, TextFacts
<1>3. Len(l) \in Nat \ {0}
  BY <1>1, EmptySeq DEF Text
<1>4. \A i \in 1 .. Len(l) : l[i] # Dot
  BY <1>1, <1>2 DEF Range
<1> QED BY <1>1, <1>2, <1>3, <1>4

LEMMA LabelsAre ==
    ASSUME NEW s
    PROVE  IsLabels(s) <=> s \in Seq(Label) /\ s # <<>> /\ \A i \in 1 .. Len(s) : IsLabel(s[i])
<1>1. CASE s \in Seq(Label)
  <2>1. DOMAIN s = 1 .. Len(s) /\ \A i \in 1 .. Len(s) : s[i] \in Label
    BY <1>1, LenProperties, ElementOfSeq
  <2> QED BY <1>1, <2>1 DEF IsLabels, IsLabel
<1> QED BY <1>1 DEF IsLabels

\* Induction over the number of labels.
LEMMA LabelsInduction ==
    ASSUME NEW G,
           \A l : IsLabel(l) => <<l>> \in G,
           \A t, l : IsLabels(t) /\ IsLabel(l) /\ t \in G => Append(t, l) \in G
    PROVE  \A s : IsLabels(s) => s \in G
<1> SUFFICES ASSUME NEW s, IsLabels(s) PROVE s \in G
  OBVIOUS
<1> DEFINE H == {n \in Nat : SubSeq(s, 1, n) \in G}
<1>1. s \in Seq(Label) /\ s # <<>> /\ \A i \in 1 .. Len(s) : IsLabel(s[i])
  BY LabelsAre
<1>2. Len(s) \in Nat /\ Len(s) >= 1
  <2>1. Len(s) \in Nat \ {0}
    BY <1>1, EmptySeq
  <2> QED BY <2>1
<1>3. ASSUME NEW n \in 1 .. Len(s)
      PROVE  /\ IsLabels(SubSeq(s, 1, n)) /\ IsLabel(s[n])
             /\ n > 1 => SubSeq(s, 1, n) = Append(SubSeq(s, 1, n - 1), s[n])
             /\ n = 1 => SubSeq(s, 1, n) = <<s[n]>>
  <2>1. PICK t : t = SubSeq(s, 1, n)
    OBVIOUS
  <2>2. 1 \in Nat \ {0} /\ n \in Nat /\ 1 <= n + 1 /\ n <= Len(s) /\ n - 1 + 1 = n
    BY <1>2
  <2>3. /\ t \in Seq(Label) /\ Len(t) = n - 1 + 1
        /\ \A i \in 1 .. n - 1 + 1 : t[i] = s[1 + i - 1]
    BY <1>1, <2>1, <2>2, Slice
  <2>4. t # <<>>
    BY <2>2, <2>3
  <2>5. ASSUME NEW i \in 1 .. Len(t) PROVE IsLabel(t[i])
    <3>1. i \in 1 .. n - 1 + 1 /\ i \in 1 .. Len(s) /\ 1 + i - 1 = i
      BY <2>2, <2>3
    <3> QED BY <1>1, <2>3, <3>1
  <2>6. IsLabels(t)
    BY <2>3, <2>4, <2>5, LabelsAre
  <2>7. IsLabel(s[n])
    BY <1>1
  <2>8. SubSeq(s, 1, n) = SubSeq(s, 1, n - 1) \o <<s[n]>>
    <3>1. 1 \in 1 .. Len(s) /\ n \in 1 .. Len(s)
      BY <1>2
    <3> QED BY <1>1, <3>1, SubSeqRecursiveSecond
  <2>9. ASSUME n > 1 PROVE SubSeq(s, 1, n) = Append(SubSeq(s, 1, n - 1), s[n])
    <3>1. n - 1 \in Nat /\ 1 <= (n - 1) + 1 /\ n - 1 <= Len(s)
      BY <2>2, <2>9
    <3>2. SubSeq(s, 1, n - 1) \in Seq(Label)
      BY <1>1, <3>1, Slice
    <3>3. s[n] \in Label
      BY <2>7 DEF IsLabel
    <3> QED BY <2>8, <3>2, <3>3
  <2>10. ASSUME n = 1 PROVE SubSeq(s, 1, n) = <<s[n]>>
    <3>1. SubSeq(s, 1, n - 1) = <<>>
      BY <2>10, SubSeqEmpty
    <3>2. <<s[n]>> \in Seq(Label)
      BY <2>7 DEF IsLabel
    <3>3. <<>> \o <<s[n]>> = <<s[n]>>
      BY <3>2, ConcatEmptySeq
    <3> QED BY <2>8, <3>1, <3>3
  <2> QED BY <2>1, <2>6, <2>7, <2>9, <2>10
<1>4. 1 \in H
  <2>1. 1 \in 1 .. Len(s)
    BY <1>2
  <2>2. SubSeq(s, 1, 1) = <<s[1]>> /\ IsLabel(s[1])
    BY <1>3, <2>1
  <2> QED BY <2>2
<1>5. ASSUME NEW k \in 1 .. Len(s) - 1, k \in H PROVE k + 1 \in H
  <2>1. k \in 1 .. Len(s) /\ k + 1 \in 1 .. Len(s) /\ k + 1 > 1 /\ (k + 1) - 1 = k
    BY <1>2
  <2>2. SubSeq(s, 1, k + 1) = Append(SubSeq(s, 1, k), s[k + 1]) /\ IsLabel(s[k + 1])
    BY <1>3, <2>1
  <2>3. IsLabels(SubSeq(s, 1, k))
    BY <1>3, <2>1
  <2>4. Append(SubSeq(s, 1, k), s[k + 1]) \in G
    BY <1>5, <2>2, <2>3
  <2>5. k + 1 \in Nat
    OBVIOUS
  <2>6. SubSeq(s, 1, k + 1) \in G
    BY <2>2, <2>4
  <2> QED BY <2>5, <2>6
<1> HIDE DEF H
<1>6. 1 .. Len(s) \subseteq H
  BY <1>2, <1>4, <1>5, Induction
<1>7. Len(s) \in H
  BY <1>2, <1>6
<1>8. SubSeq(s, 1, Len(s)) = s
  BY <1>1, SubSeqFull
<1> QED BY <1>7, <1>8 DEF H

LEMMA DotJoin ==
    ASSUME NEW x \in Text, NEW l \in Text
    PROVE  /\ x \o <<Dot>> \o l \in Text
           /\ Len(x \o <<Dot>> \o l) = Len(x) + 1 + Len(l)
           /\ \A i \in 1 .. Len(x) : (x \o <<Dot>> \o l)[i] = x[i]
           /\ (x \o <<Dot>> \o l)[Len(x) + 1] = Dot
           /\ \A i \in 1 .. Len(l) : (x \o <<Dot>> \o l)[Len(x) + 1 + i] = l[i]
<1>1. x \in Seq(Char) /\ l \in Seq(Char) /\ <<Dot>> \in Seq(Char) /\ Dot \in Char
  BY TextFacts, Constants
<1>2. Text = Seq(Char)
  BY DEF Text, Char
<1>3. PICK y : y = x \o <<Dot>>
  OBVIOUS
<1>4. /\ y \in Seq(Char) /\ Len(y) = Len(x) + 1
      /\ \A i \in 1 .. Len(x) : y[i] = x[i]
      /\ y[Len(x) + 1] = Dot
  BY <1>1, <1>3
<1>5. /\ Len(x) \in Nat /\ Len(l) \in Nat
      /\ y \o l \in Seq(Char)
      /\ Len(y \o l) = Len(y) + Len(l)
      /\ \A i \in 1 .. Len(y) + Len(l) : (y \o l)[i] = IF i <= Len(y) THEN y[i] ELSE l[i - Len(y)]
  <2>1. y \in Seq(Char) /\ l \in Seq(Char)
    BY <1>1, <1>4
  <2>2. Len(x) \in Nat /\ Len(l) \in Nat
    BY <1>1
  <2> HIDE DEF Char
  <2> QED BY <2>1, <2>2, ConcatProperties
<1>6. \A i \in 1 .. Len(x) + 1 : (y \o l)[i] = y[i]
  BY <1>4, <1>5
<1>7. ASSUME NEW i \in 1 .. Len(l) PROVE (y \o l)[Len(x) + 1 + i] = l[i]
  <2>1. PICK k : k = Len(x) + 1 + i
    OBVIOUS
  <2>2. k \in 1 .. Len(y) + Len(l) /\ ~(k <= Len(y)) /\ k - Len(y) = i
    BY <1>4, <1>5, <2>1
  <2>3. (y \o l)[k] = l[k - Len(y)]
    BY <1>5, <2>2
  <2> QED BY <2>1, <2>2, <2>3
<1> QED BY <1>2, <1>3, <1>4, <1>5, <1>6, <1>7

LEMMA JoinLabel ==
    ASSUME NEW l, IsLabel(l)
    PROVE  IsLabels(<<l>>) /\ Join(<<l>>) = l
<1>1. l \in Text /\ l \in Label /\ <<>> \in Seq(Text) /\ Len(<<>>) = 0
  BY LabelFacts DEF IsLabel
<1>2. Append(<<>>, l) = <<l>>
  OBVIOUS
<1>3. Join(<<l>>) = <<>> \o <<>> \o l
  <2>1. Join(Append(<<>>, l)) = Join(<<>>) \o (IF Len(<<>>) > 0 THEN <<Dot>> ELSE <<>>) \o l
    BY <1>1, JoinAppend
  <2>2. ~(Len(<<>>) > 0)
    BY <1>1
  <2> QED BY <1>2, <2>1, <2>2, JoinEmpty
<1>4. <<>> \o <<>> \o l = l
  BY <1>1, ConcatEmptySeq DEF Text
<1>5. IsLabels(<<l>>)
  <2>1. <<l>> \in Seq(Label) /\ <<l>> # <<>> /\ Len(<<l>>) = 1 /\ <<l>>[1] = l
    BY <1>1
  <2>2. \A i \in 1 .. Len(<<l>>) : IsLabel(<<l>>[i])
    BY <2>1
  <2> QED BY <2>1, <2>2, LabelsAre
<1> QED BY <1>3, <1>4, <1>5

LEMMA JoinMore ==
    ASSUME NEW t, IsLabels(t), NEW l, IsLabel(l)
    PROVE  IsLabels(Append(t, l)) /\ Join(Append(t, l)) = Join(t) \o <<Dot>> \o l
<1>1. t \in Seq(Label) /\ t # <<>> /\ \A i \in 1 .. Len(t) : IsLabel(t[i])
  BY LabelsAre
<1>2. Len(t) \in Nat /\ Len(t) > 0
  <2>1. Len(t) \in Nat \ {0}
    BY <1>1, EmptySeq
  <2> QED BY <2>1
<1>3. l \in Label /\ Label = Text
  BY DEF IsLabel, Label, Text
<1>4. Join(Append(t, l)) = Join(t) \o <<Dot>> \o l
  BY <1>1, <1>2, <1>3, JoinAppend
<1>5. IsLabels(Append(t, l))
  <2>1. PICK s : s = Append(t, l)
    OBVIOUS
  <2>2. /\ s \in Seq(Label) /\ Len(s) = Len(t) + 1 /\ s[Len(t) + 1] = l
        /\ \A i \in 1 .. Len(t) : s[i] = t[i]
    BY <1>1, <1>3, <2>1
  <2>3. s # <<>>
    BY <1>2, <2>2
  <2>4. ASSUME NEW i \in 1 .. Len(s) PROVE IsLabel(s[i])
    <3>1. i \in 1 .. Len(t) \/ i = Len(t) + 1
      BY <1>2, <2>2
    <3> QED BY <1>1, <2>2, <3>1
  <2> QED BY <2>1, <2>2, <2>3, <2>4, LabelsAre
<1> QED BY <1>4, <1>5

LEMMA ProperLabel ==
    ASSUME NEW l, IsLabel(l)
    PROVE  Proper(l)
<1>1. /\ l \in Text /\ Len(l) \in Nat /\ Len(l) >= 1 /\ Len(l) < LabelLimit
      /\ \A i \in 1 .. Len(l) : l[i] # Dot
  BY LabelFacts
<1>2. l # <<>>
  BY <1>1
<1>3. l[1] # Dot /\ l[Len(l)] # Dot
  BY <1>1
<1>4. \A i \in 1 .. Len(l) - 1 : l[i] = Dot => l[i + 1] # Dot
  BY <1>1
<1>5. \A i \in 1 .. Len(l) : ~(i + LabelLimit - 1 <= Len(l))
  BY <1>1, Constants
<1> QED BY <1>1, <1>2, <1>3, <1>4, <1>5 DEF Proper

LEMMA ProperMore ==
    ASSUME NEW x, Proper(x), NEW l, IsLabel(l)
    PROVE  Proper(x \o <<Dot>> \o l)
<1>1. /\ l \in Text /\ Len(l) \in Nat /\ Len(l) >= 1 /\ Len(l) < LabelLimit
      /\ \A i \in 1 .. Len(l) : l[i] # Dot
  BY LabelFacts
<1>2. x \in Text /\ Len(x) \in Nat /\ Len(x) >= 1
  <2>1. x \in Text /\ x # <<>>
    BY DEF Proper
  <2>2. Len(x) \in Nat \ {0}
    BY <2>1, EmptySeq DEF Text
  <2> QED BY <2>1, <2>2
<1>3. PICK n : n = Len(x)
  OBVIOUS
<1>4. PICK k : k = Len(l)
  OBVIOUS
<1>5. PICK y : y = x \o <<Dot>> \o l
  OBVIOUS
<1>6. /\ y \in Text /\ Len(y) = n + 1 + k
      /\ \A i \in 1 .. n : y[i] = x[i]
      /\ y[n + 1] = Dot
      /\ \A i \in 1 .. k : y[n + 1 + i] = l[i]
  BY <1>1, <1>2, <1>3, <1>4, <1>5, DotJoin, ZenonT(60)
<1>7. ASSUME NEW i \in n + 2 .. n + 1 + k PROVE y[i] # Dot
  <2>1. PICK m : m = i - (n + 1)
    OBVIOUS
  <2>2. m \in 1 .. k /\ n + 1 + m = i
    BY <1>1, <1>2, <1>3, <1>4, <2>1
  <2>3. l[m] # Dot
    BY <1>1, <1>4, <2>2
  <2> QED BY <1>6, <2>2, <2>3
<1>8. n \in Nat /\ k \in Nat /\ n >= 1 /\ k >= 1 /\ k < LabelLimit /\ LabelLimit \in Nat
  BY <1>1, <1>2, <1>3, <1>4, Constants
<1>9. x[1] # Dot /\ x[n] # Dot
  BY <1>3 DEF Proper
<1>10. y # <<>> /\ y[1] # Dot /\ y[Len(y)] # Dot
  <2>1. 1 \in 1 .. n /\ n + 1 + k \in n + 2 .. n + 1 + k
    BY <1>8
  <2>2. y # <<>>
    BY <1>6, <1>8
  <2> QED BY <1>6, <1>7, <1>9, <2>1, <2>2
<1>11. ASSUME NEW i \in 1 .. Len(y) - 1, y[i] = Dot PROVE y[i + 1] # Dot
  <2>1. i \in 1 .. n - 1 \/ i = n \/ i = n + 1 \/ i \in n + 2 .. n + 1 + k
    BY <1>6, <1>8
  <2>2. CASE i \in 1 .. n - 1
    <3>1. i \in 1 .. n /\ i + 1 \in 1 .. n /\ i \in 1 .. Len(x) - 1
      BY <1>3, <1>8, <2>2
    <3>2. x[i] = Dot
      BY <1>6, <1>11, <3>1
    <3>3. x[i + 1] # Dot
      BY <3>1, <3>2 DEF Proper
    <3> QED BY <1>6, <3>1, <3>3
  <2>3. CASE i = n
    <3>1. n \in 1 .. n
      BY <1>8
    <3> QED BY <1>6, <1>9, <1>11, <2>3, <3>1
  <2>4. CASE i = n + 1
    <3>1. i + 1 \in n + 2 .. n + 1 + k
      BY <1>8, <2>4
    <3> QED BY <1>7, <3>1
  <2>5. CASE i \in n + 2 .. n + 1 + k
    BY <1>7, <1>11, <2>5
  <2> QED BY <2>1, <2>2, <2>3, <2>4, <2>5
<1>12. ASSUME NEW i \in 1 .. Len(y), i + LabelLimit - 1 <= Len(y)
       PROVE  \E j \in i .. i + LabelLimit - 1 : y[j] = Dot
  <2>1. i <= n + 1
    BY <1>6, <1>8, <1>12
  <2>2. CASE i + LabelLimit - 1 <= n
    <3>1. i \in 1 .. Len(x) /\ i + LabelLimit - 1 <= Len(x)
      BY <1>3, <1>8, <2>2
    <3>2. PICK j \in i .. i + LabelLimit - 1 : x[j] = Dot
      BY <3>1 DEF Proper
    <3>3. j \in 1 .. n
      BY <1>8, <2>2, <3>2
    <3> QED BY <1>6, <3>2, <3>3
  <2>3. CASE ~(i + LabelLimit - 1 <= n)
    <3>1. n + 1 \in i .. i + LabelLimit - 1
      BY <1>8, <2>1, <2>3
    <3> QED BY <1>6, <3>1
  <2> QED BY <2>2, <2>3
<1>13. Proper(y)
  BY <1>6, <1>10, <1>11, <1>12 DEF Proper
<1> QED BY <1>5, <1>13

\* The text of labels is a name that the messages can hold.
LEMMA ProperJoin ==
    ASSUME NEW s, IsLabels(s)
    PROVE  Proper(Join(s))
<1> DEFINE G == {t \in Seq(Label) : Proper(Join(t))}
<1>1. ASSUME NEW l, IsLabel(l) PROVE <<l>> \in G
  <2>1. <<l>> \in Seq(Label)
    BY <1>1 DEF IsLabel
  <2> QED BY <1>1, <2>1, JoinLabel, ProperLabel
<1>2. ASSUME NEW t, NEW l, IsLabels(t), IsLabel(l), t \in G PROVE Append(t, l) \in G
  <2>1. Append(t, l) \in Seq(Label)
    BY <1>2, JoinMore DEF IsLabels
  <2> QED BY <1>2, <2>1, JoinMore, ProperMore
<1> HIDE DEF G
<1>3. \A t : IsLabels(t) => t \in G
  BY <1>1, <1>2, LabelsInduction
<1> QED BY <1>3 DEF G

(***************************************************************************)
(* Labels in reverse.                                                      *)
(***************************************************************************)
LEMMA LabelsLen ==
    ASSUME NEW s, IsLabels(s)
    PROVE  /\ s \in Seq(Label) /\ Len(s) \in Nat /\ Len(s) >= 1
           /\ Join(s) \in Text /\ Join(s) # <<>> /\ Len(Join(s)) \in Nat /\ Len(s) <= Len(Join(s))
<1> DEFINE G == {t \in Seq(Label) : Len(t) <= Len(Join(t))}
<1>1. ASSUME NEW l, IsLabel(l) PROVE <<l>> \in G
  <2>1. <<l>> \in Seq(Label) /\ Len(<<l>>) = 1
    BY <1>1 DEF IsLabel
  <2>2. Len(l) \in Nat /\ Len(l) >= 1
    BY <1>1, LabelFacts
  <2> QED BY <1>1, <2>1, <2>2, JoinLabel
<1>2. ASSUME NEW t, NEW l, IsLabels(t), IsLabel(l), t \in G PROVE Append(t, l) \in G
  <2>1. t \in Seq(Label) /\ l \in Label /\ Append(t, l) \in Seq(Label)
    BY <1>2 DEF IsLabels, IsLabel
  <2>2. Len(Append(t, l)) = Len(t) + 1 /\ Len(t) \in Nat
    BY <2>1
  <2>3. Join(t) \in Text /\ l \in Text /\ Len(l) \in Nat /\ Len(l) >= 1
    BY <1>2, ProperJoin, LabelFacts DEF Proper
  <2>4. Len(Join(Append(t, l))) = Len(Join(t)) + 1 + Len(l)
    BY <1>2, <2>3, JoinMore, DotJoin
  <2>5. Len(Join(t)) \in Nat /\ Len(t) <= Len(Join(t))
    BY <1>2, <2>3, TextFacts
  <2> QED BY <2>1, <2>2, <2>3, <2>4, <2>5
<1>3. s \in Seq(Label) /\ s # <<>>
  BY DEF IsLabels
<1>4. Len(s) \in Nat \ {0}
  BY <1>3, EmptySeq
<1>5. Join(s) \in Text /\ Join(s) # <<>>
  BY ProperJoin DEF Proper
<1>6. Len(Join(s)) \in Nat
  BY <1>5, TextFacts
<1> HIDE DEF G
<1>7. \A t : IsLabels(t) => t \in G
  BY <1>1, <1>2, LabelsInduction
<1>8. Len(s) <= Len(Join(s))
  BY <1>7 DEF G
<1> QED BY <1>3, <1>4, <1>5, <1>6, <1>8

LEMMA ReverseAppend ==
    ASSUME NEW t \in Seq(Label), NEW l \in Label
    PROVE  Reverse(Append(t, l)) = <<l>> \o Reverse(t)
<1>1. PICK n : n = Len(t)
  OBVIOUS
<1>2. PICK s : s = Append(t, l)
  OBVIOUS
<1>3. /\ n \in Nat /\ Len(s) = n + 1 /\ s[n + 1] = l /\ s \in Seq(Label)
      /\ \A i \in 1 .. n : s[i] = t[i]
  BY <1>1, <1>2
<1> DEFINE a == Reverse(s)
           r == Reverse(t)
           b == <<l>> \o r
<1>4. a \in Seq(Label) /\ Len(a) = n + 1 /\ \A i \in 1 .. n + 1 : a[i] = s[n + 1 - i + 1]
  <2>1. \A i \in 1 .. n + 1 : n + 1 - i + 1 \in 1 .. n + 1
    BY <1>3
  <2>2. \A i \in 1 .. n + 1 : s[n + 1 - i + 1] \in Label
    BY <1>3, <2>1
  <2>3. a = [i \in 1 .. n + 1 |-> s[n + 1 - i + 1]]
    BY <1>3 DEF Reverse
  <2> QED BY <1>3, <2>2, <2>3
<1>5. r \in Seq(Label) /\ Len(r) = n /\ \A i \in 1 .. n : r[i] = t[n - i + 1]
  <2>1. \A i \in 1 .. n : n - i + 1 \in 1 .. n
    BY <1>3
  <2>2. \A i \in 1 .. n : t[n - i + 1] \in Label
    BY <1>1, <2>1
  <2> QED BY <1>1, <1>3, <2>2 DEF Reverse
<1> HIDE DEF a, r
<1>6. b \in Seq(Label) /\ Len(b) = n + 1 /\ b[1] = l /\ \A i \in 2 .. n + 1 : b[i] = r[i - 1]
  <2>1. <<l>> \in Seq(Label) /\ Len(<<l>>) = 1 /\ <<l>>[1] = l
    OBVIOUS
  <2> QED BY <1>3, <1>5, <2>1
<1>7. ASSUME NEW i \in 1 .. n + 1 PROVE a[i] = b[i]
  <2>1. CASE i = 1
    <3>1. n + 1 - i + 1 = n + 1
      BY <1>3, <2>1
    <3> QED BY <1>3, <1>4, <1>6, <2>1, <3>1
  <2>2. CASE i # 1
    <3>1. PICK k : k = i - 1
      OBVIOUS
    <3>2. i \in 2 .. n + 1 /\ k \in 1 .. n /\ n + 1 - i + 1 = n - k + 1 /\ n - k + 1 \in 1 .. n
      BY <1>3, <2>2, <3>1
    <3>3. a[i] = s[n - k + 1] /\ b[i] = t[n - k + 1]
      BY <1>4, <1>5, <1>6, <3>1, <3>2
    <3> QED BY <1>3, <3>2, <3>3
  <2> QED BY <2>1, <2>2
<1> HIDE DEF b
<1>8. a = b
  BY <1>4, <1>6, <1>7, SeqEqual
<1> QED BY <1>2, <1>8 DEF a, b, r

LEMMA ReverseLabels ==
    ASSUME NEW s, IsLabels(s)
    PROVE  IsLabels(Reverse(s)) /\ Reverse(Reverse(s)) = s
<1>1. s \in Seq(Label) /\ s # <<>> /\ \A i \in 1 .. Len(s) : IsLabel(s[i])
  BY LabelsAre
<1>2. PICK n : n = Len(s)
  OBVIOUS
<1>3. n \in Nat /\ n >= 1
  BY <1>2, LabelsLen
<1> DEFINE r == Reverse(s)
           q == Reverse(r)
<1>4. \A i \in 1 .. n : n - i + 1 \in 1 .. n
  BY <1>3
<1>5. r \in Seq(Label) /\ Len(r) = n /\ \A i \in 1 .. n : r[i] = s[n - i + 1]
  <2>1. \A i \in 1 .. n : s[n - i + 1] \in Label
    BY <1>1, <1>2, <1>4
  <2> QED BY <1>2, <1>3, <2>1 DEF Reverse
<1>6. q \in Seq(Label) /\ Len(q) = n /\ \A i \in 1 .. n : q[i] = r[n - i + 1]
  <2> HIDE DEF r
  <2>1. \A i \in 1 .. n : r[n - i + 1] \in Label
    BY <1>4, <1>5
  <2>2. q = [i \in 1 .. n |-> r[n - i + 1]]
    BY <1>5 DEF Reverse
  <2> HIDE DEF q
  <2> QED BY <1>3, <2>1, <2>2
<1> HIDE DEF r, q
<1>7. ASSUME NEW i \in 1 .. n PROVE q[i] = s[i]
  <2>1. PICK k : k = n - i + 1
    OBVIOUS
  <2>2. k \in 1 .. n /\ n - k + 1 = i
    BY <1>3, <2>1
  <2> QED BY <1>5, <1>6, <2>1, <2>2
<1>8. q = s
  BY <1>1, <1>2, <1>6, <1>7, SeqEqual
<1>9. IsLabels(r)
  <2>1. r # <<>>
    BY <1>3, <1>5
  <2>2. \A i \in 1 .. Len(r) : IsLabel(r[i])
    BY <1>1, <1>2, <1>4, <1>5
  <2> QED BY <1>5, <2>1, <2>2, LabelsAre
<1> QED BY <1>8, <1>9 DEF r, q

LEMMA TextConcat ==
    ASSUME NEW a \in Text, NEW b \in Text
    PROVE  /\ a \o b \in Text /\ a \o <<>> = a /\ <<>> \o a = a /\ <<Dot>> \in Text
<1>1. a \in Seq(Char) /\ b \in Seq(Char) /\ Text = Seq(Char)
  BY DEF Text, Char
<1>2. a \o b \in Seq(Char) /\ <<Dot>> \in Seq(Char)
  BY <1>1, Constants
<1>3. a \o <<>> = a /\ <<>> \o a = a
  BY <1>1, ConcatEmptySeq
<1> QED BY <1>1, <1>2, <1>3

LEMMA TextAssociative ==
    ASSUME NEW a \in Text, NEW b \in Text, NEW c \in Text
    PROVE  (a \o b) \o c = a \o (b \o c)
<1>1. a \in Seq(Char) /\ b \in Seq(Char) /\ c \in Seq(Char)
  BY DEF Text, Char
<1> QED BY <1>1, ConcatAssociative

LEMMA JoinFirst ==
    ASSUME NEW l, IsLabel(l), NEW u, IsLabels(u)
    PROVE  Join(<<l>> \o u) = l \o <<Dot>> \o Join(u)
<1> DEFINE G == {t \in Seq(Label) : IsLabels(<<l>> \o t) /\ Join(<<l>> \o t) = l \o <<Dot>> \o Join(t)}
<1>0. l \in Label /\ l \in Text
  BY LabelFacts DEF IsLabel
<1>1. ASSUME NEW m, IsLabel(m) PROVE <<m>> \in G
  <2>1. m \in Label /\ <<m>> \in Seq(Label) /\ <<l>> \o <<m>> = Append(<<l>>, m)
    BY <1>0, <1>1 DEF IsLabel
  <2>2. IsLabels(<<l>>) /\ Join(<<l>>) = l /\ Join(<<m>>) = m
    BY <1>1, JoinLabel
  <2>3. IsLabels(Append(<<l>>, m)) /\ Join(Append(<<l>>, m)) = Join(<<l>>) \o <<Dot>> \o m
    BY <1>1, <2>2, JoinMore
  <2> QED BY <2>1, <2>2, <2>3
<1>2. ASSUME NEW t, NEW m, IsLabels(t), IsLabel(m), t \in G PROVE Append(t, m) \in G
  <2>1. t \in Seq(Label) /\ m \in Label /\ Append(t, m) \in Seq(Label)
    BY <1>2 DEF IsLabels, IsLabel
  <2>2. <<l>> \o Append(t, m) = Append(<<l>> \o t, m)
    BY <1>0, <2>1
  <2>3. IsLabels(<<l>> \o t) /\ Join(<<l>> \o t) = l \o <<Dot>> \o Join(t)
    BY <1>2
  <2>4. IsLabels(Append(<<l>> \o t, m)) /\ Join(Append(<<l>> \o t, m)) = Join(<<l>> \o t) \o <<Dot>> \o m
    BY <1>2, <2>3, JoinMore
  <2>5. Join(Append(t, m)) = Join(t) \o <<Dot>> \o m
    BY <1>2, JoinMore
  <2>6. PICK x : x = Join(t)
    OBVIOUS
  <2>7. x \in Text /\ m \in Text /\ <<Dot>> \in Text
    BY <1>0, <1>2, <2>6, LabelsLen, LabelFacts, TextConcat
  <2>8. (l \o <<Dot>> \o x) \o <<Dot>> \o m = l \o <<Dot>> \o (x \o <<Dot>> \o m)
    <3>1. l \o <<Dot>> \in Text /\ x \o <<Dot>> \in Text
      BY <1>0, <2>7, TextConcat
    <3>2. ((l \o <<Dot>>) \o x) \o <<Dot>> = (l \o <<Dot>>) \o (x \o <<Dot>>)
      BY <2>7, <3>1, TextAssociative, SMTT(30)
    <3>3. ((l \o <<Dot>>) \o (x \o <<Dot>>)) \o m = (l \o <<Dot>>) \o ((x \o <<Dot>>) \o m)
      BY <2>7, <3>1, TextAssociative, SMTT(30)
    <3> QED BY <3>2, <3>3
  <2> QED BY <2>1, <2>2, <2>3, <2>4, <2>5, <2>6, <2>8
<1> HIDE DEF G
<1>3. \A t : IsLabels(t) => t \in G
  BY <1>1, <1>2, LabelsInduction
<1> QED BY <1>3 DEF G

\* One turn of GetIpAddrFromQname's loop takes the last label.
BackOne(r) ==
    LET p == Max(Dots(r.tmp, 1))
    IN  IF Dots(r.tmp, 1) = {} THEN r
        ELSE [tmp |-> SubSeq(r.tmp, 1, p - 1),
              ipAddr |-> Append(r.ipAddr \o SubSeq(r.tmp, p + 1, Len(r.tmp)), Dot)]

LEMMA BackLabel ==
    ASSUME NEW l, IsLabel(l), NEW acc
    PROVE  BackOne([tmp |-> l, ipAddr |-> acc]) = [tmp |-> l, ipAddr |-> acc]
<1>1. Dots(l, 1) = {}
  BY LabelFacts DEF Dots
<1> QED BY <1>1 DEF BackOne

LEMMA BackMore ==
    ASSUME NEW x \in Text, NEW l, IsLabel(l), NEW acc \in Text
    PROVE  BackOne([tmp |-> x \o <<Dot>> \o l, ipAddr |-> acc])
             = [tmp |-> x, ipAddr |-> acc \o (l \o <<Dot>>)]
<1>1. PICK y : y = x \o <<Dot>> \o l
  OBVIOUS
<1>2. PICK n : n = Len(x)
  OBVIOUS
<1>3. PICK k : k = Len(l)
  OBVIOUS
<1>4. /\ l \in Text /\ k \in Nat /\ k >= 1 /\ n \in Nat
      /\ \A i \in 1 .. k : l[i] # Dot
  BY <1>2, <1>3, LabelFacts, TextFacts
<1>5. /\ y \in Text /\ Len(y) = n + 1 + k
      /\ \A i \in 1 .. n : y[i] = x[i]
      /\ y[n + 1] = Dot
      /\ \A i \in 1 .. k : y[n + 1 + i] = l[i]
  BY <1>1, <1>2, <1>3, <1>4, DotJoin, ZenonT(60)
<1>6. Dots(y, 1) \subseteq 1 .. n + 1 + k /\ n + 1 \in Dots(y, 1)
  BY <1>4, <1>5 DEF Dots
<1>7. \A i \in Dots(y, 1) : i <= n + 1
  <2> SUFFICES ASSUME NEW i \in Dots(y, 1), ~(i <= n + 1) PROVE FALSE
    OBVIOUS
  <2>1. i \in 1 .. n + 1 + k /\ y[i] = Dot
    BY <1>5 DEF Dots
  <2>2. PICK m : m = i - (n + 1)
    OBVIOUS
  <2>3. m \in 1 .. k /\ n + 1 + m = i
    BY <1>4, <2>1, <2>2
  <2> QED BY <1>4, <1>5, <2>1, <2>3
<1>8. Max(Dots(y, 1)) = n + 1
  <2>1. PICK p : p = Max(Dots(y, 1))
    OBVIOUS
  <2>2. n + 1 + k \in Nat /\ Dots(y, 1) # {}
    BY <1>4, <1>6
  <2>3. p \in Dots(y, 1) /\ \A i \in Dots(y, 1) : i <= p
    BY <1>6, <2>1, <2>2, MaxIs
  <2>4. p <= n + 1 /\ n + 1 <= p /\ p \in 1 .. n + 1 + k
    BY <1>6, <1>7, <2>3
  <2>5. p = n + 1
    BY <1>4, <2>4
  <2> QED BY <2>1, <2>5
<1>9. x \in Seq(Char) /\ l \in Seq(Char) /\ y \in Seq(Char)
  BY <1>4, <1>5, TextFacts
<1>10. SubSeq(y, 1, n) = x
  <2>1. 1 \in Nat \ {0} /\ 1 <= n + 1 /\ n <= Len(y) /\ n <= Len(x) /\ n - 1 = n - 1
    BY <1>2, <1>4, <1>5
  <2>2. \A i \in 1 .. n : y[i] = x[1 + (i - 1)]
    <3>1. \A i \in 1 .. n : 1 + (i - 1) = i
      OBVIOUS
    <3> QED BY <1>5, <3>1
  <2>3. SubSeq(y, 1, n) = SubSeq(x, 1, n)
    BY <1>4, <1>9, <2>1, <2>2, SlicesEqual
  <2>4. SubSeq(x, 1, Len(x)) = x
    BY <1>9, SubSeqFull
  <2> QED BY <1>2, <2>3, <2>4
<1>11. SubSeq(y, n + 2, n + 1 + k) = l
  <2>1. PICK a : a = n + 2
    OBVIOUS
  <2>2. PICK b : b = n + 1 + k
    OBVIOUS
  <2>7. n \in Nat /\ k \in Nat /\ k >= 1 /\ Len(y) = n + 1 + k /\ Len(l) = k
    <3>1. n \in Nat /\ k \in Nat /\ k >= 1
      BY <1>4
    <3>2. Len(y) = n + 1 + k /\ Len(l) = k
      BY <1>3, <1>5
    <3> QED BY <3>1, <3>2
  <2>3. /\ a \in Nat \ {0} /\ b \in Nat /\ a <= b + 1 /\ b <= Len(y) /\ k - 1 = b - a
        /\ 1 \in Nat \ {0} /\ 1 <= k + 1 /\ k <= Len(l)
    <3>1. a = n + 2 /\ b = n + 1 + k
      BY <2>1, <2>2
    <3> QED BY <2>7, <3>1
  <2>4. ASSUME NEW i \in a .. b PROVE y[i] = l[1 + (i - a)]
    <3>1. PICK m : m = 1 + (i - a)
      OBVIOUS
    <3>2. m \in 1 .. k /\ n + 1 + m = i
      BY <1>4, <2>1, <2>2, <3>1
    <3> QED BY <1>5, <3>1, <3>2
  <2>5. SubSeq(y, a, b) = SubSeq(l, 1, k)
    BY <1>4, <1>9, <2>3, <2>4, SlicesEqual
  <2>6. SubSeq(l, 1, Len(l)) = l
    BY <1>9, SubSeqFull
  <2> QED BY <1>3, <2>1, <2>2, <2>5, <2>6
<1>12. Append(acc \o l, Dot) = acc \o (l \o <<Dot>>)
  <2>1. acc \o l \in Text /\ <<Dot>> \in Text /\ (acc \o l) \o <<Dot>> = acc \o (l \o <<Dot>>)
    <3>1. l \in Text
      BY <1>4
    <3>2. acc \o l \in Text /\ <<Dot>> \in Text
      BY <3>1, TextConcat
    <3>3. (acc \o l) \o <<Dot>> = acc \o (l \o <<Dot>>)
      <4>1. PICK d \in Text : d = <<Dot>>
        BY <3>2
      <4>2. (acc \o l) \o d = acc \o (l \o d)
        BY <3>1, TextAssociative
      <4> QED BY <4>1, <4>2
    <3> QED BY <3>2, <3>3
  <2>2. Append(acc \o l, Dot) = (acc \o l) \o <<Dot>>
    <3>1. acc \o l \in Seq(Char) /\ Dot \in Char
      BY <2>1, TextFacts, Constants
    <3>2. PICK z : z = acc \o l
      OBVIOUS
    <3>3. Append(z, Dot) = z \o <<Dot>>
      BY <3>1, <3>2
    <3> QED BY <3>2, <3>3
  <2> QED BY <2>1, <2>2
<1>13. BackOne([tmp |-> y, ipAddr |-> acc])
         = [tmp |-> SubSeq(y, 1, n), ipAddr |-> Append(acc \o SubSeq(y, n + 2, Len(y)), Dot)]
  <2>1. Dots(y, 1) # {}
    BY <1>6
  <2>2. PICK p : p = n + 1
    OBVIOUS
  <2>3. PICK r : r = [tmp |-> y, ipAddr |-> acc]
    OBVIOUS
  <2>4. r.tmp = y /\ r.ipAddr = acc /\ Max(Dots(r.tmp, 1)) = p /\ Dots(r.tmp, 1) # {}
    BY <1>8, <2>1, <2>2, <2>3
  <2>5. BackOne(r) = [tmp |-> SubSeq(y, 1, p - 1), ipAddr |-> Append(acc \o SubSeq(y, p + 1, Len(y)), Dot)]
    BY <2>4 DEF BackOne
  <2>6. p - 1 = n /\ p + 1 = n + 2
    BY <1>4, <2>2
  <2> QED BY <2>3, <2>5, <2>6
<1> QED BY <1>1, <1>5, <1>10, <1>11, <1>12, <1>13

Turns(N, f) == \A n \in 1 .. N : f[n] = BackOne(f[n - 1])

\* Once there is no dot left nothing changes any more.
LEMMA BackEnds ==
    ASSUME NEW N \in Nat, NEW f, Turns(N, f), BackOne(f[0]) = f[0]
    PROVE  f[N] = f[0]
<1> DEFINE G == {n \in Nat : f[n] = f[0]}
<1>1. 0 \in G
  OBVIOUS
<1>2. ASSUME NEW k \in 0 .. N - 1, k \in G PROVE k + 1 \in G
  <2>1. k + 1 \in 1 .. N /\ (k + 1) - 1 = k /\ k + 1 \in Nat
    OBVIOUS
  <2>2. f[k + 1] = BackOne(f[k])
    BY <2>1 DEF Turns
  <2> QED BY <1>2, <2>1, <2>2
<1> HIDE DEF G
<1>3. 0 .. N \subseteq G
  BY <1>1, <1>2, Induction
<1> QED BY <1>3 DEF G

\* The loop puts the labels in reverse, behind what there is already.
Backwards(t) ==
    \A N \in Nat, acc \in Text : N >= Len(t) - 1 =>
        \A f : Turns(N, f) /\ f[0] = [tmp |-> Join(t), ipAddr |-> acc] =>
            f[N].ipAddr \o f[N].tmp = acc \o Join(Reverse(t))

LEMMA BackwardsLabel ==
    ASSUME NEW l, IsLabel(l)
    PROVE  Backwards(<<l>>)
<1> SUFFICES ASSUME NEW N \in Nat, NEW acc \in Text, NEW f, Turns(N, f),
                    f[0] = [tmp |-> Join(<<l>>), ipAddr |-> acc]
             PROVE  f[N].ipAddr \o f[N].tmp = acc \o Join(Reverse(<<l>>))
  BY DEF Backwards
<1>1. Join(<<l>>) = l
  BY JoinLabel
<1>2. f[N] = [tmp |-> l, ipAddr |-> acc]
  BY <1>1, BackLabel, BackEnds
<1>3. Reverse(<<l>>) = <<l>>
  <2>1. l \in Label /\ <<>> \in Seq(Label)
    BY DEF IsLabel
  <2>2. Reverse(<<>>) = <<>>
    BY DEF Reverse
  <2>3. Append(<<>>, l) = <<l>> /\ <<l>> \o <<>> = <<l>>
    BY <2>1
  <2>4. Reverse(Append(<<>>, l)) = <<l>> \o Reverse(<<>>)
    BY <2>1, ReverseAppend
  <2> QED BY <2>2, <2>3, <2>4
<1> QED BY <1>1, <1>2, <1>3

LEMMA BackwardsMore ==
    ASSUME NEW t, IsLabels(t), NEW l, IsLabel(l), Backwards(t)
    PROVE  Backwards(Append(t, l))
<1> SUFFICES ASSUME NEW N \in Nat, NEW acc \in Text, N >= Len(Append(t, l)) - 1,
                    NEW f, Turns(N, f), f[0] = [tmp |-> Join(Append(t, l)), ipAddr |-> acc]
             PROVE  f[N].ipAddr \o f[N].tmp = acc \o Join(Reverse(Append(t, l)))
  BY DEF Backwards
<1>1. t \in Seq(Label) /\ l \in Label /\ Len(t) \in Nat /\ Len(t) >= 1 /\ Join(t) \in Text
  BY LabelsLen DEF IsLabel
<1>2. N - 1 \in Nat /\ N - 1 >= Len(t) - 1 /\ N >= 1
  <2>1. Len(Append(t, l)) = Len(t) + 1
    BY <1>1
  <2> QED BY <1>1, <2>1
<1>3. Join(Append(t, l)) = Join(t) \o <<Dot>> \o l
  BY JoinMore
<1> DEFINE g == [i \in 0 .. N - 1 |-> f[i + 1]]
           more == acc \o (l \o <<Dot>>)
<1>4. more \in Text /\ l \in Text /\ <<Dot>> \in Text
  <2>1. l \in Text
    BY LabelFacts
  <2>2. <<Dot>> \in Text
    BY <2>1, TextConcat
  <2>3. l \o <<Dot>> \in Text
    BY <2>1, <2>2, TextConcat
  <2> QED BY <2>1, <2>2, <2>3, TextConcat
<1>5. f[1] = [tmp |-> Join(t), ipAddr |-> more]
  <2>1. 1 \in 1 .. N /\ 1 - 1 = 0
    BY <1>2
  <2>2. f[1] = BackOne(f[0])
    BY <2>1 DEF Turns
  <2>3. PICK x : x = Join(t)
    OBVIOUS
  <2>4. BackOne([tmp |-> x \o <<Dot>> \o l, ipAddr |-> acc]) = [tmp |-> x, ipAddr |-> acc \o (l \o <<Dot>>)]
    BY <1>1, <2>3, BackMore
  <2> QED BY <1>3, <2>2, <2>3, <2>4
<1>6. g[0] = [tmp |-> Join(t), ipAddr |-> more] /\ g[N - 1] = f[N]
  <2>1. 0 \in 0 .. N - 1 /\ 0 + 1 = 1 /\ N - 1 \in 0 .. N - 1 /\ (N - 1) + 1 = N
    BY <1>2
  <2> HIDE DEF more
  <2> QED BY <1>5, <2>1
<1>7. Turns(N - 1, g)
  <2> SUFFICES ASSUME NEW n \in 1 .. N - 1 PROVE g[n] = BackOne(g[n - 1])
    BY DEF Turns
  <2>1. n \in 0 .. N - 1 /\ n - 1 \in 0 .. N - 1 /\ n + 1 \in 1 .. N /\ (n - 1) + 1 = n /\ (n + 1) - 1 = n
    BY <1>2
  <2>2. g[n] = f[n + 1] /\ g[n - 1] = f[n]
    BY <2>1
  <2>3. f[n + 1] = BackOne(f[n])
    BY <2>1 DEF Turns
  <2> QED BY <2>2, <2>3
<1>8. g[N - 1].ipAddr \o g[N - 1].tmp = more \o Join(Reverse(t))
  <2> HIDE DEF g, more
  <2> QED BY <1>2, <1>4, <1>6, <1>7 DEF Backwards
<1>9. Join(Reverse(Append(t, l))) = l \o <<Dot>> \o Join(Reverse(t))
  BY <1>1, ReverseAppend, ReverseLabels, JoinFirst
<1>10. acc \o (l \o <<Dot>> \o Join(Reverse(t))) = more \o Join(Reverse(t))
  <2>1. l \o <<Dot>> \in Text
    BY <1>4, TextConcat
  <2>2. Join(Reverse(t)) \in Text
    BY ReverseLabels, LabelsLen
  <2> QED BY <2>1, <2>2, TextAssociative
<1> QED BY <1>6, <1>8, <1>9, <1>10

LEMMA BackwardsAll ==
    ASSUME NEW s, IsLabels(s)
    PROVE  Backwards(s)
<1> DEFINE G == {t \in Seq(Label) : Backwards(t)}
<1>1. ASSUME NEW l, IsLabel(l) PROVE <<l>> \in G
  <2>1. <<l>> \in Seq(Label)
    BY <1>1 DEF IsLabel
  <2> QED BY <1>1, <2>1, BackwardsLabel
<1>2. ASSUME NEW t, NEW l, IsLabels(t), IsLabel(l), t \in G PROVE Append(t, l) \in G
  <2>1. Append(t, l) \in Seq(Label)
    BY <1>2, JoinMore DEF IsLabels
  <2> QED BY <1>2, <2>1, BackwardsMore
<1> HIDE DEF G
<1>3. \A t : IsLabels(t) => t \in G
  BY <1>1, <1>2, LabelsInduction
<1> QED BY <1>3 DEF G

Hits(qname) == {i \in 1 .. Len(qname) - 1 : qname[i] = Dot /\ qname[i + 1] = Arpa}

LEMMA BackLoop ==
    ASSUME NEW start, NEW N \in Nat
    PROVE  \E t : t = [i \in 0 .. N |-> IF i = 0 THEN start ELSE BackOne(t[i - 1])]
<1> DEFINE R(m, h) == h = [i \in 0 .. m |-> IF i = 0 THEN start ELSE BackOne(h[i - 1])]
           G == {m \in Nat : \E u : R(m, u)}
<1>1. 0 \in G
  <2> DEFINE f == [i \in 0 .. 0 |-> start]
  <2>1. R(0, f)
    OBVIOUS
  <2> QED BY <2>1
<1>2. ASSUME NEW k \in 0 .. N - 1, k \in G PROVE k + 1 \in G
  <2>1. PICK f : R(k, f)
    BY <1>2
  <2> DEFINE g == [i \in 0 .. k + 1 |-> IF i = k + 1 THEN BackOne(f[k]) ELSE f[i]]
  <2>2. ASSUME NEW i \in 0 .. k + 1
        PROVE  g[i] = IF i = 0 THEN start ELSE BackOne(g[i - 1])
    <3>1. CASE i = k + 1
      <4>1. g[k] = f[k] /\ i - 1 = k /\ i # 0
        BY <3>1
      <4> QED BY <3>1, <4>1
    <3>2. CASE i # k + 1
      <4>1. i \in 0 .. k /\ g[i] = f[i] /\ (i # 0 => g[i - 1] = f[i - 1])
        BY <3>2
      <4>2. f[i] = IF i = 0 THEN start ELSE BackOne(f[i - 1])
        BY <2>1, <4>1
      <4> HIDE DEF g
      <4> QED BY <4>1, <4>2
    <3> QED BY <3>1, <3>2
  <2>3. g = [i \in 0 .. k + 1 |-> g[i]]
    OBVIOUS
  <2> HIDE DEF g
  <2>4. R(k + 1, g)
    BY <2>2, <2>3
  <2> QED BY <2>4
<1> HIDE DEF G
<1>3. 0 .. N \subseteq G
  BY <1>1, <1>2, Induction
<1> QED BY <1>3 DEF G

LEMMA BackLoopTurns ==
    ASSUME NEW start, NEW N \in Nat, NEW t,
           t = [i \in 0 .. N |-> IF i = 0 THEN start ELSE BackOne(t[i - 1])]
    PROVE  t[0] = start /\ Turns(N, t)
BY DEF Turns

LEMMA GetIpLoop ==
    ASSUME NEW qname, NEW N \in Nat, N = Len(qname)
    PROVE  \E t : /\ t[0] = [tmp |-> SubSeq(qname, 1, Min(Hits(qname)) - 1), ipAddr |-> <<>>]
                  /\ Turns(N, t)
                  /\ GetIpAddrFromQname(qname) =
                        IF Hits(qname) = {} THEN <<>> ELSE t[N].ipAddr \o t[N].tmp
<1> DEFINE start == [tmp |-> SubSeq(qname, 1, Min(Hits(qname)) - 1), ipAddr |-> <<>>]
           R(m, h) == h = [i \in 0 .. m |-> IF i = 0 THEN start ELSE BackOne(h[i - 1])]
           turn == CHOOSE u : R(Len(qname), u)
<1>1. R(N, turn)
  <2>1. \E u : R(Len(qname), u)
    <3> HIDE DEF start
    <3>1. Len(qname) \in Nat
      OBVIOUS
    <3>2. \E t : t = [i \in 0 .. Len(qname) |-> IF i = 0 THEN start ELSE BackOne(t[i - 1])]
      BY <3>1, BackLoop, ZenonT(60)
    <3> QED BY <3>2
  <2>2. R(Len(qname), turn)
    BY <2>1
  <2> HIDE DEF turn
  <2> QED BY <2>2
<1>2. GetIpAddrFromQname(qname) = IF Hits(qname) = {} THEN <<>> ELSE turn[N].ipAddr \o turn[N].tmp
  <2>1. GetIpAddrFromQname(qname) =
          IF Hits(qname) = {} THEN <<>> ELSE turn[Len(qname)].ipAddr \o turn[Len(qname)].tmp
    BY DEF GetIpAddrFromQname, BackOne, Hits
  <2> HIDE DEF turn
  <2> QED BY <2>1
<1> HIDE DEF turn
<1>3. turn[0] = start /\ Turns(N, turn)
  <2> HIDE DEF start
  <2> QED BY <1>1, BackLoopTurns
<1> QED BY <1>2, <1>3

LEMMA HitsMore ==
    ASSUME NEW x, Proper(x), Hits(x) = {}, NEW l, IsLabel(l)
    PROVE  Hits(x \o <<Dot>> \o l) = IF l[1] = Arpa THEN {Len(x) + 1} ELSE {}
<1>1. PICK y : y = x \o <<Dot>> \o l
  OBVIOUS
<1>2. PICK n : n = Len(x)
  OBVIOUS
<1>3. PICK k : k = Len(l)
  OBVIOUS
<1>4. n \in Nat /\ k \in Nat /\ n >= 1 /\ k >= 1
  <2>1. x \in Text /\ x # <<>>
    BY DEF Proper
  <2>2. Len(x) \in Nat \ {0}
    BY <2>1, EmptySeq DEF Text
  <2> QED BY <1>2, <1>3, <2>2, LabelFacts
<1>5. x \in Text /\ l \in Text /\ \A i \in 1 .. k : l[i] # Dot
  BY <1>3, LabelFacts DEF Proper
<1>6. /\ Len(y) = n + 1 + k
      /\ \A i \in 1 .. n : y[i] = x[i]
      /\ y[n + 1] = Dot
      /\ \A i \in 1 .. k : y[n + 1 + i] = l[i]
  BY <1>1, <1>2, <1>3, <1>5, DotJoin, ZenonT(60)
<1>7. ASSUME NEW i \in Hits(y) PROVE i = n + 1
  <2>1. i \in 1 .. n + k /\ y[i] = Dot /\ y[i + 1] = Arpa
    BY <1>4, <1>6 DEF Hits
  <2>2. CASE i \in 1 .. n - 1
    <3>1. i \in 1 .. n /\ i + 1 \in 1 .. n /\ i \in 1 .. Len(x) - 1
      BY <1>2, <1>4, <2>2
    <3>2. x[i] = Dot /\ x[i + 1] = Arpa
      BY <1>6, <2>1, <3>1
    <3> QED BY <3>1, <3>2 DEF Hits
  <2>3. CASE i = n
    <3>1. n \in 1 .. n /\ x[n] # Dot
      BY <1>2, <1>4 DEF Proper
    <3> QED BY <1>6, <2>1, <2>3, <3>1
  <2>4. CASE i \in n + 2 .. n + k
    <3>1. PICK m : m = i - (n + 1)
      OBVIOUS
    <3>2. m \in 1 .. k /\ n + 1 + m = i
      BY <1>4, <2>4, <3>1
    <3> QED BY <1>5, <1>6, <2>1, <3>2
  <2> QED BY <1>4, <2>1, <2>2, <2>3, <2>4
<1>8. n + 1 \in Hits(y) <=> l[1] = Arpa
  <2>1. n + 1 \in 1 .. Len(y) - 1 /\ 1 \in 1 .. k
    BY <1>4, <1>6
  <2>2. (n + 1) + 1 = n + 1 + 1
    BY <1>4
  <2>3. y[(n + 1) + 1] = l[1]
    BY <1>6, <2>1, <2>2
  <2> QED BY <1>6, <2>1, <2>3 DEF Hits
<1> QED BY <1>1, <1>2, <1>7, <1>8

\* No label behind a dot begins as "in-addr.arpa" does.
NoArpa(s) == \A j \in 2 .. Len(s) : s[j][1] # Arpa

LEMMA HitsNone ==
    ASSUME NEW s, IsLabels(s), NoArpa(s)
    PROVE  Hits(Join(s)) = {}
<1> DEFINE G == {t \in Seq(Label) : NoArpa(t) => Hits(Join(t)) = {}}
<1>1. ASSUME NEW l, IsLabel(l) PROVE <<l>> \in G
  <2>1. <<l>> \in Seq(Label)
    BY <1>1 DEF IsLabel
  <2>2. \A i \in 1 .. Len(l) - 1 : l[i] # Dot
    BY <1>1, LabelFacts
  <2> QED BY <1>1, <2>1, <2>2, JoinLabel DEF Hits
<1>2. ASSUME NEW t, NEW l, IsLabels(t), IsLabel(l), t \in G PROVE Append(t, l) \in G
  <2>1. Append(t, l) \in Seq(Label)
    BY <1>2, JoinMore DEF IsLabels
  <2>2. ASSUME NoArpa(Append(t, l)) PROVE NoArpa(t) /\ l[1] # Arpa
    <3>1. t \in Seq(Label) /\ Len(t) \in Nat /\ Len(t) >= 1 /\ l \in Label
      BY <1>2, LabelsLen DEF IsLabel
    <3>2. PICK s1 : s1 = Append(t, l)
      OBVIOUS
    <3>3. Len(s1) = Len(t) + 1 /\ s1[Len(t) + 1] = l /\ \A i \in 1 .. Len(t) : s1[i] = t[i]
      BY <3>1, <3>2
    <3>4. Len(t) + 1 \in 2 .. Len(s1) /\ \A i \in 2 .. Len(t) : i \in 2 .. Len(s1) /\ i \in 1 .. Len(t)
      BY <3>1, <3>3
    <3> QED BY <2>2, <3>2, <3>3, <3>4 DEF NoArpa
  <2>3. ASSUME NoArpa(Append(t, l)) PROVE Hits(Join(Append(t, l))) = {}
    <3>1. Hits(Join(t)) = {}
      BY <1>2, <2>2, <2>3
    <3>2. Proper(Join(t))
      BY <1>2, ProperJoin
    <3>3. Join(Append(t, l)) = Join(t) \o <<Dot>> \o l
      BY <1>2, JoinMore
    <3>4. Hits(Join(t) \o <<Dot>> \o l) = {}
      BY <1>2, <2>2, <2>3, <3>1, <3>2, HitsMore
    <3> QED BY <3>3, <3>4
  <2> QED BY <2>1, <2>3
<1> HIDE DEF G
<1>3. \A t : IsLabels(t) => t \in G
  BY <1>1, <1>2, LabelsInduction
<1> QED BY <1>3 DEF G

LEMMA ArpaLabel == IsLabel(<<Arpa>>)
<1>1. <<Arpa>> \in Label /\ <<Arpa>> # <<>> /\ Len(<<Arpa>>) = 1 /\ LabelLimit > 1
  <2>1. Arpa \in 1 .. ByteRange - 1 /\ LabelLimit > 1
    BY DnsMessageAssumption
  <2> QED BY <2>1 DEF Label
<1>2. Dot \notin Range(<<Arpa>>)
  BY Constants DEF Range
<1> QED BY <1>1, <1>2 DEF IsLabel

LEMMA ArpaHit ==
    ASSUME NEW x \in Text
    PROVE  Len(x) + 1 \in Hits(x \o <<Dot>> \o <<Arpa>>)
<1>1. <<Arpa>> \in Text /\ Len(<<Arpa>>) = 1 /\ <<Arpa>>[1] = Arpa
  BY ArpaLabel, LabelFacts
<1>2. PICK y : y = x \o <<Dot>> \o <<Arpa>>
  OBVIOUS
<1>3. PICK n : n = Len(x)
  OBVIOUS
<1>4. n \in Nat /\ Len(y) = n + 1 + 1 /\ y[n + 1] = Dot /\ \A i \in 1 .. 1 : y[n + 1 + i] = <<Arpa>>[i]
  BY <1>1, <1>2, <1>3, DotJoin, TextFacts
<1>5. y[n + 1 + 1] = Arpa /\ n + 1 \in 1 .. Len(y) - 1
  BY <1>1, <1>4
<1> QED BY <1>2, <1>3, <1>4, <1>5 DEF Hits

LEMMA GetIpNone ==
    ASSUME NEW s, IsLabels(s), NoArpa(s)
    PROVE  GetIpAddrFromQname(Join(s)) = <<>>
<1>1. PICK q : q = Join(s)
  OBVIOUS
<1>2. Hits(q) = {} /\ Len(q) \in Nat
  BY <1>1, HitsNone, LabelsLen
<1>3. PICK N : N = Len(q)
  OBVIOUS
<1>4. \E t : GetIpAddrFromQname(q) = IF Hits(q) = {} THEN <<>> ELSE t[N].ipAddr \o t[N].tmp
  BY <1>2, <1>3, GetIpLoop
<1> QED BY <1>1, <1>2, <1>4

\* What GetIpAddrFromQname makes of the name of an address.
LEMMA GetIpReverse ==
    ASSUME NEW s, IsLabels(s), NoArpa(s)
    PROVE  GetIpAddrFromQname(Join(Append(s, <<Arpa>>))) = Join(Reverse(s))
<1>1. PICK x : x = Join(s)
  OBVIOUS
<1>2. PICK q : q = Join(Append(s, <<Arpa>>))
  OBVIOUS
<1>3. q = x \o <<Dot>> \o <<Arpa>> /\ Proper(x) /\ x \in Text /\ Len(x) \in Nat /\ Len(s) \in Nat /\ Len(s) <= Len(x)
  BY <1>1, <1>2, ArpaLabel, JoinMore, ProperJoin, LabelsLen
<1>4. <<Arpa>> \in Text /\ Len(<<Arpa>>) = 1 /\ <<Arpa>>[1] = Arpa
  BY ArpaLabel, LabelFacts
<1>5. Hits(q) = {Len(x) + 1}
  BY <1>1, <1>3, <1>4, HitsNone, HitsMore, ArpaLabel
<1>6. Min(Hits(q)) = Len(x) + 1
  <2>1. PICK m : m = Min(Hits(q))
    OBVIOUS
  <2>4. Len(x) + 1 \in Nat
    BY <1>3
  <2>2. Hits(q) \subseteq Nat /\ Hits(q) # {}
    BY <1>5, <2>4
  <2>3. m \in Hits(q)
    BY <2>1, <2>2, MinIs
  <2> QED BY <1>5, <2>1, <2>3
<1>7. /\ q \in Text /\ Len(q) = Len(x) + 1 + 1
      /\ \A i \in 1 .. Len(x) : q[i] = x[i]
  BY <1>3, <1>4, DotJoin
<1>8. SubSeq(q, 1, Len(x)) = x
  <2>1. x \in Seq(Char) /\ q \in Seq(Char)
    BY <1>3, <1>7, TextFacts
  <2>2. PICK n : n = Len(x)
    OBVIOUS
  <2>6. n \in Nat /\ Len(x) = n /\ Len(q) = n + 1 + 1
    BY <1>3, <1>7, <2>2
  <2>3. n \in Nat /\ 1 \in Nat \ {0} /\ 1 <= n + 1 /\ n <= Len(q) /\ n <= Len(x) /\ n - 1 = n - 1
    BY <2>6
  <2>4. \A i \in 1 .. n : q[i] = x[1 + (i - 1)]
    <3>1. \A i \in 1 .. n : 1 + (i - 1) = i
      OBVIOUS
    <3> QED BY <1>7, <2>2, <3>1
  <2>5. SubSeq(q, 1, n) = SubSeq(x, 1, n)
    BY <2>1, <2>3, <2>4, SlicesEqual
  <2> QED BY <2>1, <2>2, <2>5, SubSeqFull
<1>9. PICK N : N = Len(q)
  OBVIOUS
<1>10. N \in Nat /\ N >= Len(s) - 1
  BY <1>3, <1>7, <1>9
<1>11. \E t : /\ t[0] = [tmp |-> SubSeq(q, 1, Min(Hits(q)) - 1), ipAddr |-> <<>>]
              /\ Turns(N, t)
              /\ GetIpAddrFromQname(q) =
                    IF Hits(q) = {} THEN <<>> ELSE t[N].ipAddr \o t[N].tmp
  BY <1>9, <1>10, GetIpLoop
<1>12. Min(Hits(q)) - 1 = Len(x)
  <2>1. Len(x) \in Nat
    BY <1>3
  <2>2. (Len(x) + 1) - 1 = Len(x)
    BY <2>1
  <2> QED BY <1>6, <2>2
<1>13. PICK f : /\ f[0] = [tmp |-> Join(s), ipAddr |-> <<>>] /\ Turns(N, f)
                /\ GetIpAddrFromQname(q) = f[N].ipAddr \o f[N].tmp
  BY <1>1, <1>5, <1>8, <1>11, <1>12
<1>14. <<>> \in Text /\ Backwards(s)
  BY BackwardsAll DEF Text
<1>15. f[N].ipAddr \o f[N].tmp = <<>> \o Join(Reverse(s))
  BY <1>10, <1>13, <1>14 DEF Backwards
<1>16. <<>> \o Join(Reverse(s)) = Join(Reverse(s))
  <2>1. Join(Reverse(s)) \in Text
    BY ReverseLabels, LabelsLen
  <2> QED BY <2>1, TextConcat
<1> QED BY <1>2, <1>13, <1>15, <1>16

\* Texts that are equal are equal in reverse.
LEMMA ReverseText ==
    ASSUME NEW a, IsLabels(a), NEW b, IsLabels(b), Join(a) = Join(b)
    PROVE  Join(Reverse(a)) = Join(Reverse(b))
<1>1. PICK N : N = Len(a) + Len(b)
  OBVIOUS
<1>2. N \in Nat /\ N >= Len(a) - 1 /\ N >= Len(b) - 1
  BY <1>1, LabelsLen
<1>3. PICK start : start = [tmp |-> Join(a), ipAddr |-> <<>>]
  OBVIOUS
<1>4. PICK f : f[0] = start /\ Turns(N, f)
  <2>1. PICK f : f = [i \in 0 .. N |-> IF i = 0 THEN start ELSE BackOne(f[i - 1])]
    BY <1>2, BackLoop
  <2>2. f[0] = start /\ Turns(N, f)
    BY <1>2, <2>1, BackLoopTurns
  <2> QED BY <2>2
<1>5. <<>> \in Text
  BY DEF Text
<1>6. f[N].ipAddr \o f[N].tmp = <<>> \o Join(Reverse(a))
  BY <1>2, <1>3, <1>4, <1>5, BackwardsAll DEF Backwards
<1>7. f[N].ipAddr \o f[N].tmp = <<>> \o Join(Reverse(b))
  BY <1>2, <1>3, <1>4, <1>5, BackwardsAll DEF Backwards
<1>8. \A s : IsLabels(s) => Join(Reverse(s)) \in Text
  BY ReverseLabels, LabelsLen
<1>9. \A s : IsLabels(s) => <<>> \o Join(Reverse(s)) = Join(Reverse(s))
  BY <1>8, TextConcat
<1> QED BY <1>6, <1>7, <1>9

LEMMA SameFront ==
    ASSUME NEW x \in Text, NEW y \in Text, NEW l \in Text, x \o <<Dot>> \o l = y \o <<Dot>> \o l
    PROVE  x = y
<1>1. x \in Seq(Char) /\ y \in Seq(Char) /\ l \in Seq(Char) /\ <<Dot>> \in Seq(Char)
      /\ x \o <<Dot>> \in Seq(Char) /\ y \o <<Dot>> \in Seq(Char)
  <2>1. <<Dot>> \in Text
    BY TextConcat
  <2> QED BY <2>1, TextConcat, TextFacts
<1>2. x \o <<Dot>> = y \o <<Dot>>
  BY <1>1, ConcatSimplifications
<1> QED BY <1>1, <1>2, ConcatSimplifications

(***************************************************************************)
(* The records file, and the names that are asked for.                     *)
(***************************************************************************)
LEMMA RecordFacts ==
    /\ Records \subseteq Nat
    /\ \A i \in Records :
          IsLabels(Line[i].addr) /\ IsLabels(Line[i].name) /\ NoArpa(Line[i].name)
<1>1. Line \in Seq([addr : Seq(Label), name : Seq(Label)])
  BY DnsAssumption
<1>2. DOMAIN Line = 1 .. Len(Line)
  BY <1>1, LenProperties
<1>3. Records \subseteq Nat
  BY <1>2 DEF Records
<1> QED BY <1>3, DnsAssumption DEF NoArpa

\* The labels s are those of the name of an address, or of no such name.
Plain(s) == IsLabels(s) /\ NoArpa(s)

LEMMA SplitLast ==
    ASSUME NEW s, IsLabels(s), Len(s) > 1
    PROVE  \E t : /\ IsLabels(t) /\ Len(t) = Len(s) - 1 /\ s = Append(t, s[Len(s)])
                  /\ \A i \in 1 .. Len(t) : t[i] = s[i]
<1> DEFINE G == {r \in Seq(Label) : Len(r) > 1 =>
                   \E t : /\ IsLabels(t) /\ Len(t) = Len(r) - 1 /\ r = Append(t, r[Len(r)])
                          /\ \A i \in 1 .. Len(t) : t[i] = r[i]}
<1>1. ASSUME NEW l, IsLabel(l) PROVE <<l>> \in G
  <2>1. <<l>> \in Seq(Label) /\ Len(<<l>>) = 1
    BY <1>1 DEF IsLabel
  <2> QED BY <2>1
<1>2. ASSUME NEW v, NEW l, IsLabels(v), IsLabel(l), v \in G PROVE Append(v, l) \in G
  <2>1. v \in Seq(Label) /\ l \in Label /\ Len(v) \in Nat
    BY <1>2, LabelsLen DEF IsLabel
  <2>2. PICK r : r = Append(v, l)
    OBVIOUS
  <2>3. r \in Seq(Label) /\ Len(r) = Len(v) + 1 /\ r[Len(v) + 1] = l /\ \A i \in 1 .. Len(v) : v[i] = r[i]
    BY <2>1, <2>2
  <2>4. Len(v) = Len(r) - 1 /\ r = Append(v, r[Len(r)])
    BY <2>1, <2>2, <2>3
  <2> QED BY <1>2, <2>2, <2>3, <2>4
<1> HIDE DEF G
<1>3. \A r : IsLabels(r) => r \in G
  BY <1>1, <1>2, LabelsInduction
<1> QED BY <1>3 DEF G

LEMMA NameShape ==
    ASSUME NEW name \in Names
    PROVE  \/ \E s : Plain(s) /\ name = Join(s)
           \/ \E t : Plain(t) /\ name = Join(Append(t, <<Arpa>>))
<1>1. PICK c \in Client : name \in Range(Asked[c])
  BY DEF Names
<1>2. Argv[c] \in Seq(Seq(Label))
  BY DnsAssumption
<1>3. Asked[c] = [i \in DOMAIN Argv[c] |-> Join(Argv[c][i])]
  BY DEF Asked
<1>4. PICK i \in DOMAIN Argv[c] : name = Join(Argv[c][i])
  BY <1>1, <1>3 DEF Range
<1>5. PICK s : s = Argv[c][i]
  OBVIOUS
<1>6. /\ IsLabels(s)
      /\ \A j \in 2 .. Len(s) : s[j][1] = Arpa => j = Len(s) /\ Len(s[j]) = 1
  BY <1>5, DnsAssumption
<1>7. CASE NoArpa(s)
  BY <1>4, <1>5, <1>6, <1>7 DEF Plain
<1>8. CASE ~NoArpa(s)
  <2>1. PICK j \in 2 .. Len(s) : s[j][1] = Arpa
    BY <1>8 DEF NoArpa
  <2>2. j = Len(s) /\ Len(s[j]) = 1
    BY <1>6, <2>1
  <2>3. Len(s) \in Nat /\ Len(s) > 1 /\ j \in 1 .. Len(s)
    BY <1>6, <2>1, <2>2, LabelsLen
  <2>4. IsLabel(s[j])
    BY <1>6, <2>3, LabelsAre
  <2>5. s[j] = <<Arpa>>
    <3>1. s[j] \in Seq(Char) /\ <<Arpa>> \in Seq(Char) /\ Len(<<Arpa>>) = 1 /\ <<Arpa>>[1] = Arpa
      BY <2>4, LabelFacts, TextFacts, Constants
    <3>2. \A k \in 1 .. Len(s[j]) : s[j][k] = <<Arpa>>[k]
      BY <2>1, <2>2, <3>1
    <3> QED BY <2>2, <3>1, <3>2, SeqEqual
  <2>6. PICK t : /\ IsLabels(t) /\ Len(t) = Len(s) - 1 /\ s = Append(t, s[Len(s)])
                 /\ \A k \in 1 .. Len(t) : t[k] = s[k]
    BY <1>6, <2>3, SplitLast
  <2>7. NoArpa(t)
    <3> SUFFICES ASSUME NEW k \in 2 .. Len(t), t[k][1] = Arpa PROVE FALSE
      BY DEF NoArpa
    <3>1. k \in 1 .. Len(t) /\ k \in 2 .. Len(s) /\ k # Len(s)
      BY <2>3, <2>6
    <3> QED BY <1>6, <2>6, <3>1
  <2> QED BY <1>4, <1>5, <2>2, <2>5, <2>6, <2>7 DEF Plain
<1> QED BY <1>7, <1>8

Ptr(name) == {i \in Records : Join(Append(Reverse(Line[i].addr), <<Arpa>>)) = name}
Dom(name) == {i \in Records : Join(Line[i].name) = name}

LEMMA PtrHit ==
    ASSUME NEW name, NEW i \in Ptr(name)
    PROVE  Hits(name) # {}
<1>1. i \in Records /\ Join(Append(Reverse(Line[i].addr), <<Arpa>>)) = name
  BY DEF Ptr
<1>2. IsLabels(Reverse(Line[i].addr))
  BY <1>1, RecordFacts, ReverseLabels
<1>3. Join(Append(Reverse(Line[i].addr), <<Arpa>>)) = Join(Reverse(Line[i].addr)) \o <<Dot>> \o <<Arpa>>
  BY <1>2, JoinMore, ArpaLabel
<1>4. Join(Reverse(Line[i].addr)) \in Text
  BY <1>2, LabelsLen
<1> QED BY <1>1, <1>3, <1>4, ArpaHit

\* What DNSResolver::process looks up.
Rdata(name) ==
    LET ipAddr == GetIpAddrFromQname(name)
    IN  IF ipAddr # <<>> THEN FindDomainName(ipAddr) ELSE FindAddress(name)

LEMMA RdataPlain ==
    ASSUME NEW s, Plain(s)
    PROVE  Rdata(Join(s)) = Expected(Join(s))
<1>1. PICK name : name = Join(s)
  OBVIOUS
<1>2. GetIpAddrFromQname(name) = <<>> /\ Hits(name) = {}
  BY <1>1, GetIpNone, HitsNone DEF Plain
<1>3. Ptr(name) = {}
  BY <1>2, PtrHit
<1>4. Rdata(name) = IF Dom(name) = {} THEN <<>> ELSE Join(Line[Min(Dom(name))].addr)
  BY <1>2 DEF Rdata, FindAddress, Dom
<1>5. Expected(name) = IF Dom(name) = {} THEN <<>> ELSE Join(Line[Min(Dom(name))].addr)
  BY <1>3 DEF Expected, Dom, Ptr
<1> QED BY <1>1, <1>4, <1>5

LEMMA RdataArpa ==
    ASSUME NEW t, Plain(t)
    PROVE  Rdata(Join(Append(t, <<Arpa>>))) = Expected(Join(Append(t, <<Arpa>>)))
<1>1. PICK name : name = Join(Append(t, <<Arpa>>))
  OBVIOUS
<1>2. PICK back : back = Join(Reverse(t))
  OBVIOUS
<1>3. IsLabels(t) /\ NoArpa(t)
  BY DEF Plain
<1>4. GetIpAddrFromQname(name) = back /\ back # <<>>
  BY <1>1, <1>2, <1>3, GetIpReverse, ReverseLabels, LabelsLen
<1>5. name = Join(t) \o <<Dot>> \o <<Arpa>> /\ Join(t) \in Text /\ <<Arpa>> \in Text
  BY <1>1, <1>3, JoinMore, ArpaLabel, LabelsLen, LabelFacts
<1>6. Hits(name) # {}
  BY <1>5, ArpaHit
<1>7. Dom(name) = {}
  <2> SUFFICES ASSUME NEW i \in Dom(name) PROVE FALSE
    OBVIOUS
  <2>1. i \in Records /\ Join(Line[i].name) = name
    BY DEF Dom
  <2>2. Hits(Join(Line[i].name)) = {}
    BY <2>1, RecordFacts, HitsNone
  <2> QED BY <1>6, <2>1, <2>2
<1>8. ASSUME NEW i \in Records
      PROVE  Join(Line[i].addr) = back <=> Join(Append(Reverse(Line[i].addr), <<Arpa>>)) = name
  <2>1. PICK a : a = Line[i].addr
    OBVIOUS
  <2>2. IsLabels(a) /\ IsLabels(Reverse(a)) /\ Reverse(Reverse(a)) = a
    BY <2>1, RecordFacts, ReverseLabels
  <2>3. IsLabels(Reverse(t)) /\ Reverse(Reverse(t)) = t
    BY <1>3, ReverseLabels
  <2>4. Join(Append(Reverse(a), <<Arpa>>)) = Join(Reverse(a)) \o <<Dot>> \o <<Arpa>> /\ Join(Reverse(a)) \in Text
    BY <2>2, JoinMore, ArpaLabel, LabelsLen
  <2>5. ASSUME Join(a) = back PROVE Join(Append(Reverse(a), <<Arpa>>)) = name
    <3>1. Join(Reverse(a)) = Join(Reverse(Reverse(t)))
      BY <1>2, <2>2, <2>3, <2>5, ReverseText
    <3> QED BY <1>5, <2>3, <2>4, <3>1
  <2>6. ASSUME Join(Append(Reverse(a), <<Arpa>>)) = name PROVE Join(a) = back
    <3>1. Join(Reverse(a)) \o <<Dot>> \o <<Arpa>> = Join(t) \o <<Dot>> \o <<Arpa>>
      BY <1>5, <2>4, <2>6
    <3>2. Join(Reverse(a)) = Join(t)
      BY <1>5, <2>4, <3>1, SameFront
    <3>3. Join(Reverse(Reverse(a))) = Join(Reverse(t))
      BY <1>3, <2>2, <3>2, ReverseText
    <3> QED BY <1>2, <2>2, <3>3
  <2> QED BY <2>1, <2>5, <2>6
<1>9. {i \in Records : Join(Line[i].addr) = back} = Ptr(name)
  BY <1>8 DEF Ptr
<1>10. Rdata(name) = IF Ptr(name) = {} THEN <<>> ELSE Join(Line[Min(Ptr(name))].name)
  BY <1>4, <1>9 DEF Rdata, FindDomainName
<1>11. Expected(name) = IF Ptr(name) = {} THEN <<>> ELSE Join(Line[Min(Ptr(name))].name)
  BY <1>7 DEF Expected, Dom, Ptr
<1> QED BY <1>1, <1>10, <1>11

\* What DNSResolver::process finds for a name, through the reversal of what is
\* before ".in-addr.arpa", is what the records say of it in terms of labels; and
\* that is a text that the codecs take.
THEOREM RdataIs ==
    ASSUME NEW name \in Names
    PROVE  Rdata(name) = Expected(name) /\ (Expected(name) = <<>> \/ Proper(Expected(name)))
<1>1. Rdata(name) = Expected(name)
  BY NameShape, RdataPlain, RdataArpa
<1>2. Ptr(name) \subseteq Nat /\ Dom(name) \subseteq Nat
  BY RecordFacts DEF Ptr, Dom
<1>3. CASE Ptr(name) # {}
  <2>1. Min(Ptr(name)) \in Ptr(name)
    BY <1>2, <1>3, MinIs
  <2>2. Min(Ptr(name)) \in Records
    BY <2>1 DEF Ptr
  <2>3. Expected(name) = Join(Line[Min(Ptr(name))].name)
    BY <1>3 DEF Expected, Ptr
  <2> QED BY <1>1, <2>2, <2>3, RecordFacts, ProperJoin
<1>4. CASE Ptr(name) = {} /\ Dom(name) # {}
  <2>1. Min(Dom(name)) \in Dom(name)
    BY <1>2, <1>4, MinIs
  <2>2. Min(Dom(name)) \in Records
    BY <2>1 DEF Dom
  <2>3. Expected(name) = Join(Line[Min(Dom(name))].addr)
    BY <1>4 DEF Expected, Ptr, Dom
  <2> QED BY <1>1, <2>2, <2>3, RecordFacts, ProperJoin
<1>5. CASE Ptr(name) = {} /\ Dom(name) = {}
  <2>1. Expected(name) = <<>>
    BY <1>5 DEF Expected, Ptr, Dom
  <2> QED BY <1>1, <2>1
<1> QED BY <1>3, <1>4, <1>5

LEMMA ProperName ==
    ASSUME NEW name \in Names
    PROVE  Proper(name)
<1>1. ASSUME NEW s, Plain(s), name = Join(s) PROVE Proper(name)
  BY <1>1, ProperJoin DEF Plain
<1>2. ASSUME NEW t, Plain(t), name = Join(Append(t, <<Arpa>>)) PROVE Proper(name)
  <2>1. IsLabels(Append(t, <<Arpa>>))
    BY <1>2, JoinMore, ArpaLabel DEF Plain
  <2> QED BY <1>2, <2>1, ProperJoin
<1> QED BY <1>1, <1>2, NameShape

(***************************************************************************)
(* What stands in a message.                                               *)
(***************************************************************************)
Message == Seq(Nat)

Placed(msg, p, s) ==
    /\ p + Len(s) - 1 <= Len(msg)
    /\ \A i \in 1 .. Len(s) : msg[p + i - 1] = s[i]

LEMMA PlacedLeft ==
    ASSUME NEW a \in Message, NEW b \in Message, NEW s \in Message, NEW p \in Nat \ {0}, Placed(a, p, s)
    PROVE  Placed(a \o b, p, s)
<1>1. a \in Seq(Nat) /\ b \in Seq(Nat) /\ Len(a) \in Nat /\ Len(b) \in Nat /\ Len(s) \in Nat
  BY DEF Message
<1>2. /\ Len(a \o b) = Len(a) + Len(b)
      /\ \A i \in 1 .. Len(a) + Len(b) : (a \o b)[i] = IF i <= Len(a) THEN a[i] ELSE b[i - Len(a)]
  BY <1>1, ConcatProperties
<1>3. p \in Nat /\ p >= 1 /\ p + Len(s) - 1 <= Len(a)
  BY DEF Placed
<1>4. p + Len(s) - 1 <= Len(a \o b)
  BY <1>1, <1>2, <1>3
<1>5. ASSUME NEW i \in 1 .. Len(s) PROVE (a \o b)[p + i - 1] = s[i]
  <2>1. PICK k : k = p + i - 1
    OBVIOUS
  <2>2. k \in 1 .. Len(a) + Len(b) /\ k <= Len(a)
    BY <1>1, <1>3, <2>1
  <2>3. (a \o b)[k] = a[k] /\ a[k] = s[i]
    BY <1>2, <2>1, <2>2 DEF Placed
  <2> QED BY <2>1, <2>3
<1> QED BY <1>4, <1>5 DEF Placed

LEMMA PlacedRight ==
    ASSUME NEW a \in Message, NEW b \in Message, NEW p \in Nat, p = Len(a) + 1
    PROVE  Placed(a \o b, p, b)
<1>1. a \in Seq(Nat) /\ b \in Seq(Nat) /\ Len(a) \in Nat /\ Len(b) \in Nat
  BY DEF Message
<1>2. /\ Len(a \o b) = Len(a) + Len(b)
      /\ \A i \in 1 .. Len(a) + Len(b) : (a \o b)[i] = IF i <= Len(a) THEN a[i] ELSE b[i - Len(a)]
  BY <1>1, ConcatProperties
<1>3. p + Len(b) - 1 <= Len(a \o b)
  BY <1>1, <1>2
<1>4. ASSUME NEW i \in 1 .. Len(b) PROVE (a \o b)[p + i - 1] = b[i]
  <2>1. PICK k : k = p + i - 1
    OBVIOUS
  <2>2. k \in 1 .. Len(a) + Len(b) /\ ~(k <= Len(a)) /\ k - Len(a) = i
    BY <1>1, <2>1
  <2> QED BY <1>2, <2>1, <2>2
<1> QED BY <1>3, <1>4 DEF Placed

LEMMA MessageConcat ==
    ASSUME NEW a \in Message, NEW b \in Message
    PROVE  a \o b \in Message /\ Len(a \o b) = Len(a) + Len(b) /\ Len(a) \in Nat /\ Len(b) \in Nat
BY ConcatProperties DEF Message

\* The pieces of a message: the last one, and those of what is before it.
LEMMA PlacedConcat ==
    ASSUME NEW a \in Message, NEW b \in Message
    PROVE  /\ a \o b \in Message /\ Len(a \o b) = Len(a) + Len(b) /\ Len(a) \in Nat /\ Len(b) \in Nat
           /\ Placed(a \o b, Len(a) + 1, b)
           /\ \A p \in Nat \ {0}, s \in Message : Placed(a, p, s) => Placed(a \o b, p, s)
<1>1. Len(a) + 1 \in Nat
  BY MessageConcat
<1>2. Placed(a \o b, Len(a) + 1, b)
  BY <1>1, PlacedRight
<1> QED BY <1>2, PlacedLeft, MessageConcat

LEMMA PlacedSelf ==
    ASSUME NEW a \in Message
    PROVE  Placed(a, 1, a)
<1>1. Len(a) \in Nat /\ 1 + Len(a) - 1 <= Len(a) /\ \A i \in 1 .. Len(a) : 1 + i - 1 = i
  BY DEF Message
<1> QED BY <1>1 DEF Placed

LEMMA PlacedSlice ==
    ASSUME NEW msg \in Message, NEW p \in Nat \ {0}, NEW s \in Message, Placed(msg, p, s)
    PROVE  SubSeq(msg, p, p + Len(s) - 1) = s
<1>1. msg \in Seq(Nat) /\ s \in Seq(Nat) /\ Len(s) \in Nat /\ Len(msg) \in Nat
  BY DEF Message
<1>2. PICK q : q = p + Len(s) - 1
  OBVIOUS
<1>3. /\ q \in Nat /\ p <= q + 1 /\ q <= Len(msg) /\ 1 \in Nat \ {0} /\ 1 <= Len(s) + 1
      /\ Len(s) <= Len(s) /\ Len(s) - 1 = q - p
  BY <1>1, <1>2 DEF Placed
<1>4. ASSUME NEW i \in p .. q PROVE msg[i] = s[1 + (i - p)]
  <2>1. PICK k : k = 1 + (i - p)
    OBVIOUS
  <2>2. k \in 1 .. Len(s) /\ p + k - 1 = i
    BY <1>1, <1>2, <2>1
  <2>3. msg[p + k - 1] = s[k]
    BY <2>2 DEF Placed
  <2> QED BY <2>1, <2>2, <2>3
<1>5. SubSeq(msg, p, q) = SubSeq(s, 1, Len(s))
  BY <1>1, <1>3, <1>4, SlicesEqual, SMTT(30)
<1> QED BY <1>1, <1>2, <1>5, SubSeqFull

LEMMA PlacedName ==
    ASSUME NEW msg \in Message, NEW p \in Nat \ {0}, NEW name, Proper(name),
           Placed(msg, p, EncodeDomainName(name))
    PROVE  Holds(msg, p, name)
<1>1. Len(EncodeDomainName(name)) = Len(name) + 2 /\ Len(name) \in Nat
  BY EncodeType, TextFacts DEF Proper
<1>2. p + Len(name) + 1 <= Len(msg)
  <2>1. p + Len(EncodeDomainName(name)) - 1 <= Len(msg)
    BY DEF Placed
  <2>2. p + (Len(name) + 2) - 1 = p + Len(name) + 1
    BY <1>1
  <2> QED BY <1>1, <2>1, <2>2
<1> QED BY <1>1, <1>2 DEF Holds, Placed

(***************************************************************************)
(* Names in messages are read as they were written.                        *)
(***************************************************************************)
LEMMA DecodeNameAt ==
    ASSUME NEW msg \in Message, NEW p \in Nat \ {0}, NEW name, Proper(name),
           Placed(msg, p, EncodeDomainName(name))
    PROVE  DecodeName(msg, p) = [name |-> name, next |-> p + Len(name) + 2]
<1>1. Ends({0})
  BY Constants DEF Ends
<1>2. ReadLabels(msg, p, {0}) = [name |-> name, next |-> p + Len(name) + 1]
  BY <1>1, PlacedName, ReadsName DEF Message
<1>3. Len(name) \in Nat
  BY TextFacts DEF Proper
<1>4. p + Len(name) + 1 + 1 = p + Len(name) + 2
  BY <1>3
<1> QED BY <1>2, <1>4 DEF DecodeName

\* What decodeDomainName stops at.
Enders == {0} \cup (LabelLimit .. ByteRange - 1)

LEMMA EndersEnd == Ends(Enders)
BY Constants DEF Ends, Enders

LEMMA DecodeDomainNameAt ==
    ASSUME NEW msg \in Message, NEW p \in Nat \ {0}, NEW name, Proper(name),
           Placed(msg, p, EncodeDomainName(name))
    PROVE  DecodeDomainName(msg, p) = [name |-> name, next |-> p + Len(name) + 2, offset |-> 0]
<1>1. Holds(msg, p, name) /\ msg \in Seq(Nat)
  BY PlacedName DEF Message
<1>2. PICK r : r = ReadLabels(msg, p, Enders)
  OBVIOUS
<1>3. r = [name |-> name, next |-> p + Len(name) + 1]
  BY <1>1, <1>2, EndersEnd, ReadsName
<1>4. msg[p + Len(name) + 1] = 0
  BY <1>1, HoldsAt
<1>5. Len(name) \in Nat
  BY TextFacts DEF Proper
<1>6. p + Len(name) + 1 + 1 = p + Len(name) + 2
  BY <1>5
<1>7. ~IsPointer(0)
  BY Constants DEF IsPointer
<1>8. DecodeDomainName(msg, p) =
        IF IsPointer(msg[r.next])
        THEN [name |-> r.name, next |-> r.next + 2,
              offset |-> (msg[r.next] % LabelLimit) * ByteRange + msg[r.next + 1]]
        ELSE [name |-> r.name, next |-> r.next + 1, offset |-> 0]
  BY <1>2 DEF DecodeDomainName, Enders
<1> QED BY <1>3, <1>4, <1>6, <1>7, <1>8

(***************************************************************************)
(* Pointers.                                                               *)
(***************************************************************************)
IsOffset(o) == o \in Nat /\ o < LabelLimit * ByteRange

LEMMA PointerBytes ==
    ASSUME NEW o, IsOffset(o)
    PROVE  /\ Pointer(o) \in Message /\ Len(Pointer(o)) = 2
           /\ Pointer(o)[1] \in Enders /\ IsPointer(Pointer(o)[1])
           /\ (Pointer(o)[1] % LabelLimit) * ByteRange + Pointer(o)[2] = o
<1>1. /\ LabelLimit \in Nat /\ LabelLimit > 1 /\ ByteRange \in Nat \ {0} /\ 4 * LabelLimit <= ByteRange
      /\ ByteRange \in Nat
  BY DnsMessageAssumption
<1>2. PICK q : q = o \div ByteRange
  OBVIOUS
<1>3. PICK r : r = o % ByteRange
  OBVIOUS
<1>4. o \in Nat
  BY DEF IsOffset
<1>5. q * ByteRange + r = o
  <2>1. ((o \div ByteRange) * ByteRange) + (o % ByteRange) = o
    BY <1>1, <1>4, Division
  <2> QED BY <1>2, <1>3, <2>1
<1>6. q \in Nat /\ r \in Nat
  BY <1>1, <1>2, <1>3, <1>4
<1>7. q < LabelLimit
  <2> SUFFICES ASSUME q >= LabelLimit PROVE FALSE
    BY <1>1, <1>6
  <2>1. PICK d : d = q - LabelLimit
    OBVIOUS
  <2>2. d \in Nat /\ q = LabelLimit + d
    BY <1>1, <1>6, <2>1
  <2>3. q * ByteRange = LabelLimit * ByteRange + d * ByteRange
    <3>1. (LabelLimit + d) * ByteRange = LabelLimit * ByteRange + d * ByteRange
      BY <1>1, <2>2
    <3> QED BY <2>2, <3>1
  <2>4. d * ByteRange \in Nat /\ LabelLimit * ByteRange \in Nat /\ q * ByteRange \in Nat
    BY <1>1, <1>6, <2>2
  <2>5. o < LabelLimit * ByteRange
    BY DEF IsOffset
  <2> DEFINE lb == LabelLimit * ByteRange
             db == d * ByteRange
             qb == q * ByteRange
  <2>6. qb + r = o /\ qb = lb + db /\ db \in Nat /\ lb \in Nat /\ o < lb
    BY <1>5, <2>3, <2>4, <2>5
  <2> HIDE DEF lb, db, qb
  <2> QED BY <1>6, <2>6
<1>8. PICK b : b = 3 * LabelLimit + q
  OBVIOUS
<1>9. b \in Nat /\ b >= LabelLimit /\ b <= ByteRange - 1
  BY <1>1, <1>6, <1>7, <1>8
<1>10. b % LabelLimit = q
  <2>1. (3 * LabelLimit + q) % LabelLimit = q
    BY <1>1, <1>6, <1>7
  <2> QED BY <1>8, <2>1
<1>11. Pointer(o) = <<b, r>>
  BY <1>2, <1>3, <1>8 DEF Pointer
<1>12. b \in Enders /\ IsPointer(b)
  BY <1>1, <1>9 DEF Enders, IsPointer
<1>13. <<b, r>> \in Message /\ Len(<<b, r>>) = 2 /\ <<b, r>>[1] = b /\ <<b, r>>[2] = r
  BY <1>6, <1>9 DEF Message
<1>14. (b % LabelLimit) * ByteRange + r = o
  BY <1>5, <1>10
<1> QED BY <1>11, <1>12, <1>13, <1>14

LEMMA DomainLoop ==
    ASSUME NEW msg, NEW p, NEW N \in Nat, N = Len(msg) \div 2
    PROVE  \E t : Reads(msg, p, Enders, N, t)
<1>1. PICK e : e = Enders
  OBVIOUS
<1>2. \E t : Reads(msg, p, e, N, t)
  BY ReadLabelsLoop
<1> QED BY <1>1, <1>2

LEMMA DecodePointer ==
    ASSUME NEW msg \in Message, NEW p \in Nat \ {0}, NEW o, IsOffset(o), Placed(msg, p, Pointer(o))
    PROVE  DecodeDomainName(msg, p) = [name |-> <<>>, next |-> p + 2, offset |-> o]
<1>1. /\ Len(Pointer(o)) = 2
      /\ Pointer(o)[1] \in Enders /\ IsPointer(Pointer(o)[1])
      /\ (Pointer(o)[1] % LabelLimit) * ByteRange + Pointer(o)[2] = o
  BY PointerBytes
<1>2. msg[p] = Pointer(o)[1] /\ msg[p + 1] = Pointer(o)[2]
  <2>1. 1 \in 1 .. Len(Pointer(o)) /\ 2 \in 1 .. Len(Pointer(o)) /\ p + 1 - 1 = p /\ p + 2 - 1 = p + 1
    BY <1>1
  <2>2. msg[p + 1 - 1] = Pointer(o)[1] /\ msg[p + 2 - 1] = Pointer(o)[2]
    BY <2>1 DEF Placed
  <2> QED BY <2>1, <2>2
<1>3. PICK N : N = Len(msg) \div 2
  OBVIOUS
<1>4. N \in Nat
  <2>1. Len(msg) \in Nat
    BY DEF Message
  <2> QED BY <1>3, <2>1
<1>5. \E t : /\ t[0] = [name |-> <<>>, next |-> p]
             /\ ReadLabels(msg, p, Enders) = IF msg[p] \in Enders THEN t[0] ELSE t[N]
  <2>1. \E t : Reads(msg, p, Enders, N, t)
    <3>1. N \in Nat /\ N = Len(msg) \div 2
      BY <1>3, <1>4
    <3> QED BY <3>1, DomainLoop
  <2> QED BY <2>1 DEF Reads
<1>6. PICK r : r = ReadLabels(msg, p, Enders)
  OBVIOUS
<1>7. r = [name |-> <<>>, next |-> p]
  BY <1>1, <1>2, <1>5, <1>6
<1>8. DecodeDomainName(msg, p) =
        IF IsPointer(msg[r.next])
        THEN [name |-> r.name, next |-> r.next + 2,
              offset |-> (msg[r.next] % LabelLimit) * ByteRange + msg[r.next + 1]]
        ELSE [name |-> r.name, next |-> r.next + 1, offset |-> 0]
  BY <1>6 DEF DecodeDomainName, Enders
<1> QED BY <1>1, <1>2, <1>7, <1>8

\* A label and a pointer behind it.
Compressed(l, o) == <<Len(l)>> \o l \o Pointer(o)

LEMMA CompressedBytes ==
    ASSUME NEW l \in Label, l # <<>>, NEW o, IsOffset(o)
    PROVE  /\ Compressed(l, o) \in Message /\ Len(Compressed(l, o)) = Len(l) + 3
           /\ Compressed(l, o)[1] = Len(l)
           /\ Placed(Compressed(l, o), 2, l)
           /\ Placed(Compressed(l, o), Len(l) + 2, Pointer(o))
           /\ l \in Message /\ Len(l) \in Nat /\ Len(l) >= 1 /\ <<Len(l)>> \in Message
<1>1. l \in Message /\ Len(l) \in Nat
  BY TextFacts DEF Message, Text, Label
<1>2. Len(l) \in Nat \ {0}
  BY <1>1, EmptySeq DEF Label
<1>3. <<Len(l)>> \in Message /\ Len(<<Len(l)>>) = 1
  BY <1>1 DEF Message
<1>4. Pointer(o) \in Message /\ Len(Pointer(o)) = 2
  BY PointerBytes
<1>5. PICK a : a = <<Len(l)>> \o l
  OBVIOUS
<1>6. a \in Message /\ Len(a) = 1 + Len(l) /\ Placed(a, 1 + 1, l) /\ Placed(a, 1, <<Len(l)>>)
  <2>1. PICK h : h = <<Len(l)>>
    OBVIOUS
  <2>2. h \in Message /\ Len(h) = 1 /\ Placed(h, 1, h)
    BY <1>3, <2>1, PlacedSelf
  <2>3. h \o l \in Message /\ Len(h \o l) = Len(h) + Len(l) /\ Placed(h \o l, Len(h) + 1, l)
    BY <1>1, <2>2, PlacedConcat
  <2>4. Placed(h \o l, 1, h)
    BY <1>1, <2>2, PlacedLeft
  <2> QED BY <1>5, <2>1, <2>2, <2>3, <2>4
<1>7. PICK c : c = a \o Pointer(o)
  OBVIOUS
<1>8. /\ c \in Message /\ Len(c) = Len(a) + 2 /\ Placed(c, Len(a) + 1, Pointer(o))
      /\ Placed(c, 1 + 1, l) /\ Placed(c, 1, <<Len(l)>>)
  <2>1. PICK q : q = Pointer(o)
    OBVIOUS
  <2>2. q \in Message /\ Len(q) = 2
    BY <1>4, <2>1
  <2>3. a \o q \in Message /\ Len(a \o q) = Len(a) + Len(q) /\ Placed(a \o q, Len(a) + 1, q)
    BY <1>6, <2>2, PlacedConcat
  <2>4. Placed(a \o q, 1 + 1, l) /\ Placed(a \o q, 1, <<Len(l)>>)
    <3>1. 1 + 1 \in Nat \ {0} /\ 1 \in Nat \ {0}
      OBVIOUS
    <3>2. Placed(a \o q, 1 + 1, l)
      BY <1>1, <1>6, <2>2, <3>1, PlacedLeft
    <3>3. Placed(a \o q, 1, <<Len(l)>>)
      BY <1>3, <1>6, <2>2, <3>1, PlacedLeft
    <3> QED BY <3>2, <3>3
  <2> QED BY <1>7, <2>1, <2>2, <2>3, <2>4
<1>9. c[1] = Len(l)
  <2>1. 1 \in 1 .. Len(<<Len(l)>>) /\ 1 + 1 - 1 = 1 /\ <<Len(l)>>[1] = Len(l)
    BY <1>3
  <2>2. c[1 + 1 - 1] = <<Len(l)>>[1]
    BY <1>8, <2>1 DEF Placed
  <2> QED BY <2>1, <2>2
<1>10. Len(c) = Len(l) + 3 /\ Len(a) + 1 = Len(l) + 2 /\ 1 + 1 = 2
  BY <1>1, <1>6, <1>8
<1>11. c = Compressed(l, o)
  BY <1>5, <1>7 DEF Compressed
<1> QED BY <1>1, <1>2, <1>3, <1>8, <1>9, <1>10, <1>11

LEMMA DecodeCompressed ==
    ASSUME NEW msg \in Message, NEW p \in Nat \ {0},
           NEW l \in Label, l # <<>>, Len(l) < LabelLimit, NEW o, IsOffset(o),
           Placed(msg, p, Compressed(l, o))
    PROVE  DecodeDomainName(msg, p) = [name |-> l, next |-> p + Len(l) + 3, offset |-> o]
<1>1. PICK k : k = Len(l)
  OBVIOUS
<1>2. PICK c : c = Compressed(l, o)
  OBVIOUS
<1>3. /\ Len(c) = k + 3 /\ c[1] = k /\ Placed(c, 2, l) /\ Placed(c, k + 2, Pointer(o))
      /\ l \in Message /\ k \in Nat /\ k >= 1 /\ k < LabelLimit /\ c \in Message
  BY <1>1, <1>2, CompressedBytes
<1>4. /\ Len(Pointer(o)) = 2 /\ Pointer(o) \in Message
      /\ Pointer(o)[1] \in Enders /\ IsPointer(Pointer(o)[1])
      /\ (Pointer(o)[1] % LabelLimit) * ByteRange + Pointer(o)[2] = o
  BY PointerBytes
<1>5. k \in Nat /\ k >= 1 /\ p \in Nat /\ p >= 1
  BY <1>3
<1>6. \A i \in 1 .. k + 3 : msg[p + i - 1] = c[i]
  BY <1>2, <1>3 DEF Placed
<1>7. msg[p] = k
  <2>1. 1 \in 1 .. k + 3 /\ p + 1 - 1 = p
    BY <1>5
  <2>2. msg[p + 1 - 1] = c[1]
    BY <1>6, <2>1
  <2> QED BY <1>3, <2>1, <2>2
<1>8. msg[p + k + 1] = Pointer(o)[1] /\ msg[p + k + 2] = Pointer(o)[2]
  <2>1. /\ 1 \in 1 .. 2 /\ 2 \in 1 .. 2 /\ k + 2 \in 1 .. k + 3 /\ k + 3 \in 1 .. k + 3
        /\ k + 2 + 1 - 1 = k + 2 /\ k + 2 + 2 - 1 = k + 3
        /\ p + (k + 2) - 1 = p + k + 1 /\ p + (k + 3) - 1 = p + k + 2
    BY <1>5
  <2>2. c[k + 2 + 1 - 1] = Pointer(o)[1] /\ c[k + 2 + 2 - 1] = Pointer(o)[2]
    BY <1>3, <1>4, <2>1 DEF Placed
  <2>3. msg[p + (k + 2) - 1] = c[k + 2] /\ msg[p + (k + 3) - 1] = c[k + 3]
    BY <1>6, <2>1
  <2> QED BY <2>1, <2>2, <2>3
<1>9. SubSeq(msg, p + 1, p + k) = l
  <2>1. Placed(msg, p + 1, l)
    <3>1. p + 1 + Len(l) - 1 <= Len(msg)
      <4>1. p + Len(c) - 1 <= Len(msg) /\ Len(msg) \in Nat
        BY <1>2 DEF Placed, Message
      <4>2. Len(c) = k + 3
        BY <1>3
      <4> QED BY <1>1, <1>5, <4>1, <4>2
    <3>2. ASSUME NEW i \in 1 .. Len(l) PROVE msg[p + 1 + i - 1] = l[i]
      <4>1. i + 1 \in 1 .. k + 3 /\ p + (i + 1) - 1 = p + 1 + i - 1 /\ 2 + i - 1 = i + 1
        BY <1>1, <1>5
      <4>2. msg[p + (i + 1) - 1] = c[i + 1]
        BY <1>6, <4>1
      <4>3. c[2 + i - 1] = l[i]
        BY <1>3 DEF Placed
      <4> QED BY <4>1, <4>2, <4>3
    <3> QED BY <3>1, <3>2 DEF Placed
  <2>2. SubSeq(msg, p + 1, p + 1 + Len(l) - 1) = l
    BY <1>3, <1>5, <2>1, PlacedSlice
  <2>3. p + 1 + Len(l) - 1 = p + k
    BY <1>1, <1>5
  <2> QED BY <2>2, <2>3
<1>10. PICK N : N = Len(msg) \div 2
  OBVIOUS
<1>11. N \in Nat /\ N >= 1
  <2>1. p + Len(c) - 1 <= Len(msg) /\ Len(msg) \in Nat
    BY <1>2 DEF Placed, Message
  <2>2. Len(c) = k + 3
    BY <1>3
  <2>3. Len(msg) >= 2
    BY <1>5, <2>1, <2>2
  <2> QED BY <1>10, <2>1, <2>3
<1>12. PICK f : /\ f[0] = [name |-> <<>>, next |-> p]
                /\ \A n \in 1 .. N : f[n] = ReadOne(msg, Enders, f[n - 1])
                /\ ReadLabels(msg, p, Enders) = IF msg[p] \in Enders THEN f[0] ELSE f[N]
  <2>1. \E t : Reads(msg, p, Enders, N, t)
    BY <1>10, <1>11, DomainLoop
  <2> QED BY <2>1 DEF Reads
<1>13. msg[p] \notin Enders
  <2>1. k \in Nat /\ k >= 1 /\ k < LabelLimit /\ LabelLimit \in Nat
    BY <1>3, Constants
  <2>2. k \in 1 .. LabelLimit - 1
    BY <2>1
  <2> QED BY <1>7, <2>2, EndersEnd DEF Ends
<1> DEFINE read == [name |-> l, next |-> p + k + 1]
<1>14. f[1] = read
  <2>1. f[1] = ReadOne(msg, Enders, f[0])
    <3>1. 1 \in 1 .. N /\ 1 - 1 = 0
      BY <1>11
    <3> QED BY <1>12, <3>1
  <2>2. PICK after : after = p + msg[p] + 1
    OBVIOUS
  <2>3. after = p + k + 1 /\ after - 1 = p + k
    BY <1>5, <1>7, <2>2
  <2>4. ReadOne(msg, Enders, f[0]) =
          [name |-> <<>> \o SubSeq(msg, p + 1, after - 1)
                    \o (IF msg[after] \in Enders THEN <<>> ELSE <<Dot>>),
           next |-> after]
    <3>1. PICK x : x = f[0]
      OBVIOUS
    <3>2. x.name = <<>> /\ x.next = p
      BY <1>12, <3>1
    <3>3. msg[x.next] \notin Enders /\ after = x.next + msg[x.next] + 1
      BY <1>13, <2>2, <3>2
    <3>4. ReadOne(msg, Enders, x) =
            [name |-> x.name \o SubSeq(msg, x.next + 1, after - 1)
                      \o (IF msg[after] \in Enders THEN <<>> ELSE <<Dot>>),
             next |-> after]
      BY <3>3 DEF ReadOne
    <3> QED BY <3>1, <3>2, <3>4
  <2>5. msg[after] \in Enders
    BY <1>4, <1>8, <2>3
  <2>6. <<>> \o l \o <<>> = l
    BY TextConcat DEF Text, Label
  <2> QED BY <1>9, <2>1, <2>3, <2>4, <2>5, <2>6
<1>15. ReadOne(msg, Enders, read) = read
  BY <1>4, <1>8 DEF ReadOne
<1>16. f[N] = read
  <2> DEFINE G == {n \in Nat : f[n] = read}
  <2>1. 1 \in G
    BY <1>14
  <2>2. ASSUME NEW n \in 1 .. N - 1, n \in G PROVE n + 1 \in G
    <3>1. n + 1 \in 1 .. N /\ (n + 1) - 1 = n /\ n + 1 \in Nat
      BY <1>11
    <3>2. f[n + 1] = ReadOne(msg, Enders, f[n])
      BY <1>12, <3>1
    <3> HIDE DEF read
    <3> QED BY <1>15, <2>2, <3>1, <3>2
  <2> HIDE DEF G
  <2>3. 1 .. N \subseteq G
    BY <1>11, <2>1, <2>2, Induction
  <2>4. N \in 1 .. N
    BY <1>11
  <2> QED BY <2>3, <2>4 DEF G
<1>17. PICK r : r = ReadLabels(msg, p, Enders)
  OBVIOUS
<1>18. r = [name |-> l, next |-> p + k + 1]
  BY <1>12, <1>13, <1>16, <1>17
<1>19. DecodeDomainName(msg, p) =
        IF IsPointer(msg[r.next])
        THEN [name |-> r.name, next |-> r.next + 2,
              offset |-> (msg[r.next] % LabelLimit) * ByteRange + msg[r.next + 1]]
        ELSE [name |-> r.name, next |-> r.next + 1, offset |-> 0]
  BY <1>17 DEF DecodeDomainName, Enders
<1>20. p + k + 1 + 2 = p + k + 3 /\ p + k + 1 + 1 = p + k + 2
  BY <1>5
<1> QED BY <1>1, <1>4, <1>8, <1>18, <1>19, <1>20

\* One turn of the loop that follows pointers.
FollowOne(msg, r) ==
    LET e == DecodeDomainName(msg, r.offset + 1)
    IN  IF r.offset = 0 THEN r ELSE [e EXCEPT !.name = Dotted(r.name) \o @]

\* t is what the loop holds after each of its N turns from d on.
Follows(msg, d, N, t) ==
    /\ t[0] = d
    /\ \A i \in 1 .. N : t[i] = FollowOne(msg, t[i - 1])
    /\ FollowPointers(msg, d) = IF d.offset = 0 THEN d.name ELSE t[N].name

LEMMA FollowLoop ==
    ASSUME NEW msg, NEW d, NEW N \in Nat, N = Len(msg) \div 2
    PROVE  \E t : Follows(msg, d, N, t)
<1> DEFINE R(m, h) == h = [i \in 0 .. m |-> IF i = 0 THEN d ELSE FollowOne(msg, h[i - 1])]
           G == {m \in Nat : \E u : R(m, u)}
<1>1. 0 \in G
  <2> DEFINE f == [i \in 0 .. 0 |-> d]
  <2>1. R(0, f)
    OBVIOUS
  <2> QED BY <2>1
<1>2. ASSUME NEW k \in 0 .. N - 1, k \in G PROVE k + 1 \in G
  <2>1. PICK f : R(k, f)
    BY <1>2
  <2> DEFINE g == [i \in 0 .. k + 1 |-> IF i = k + 1 THEN FollowOne(msg, f[k]) ELSE f[i]]
  <2>2. ASSUME NEW i \in 0 .. k + 1
        PROVE  g[i] = IF i = 0 THEN d ELSE FollowOne(msg, g[i - 1])
    <3>1. CASE i = k + 1
      <4>1. g[k] = f[k] /\ i - 1 = k /\ i # 0
        BY <3>1
      <4> QED BY <3>1, <4>1
    <3>2. CASE i # k + 1
      <4>1. i \in 0 .. k /\ g[i] = f[i] /\ (i # 0 => g[i - 1] = f[i - 1])
        BY <3>2
      <4>2. f[i] = IF i = 0 THEN d ELSE FollowOne(msg, f[i - 1])
        BY <2>1, <4>1
      <4> HIDE DEF g
      <4> QED BY <4>1, <4>2
    <3> QED BY <3>1, <3>2
  <2>3. g = [i \in 0 .. k + 1 |-> g[i]]
    OBVIOUS
  <2> HIDE DEF g
  <2>4. R(k + 1, g)
    BY <2>2, <2>3
  <2>5. k + 1 \in Nat
    OBVIOUS
  <2>6. \E u : R(k + 1, u)
    <3> HIDE DEF R
    <3> QED BY <2>4
  <2> HIDE DEF R
  <2> QED BY <2>5, <2>6
<1> HIDE DEF G
<1>3. 0 .. N \subseteq G
  BY <1>1, <1>2, Induction, SMTT(30)
<1> DEFINE turn == CHOOSE u : R(Len(msg) \div 2, u)
<1>4. R(N, turn)
  <2>1. \E u : R(N, u)
    BY <1>3 DEF G
  <2>2. \E u : R(Len(msg) \div 2, u)
    BY <2>1
  <2>3. R(Len(msg) \div 2, turn)
    BY <2>2
  <2> HIDE DEF turn
  <2> QED BY <2>3
<1>5. FollowPointers(msg, d) = IF d.offset = 0 THEN d.name ELSE turn[N].name
  <2>1. FollowPointers(msg, d) = IF d.offset = 0 THEN d.name ELSE turn[Len(msg) \div 2].name
    BY DEF FollowPointers, FollowOne
  <2> HIDE DEF turn
  <2> QED BY <2>1
<1> HIDE DEF turn
<1>6. turn[0] = d /\ \A i \in 1 .. N : turn[i] = FollowOne(msg, turn[i - 1])
  BY <1>4
<1>7. Follows(msg, d, N, turn)
  BY <1>5, <1>6 DEF Follows
<1> QED BY <1>7

\* After k turns there is no pointer left.
Finished(f, k, N) == N \in Nat /\ k \in 0 .. N /\ f[k].offset = 0

LEMMA FollowEnds ==
    ASSUME NEW msg, NEW d, NEW N, NEW k, NEW f, Follows(msg, d, N, f), Finished(f, k, N)
    PROVE  f[N] = f[k]
<1>0. N \in Nat /\ k \in 0 .. N /\ f[k].offset = 0
  BY DEF Finished
<1> DEFINE G == {n \in Nat : f[n] = f[k]}
<1>1. k \in G
  BY <1>0
<1>2. ASSUME NEW n \in k .. N - 1, n \in G PROVE n + 1 \in G
  <2>1. n + 1 \in 1 .. N /\ (n + 1) - 1 = n /\ n + 1 \in Nat
    BY <1>0
  <2>2. f[n + 1] = FollowOne(msg, f[n]) /\ f[n] = f[k]
    BY <1>2, <2>1 DEF Follows
  <2>3. FollowOne(msg, f[n]) = f[n]
    BY <1>0, <2>2 DEF FollowOne
  <2> QED BY <2>1, <2>2, <2>3
<1> HIDE DEF G
<1>3. k .. N \subseteq G
  <2>1. k \in Nat
    BY <1>0
  <2> QED BY <1>0, <1>1, <1>2, <2>1, Induction
<1>4. N \in k .. N
  BY <1>0
<1> QED BY <1>3, <1>4 DEF G

\* The pointer to o leads to the name n, which another pointer, o2, may follow.
LeadsTo(msg, o, n, z, o2) ==
    o \in Nat \ {0} /\ DecodeDomainName(msg, o + 1) = [name |-> n, next |-> z, offset |-> o2]

Leads(msg, r, n, z, o) == LeadsTo(msg, r.offset, n, z, o)

LEMMA FollowStep ==
    ASSUME NEW msg, NEW r, NEW n, NEW z, NEW o, Leads(msg, r, n, z, o)
    PROVE  FollowOne(msg, r) = [name |-> Dotted(r.name) \o n, next |-> z, offset |-> o]
<1>1. PICK w : w = Dotted(r.name)
  OBVIOUS
<1>2. PICK e : e = DecodeDomainName(msg, r.offset + 1)
  OBVIOUS
<1>3. FollowOne(msg, r) = [e EXCEPT !.name = w \o @]
  <2>1. r.offset # 0
    BY DEF Leads, LeadsTo
  <2> QED BY <1>1, <1>2, <2>1 DEF FollowOne
<1>4. e = [name |-> n, next |-> z, offset |-> o]
  BY <1>2 DEF Leads, LeadsTo
<1>5. [e EXCEPT !.name = w \o @] = [name |-> w \o n, next |-> z, offset |-> o]
  <2>1. e.name = n
    BY <1>4
  <2>2. PICK v : v = w \o n
    OBVIOUS
  <2>3. [e EXCEPT !.name = v] = [name |-> v, next |-> z, offset |-> o]
    BY <1>4
  <2>4. [e EXCEPT !.name = w \o @] = [e EXCEPT !.name = v]
    BY <2>1, <2>2
  <2> QED BY <2>2, <2>3, <2>4
<1> QED BY <1>1, <1>3, <1>5

LEMMA FollowNone ==
    ASSUME NEW msg \in Message, NEW x, NEW y
    PROVE  FollowPointers(msg, [name |-> x, next |-> y, offset |-> 0]) = x
<1>1. PICK d : d = [name |-> x, next |-> y, offset |-> 0]
  OBVIOUS
<1>2. PICK N : N = Len(msg) \div 2
  OBVIOUS
<1>3. N \in Nat /\ N = Len(msg) \div 2
  <2>1. Len(msg) \in Nat
    BY DEF Message
  <2> QED BY <1>2, <2>1
<1>4. \E t : Follows(msg, d, N, t)
  BY <1>3, FollowLoop
<1>5. FollowPointers(msg, d) = d.name
  BY <1>1, <1>4 DEF Follows
<1> QED BY <1>1, <1>5

LEMMA FollowOnce ==
    ASSUME NEW msg \in Message, Len(msg) >= 4, NEW d, NEW n, NEW z, Leads(msg, d, n, z, 0)
    PROVE  FollowPointers(msg, d) = Dotted(d.name) \o n
<1>1. d.offset # 0
  BY DEF Leads, LeadsTo
<1>2. PICK N : N = Len(msg) \div 2
  OBVIOUS
<1>3. N \in Nat /\ N >= 1 /\ N = Len(msg) \div 2
  <2>1. Len(msg) \in Nat /\ Len(msg) >= 4
    BY DEF Message
  <2> QED BY <1>2, <2>1
<1>4. PICK f : Follows(msg, d, N, f)
  BY <1>3, FollowLoop
<1>5. 1 \in 1 .. N /\ 1 - 1 = 0 /\ 1 \in 0 .. N
  BY <1>3
<1>6. f[1] = [name |-> Dotted(d.name) \o n, next |-> z, offset |-> 0]
  <2>1. f[1] = FollowOne(msg, d)
    BY <1>4, <1>5 DEF Follows
  <2>2. FollowOne(msg, d) = [name |-> Dotted(d.name) \o n, next |-> z, offset |-> 0]
    BY FollowStep
  <2> QED BY <2>1, <2>2
<1>7. f[N] = f[1]
  <2>1. PICK k : k = 1
    OBVIOUS
  <2>2. Finished(f, k, N)
    BY <1>3, <1>5, <1>6, <2>1 DEF Finished
  <2>3. f[N] = f[k]
    BY <1>4, <2>2, FollowEnds
  <2> QED BY <2>1, <2>3
<1> QED BY <1>1, <1>4, <1>6, <1>7 DEF Follows

\* Behind d's pointer is l with a pointer to o, and behind that is n.
LeadsOn(msg, d, l, z, o, n, z2) ==
    msg \in Message /\ Len(msg) >= 4 /\ Leads(msg, d, l, z, o) /\ LeadsTo(msg, o, n, z2, 0)

LEMMA FollowTwice ==
    ASSUME NEW msg, NEW d, NEW l, NEW z, NEW o, NEW n, NEW z2, LeadsOn(msg, d, l, z, o, n, z2)
    PROVE  FollowPointers(msg, d) = Dotted(Dotted(d.name) \o l) \o n
<1>0. msg \in Message /\ Len(msg) >= 4 /\ Leads(msg, d, l, z, o) /\ LeadsTo(msg, o, n, z2, 0)
  BY DEF LeadsOn
<1>1. d.offset # 0
  BY <1>0 DEF Leads, LeadsTo
<1>2. PICK N : N = Len(msg) \div 2
  OBVIOUS
<1>3. N \in Nat /\ N >= 2 /\ N = Len(msg) \div 2
  <2>1. Len(msg) \in Nat /\ Len(msg) >= 4
    BY <1>0 DEF Message
  <2> QED BY <1>2, <2>1
<1>4. PICK f : Follows(msg, d, N, f)
  BY <1>0, <1>3, FollowLoop
<1>5. 1 \in 1 .. N /\ 1 - 1 = 0 /\ 2 \in 1 .. N /\ 2 - 1 = 1 /\ 2 \in 0 .. N
  BY <1>3
<1>6. f[1] = [name |-> Dotted(d.name) \o l, next |-> z, offset |-> o]
  <2>1. f[1] = FollowOne(msg, d)
    BY <1>4, <1>5 DEF Follows
  <2>2. FollowOne(msg, d) = [name |-> Dotted(d.name) \o l, next |-> z, offset |-> o]
    BY <1>0, FollowStep
  <2> QED BY <2>1, <2>2
<1>7. f[2] = [name |-> Dotted(Dotted(d.name) \o l) \o n, next |-> z2, offset |-> 0]
  <2>1. f[2] = FollowOne(msg, f[1])
    BY <1>4, <1>5 DEF Follows
  <2>2. PICK g : g = f[1]
    OBVIOUS
  <2>3. g.offset = o /\ g.name = Dotted(d.name) \o l
    BY <1>6, <2>2
  <2>4. Leads(msg, g, n, z2, 0)
    BY <1>0, <2>3 DEF Leads
  <2>5. FollowOne(msg, g) = [name |-> Dotted(g.name) \o n, next |-> z2, offset |-> 0]
    BY <2>4, FollowStep
  <2> QED BY <2>1, <2>2, <2>3, <2>5
<1>8. f[N] = f[2]
  <2>1. PICK k : k = 2
    OBVIOUS
  <2>2. Finished(f, k, N)
    BY <1>3, <1>5, <1>7, <2>1 DEF Finished
  <2>3. f[N] = f[k]
    BY <1>4, <2>2, FollowEnds
  <2> QED BY <2>1, <2>3
<1> QED BY <1>1, <1>4, <1>7, <1>8 DEF Follows

=============================================================================
