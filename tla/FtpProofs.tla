----------------------------- MODULE FtpProofs -----------------------------
(***************************************************************************)
(* Proofs about Ftp, for any sessions, files, uploads and buffer sizes.    *)
(***************************************************************************)
EXTENDS Ftp, FiniteSetTheorems, SequenceTheorems, WellFoundedInduction, TLAPS

(***************************************************************************)
(* Induction, as the least number principle.                               *)
(***************************************************************************)
LEMMA LeastNatural ==
    ASSUME NEW T, T \subseteq Nat, T # {}
    PROVE  \E x \in T : \A y \in T : x <= y
<1> DEFINE R == {ss \in Nat \X Nat : ss[1] < ss[2]}
<1>1. IsWellFoundedOn(R, Nat)
  BY NatLessThanWellFounded DEF OpToRel
<1>2. PICK x \in T : \A y \in T : ~(<<y, x>> \in R)
  BY <1>1, WFMin
<1>3. \A y \in T : ~(y < x)
  BY <1>2
<1>4. \A y \in T : x <= y
  BY <1>3
<1> QED BY <1>4

\* A set of numbers that holds k and the successor of each of its members
\* up to n holds all of k .. n.
LEMMA Induction ==
    ASSUME NEW k \in Nat, NEW n \in Nat, NEW G, k \in G,
           \A i \in k .. n - 1 : i \in G => i + 1 \in G
    PROVE  k .. n \subseteq G
<1> DEFINE T == {i \in Nat : i \in k .. n /\ i \notin G}
<1> SUFFICES ASSUME T # {} PROVE FALSE
  OBVIOUS
<1>1. PICK x \in T : \A y \in T : x <= y
  BY LeastNatural
<1>2. x # k /\ x \in k .. n /\ x \notin G
  OBVIOUS
<1>3. x - 1 \in k .. n - 1 /\ x - 1 \notin T
  BY <1>1, <1>2
<1>4. x - 1 \in G
  BY <1>3
<1>5. (x - 1) + 1 \in G
  BY <1>3, <1>4
<1> QED BY <1>2, <1>5

(***************************************************************************)
(* FlattenSeq.                                                             *)
(***************************************************************************)
\* The function that FlattenSeq computes: f[i] joins the first i sequences.
Joins(f, ss) ==
    f = [i \in 1 .. Len(ss) |-> IF i = 1 THEN ss[i] ELSE f[i - 1] \o ss[i]]

LEMMA JoinsAt ==
    ASSUME NEW f, NEW ss, Joins(f, ss), NEW i \in 1 .. Len(ss)
    PROVE  f[i] = IF i = 1 THEN ss[i] ELSE f[i - 1] \o ss[i]
<1> DEFINE h == [j \in 1 .. Len(ss) |-> IF j = 1 THEN ss[j] ELSE f[j - 1] \o ss[j]]
<1>1. f = h
  BY Zenon DEF Joins
<1>2. h[i] = IF i = 1 THEN ss[i] ELSE f[i - 1] \o ss[i]
  BY Zenon
<1> HIDE DEF h
<1> QED BY <1>1, <1>2, Zenon

LEMMA JoinsExists ==
    ASSUME NEW S, NEW ss \in Seq(Seq(S)), Len(ss) # 0
    PROVE  \E f \in [1 .. Len(ss) -> Seq(S)] : Joins(f, ss)
<1> DEFINE Good(n, f) == \A i \in 1 .. n : f[i] = IF i = 1 THEN ss[i] ELSE f[i - 1] \o ss[i]
           G == {n \in Nat : \E f \in [1 .. n -> Seq(S)] : Good(n, f)}
<1>1. 1 \in G
  <2>1. ss[1] \in Seq(S)
    OBVIOUS
  <2> DEFINE f == [i \in 1 .. 1 |-> ss[1]]
  <2>2. f \in [1 .. 1 -> Seq(S)] /\ Good(1, f)
    BY <2>1
  <2> QED BY <2>2
<1>2. ASSUME NEW n \in 1 .. Len(ss) - 1, n \in G PROVE n + 1 \in G
  <2>1. PICK f \in [1 .. n -> Seq(S)] : Good(n, f)
    BY <1>2
  <2>2. ss[n + 1] \in Seq(S) /\ f[n] \in Seq(S)
    OBVIOUS
  <2>3. f[n] \o ss[n + 1] \in Seq(S)
    BY <2>2
  <2> DEFINE g == [i \in 1 .. n + 1 |-> IF i = n + 1 THEN f[n] \o ss[n + 1] ELSE f[i]]
  <2>4. g \in [1 .. n + 1 -> Seq(S)]
    BY <2>3
  <2>5. ASSUME NEW i \in 1 .. n + 1
        PROVE  g[i] = IF i = 1 THEN ss[i] ELSE g[i - 1] \o ss[i]
    <3>1. CASE i = n + 1
      <4>1. i # 1 /\ g[i] = f[n] \o ss[i] /\ i - 1 = n /\ g[n] = f[n]
        BY <3>1
      <4> QED BY <4>1
    <3>2. CASE i # n + 1
      <4>1. i \in 1 .. n /\ g[i] = f[i]
        BY <3>2
      <4>2. i # 1 => g[i - 1] = f[i - 1]
        BY <4>1
      <4>3. f[i] = IF i = 1 THEN ss[i] ELSE f[i - 1] \o ss[i]
        BY <2>1, <4>1
      <4> HIDE DEF g
      <4> QED BY <4>1, <4>2, <4>3
    <3> QED BY <3>1, <3>2
  <2> HIDE DEF g
  <2>6. n + 1 \in Nat /\ Good(n + 1, g)
    BY <2>5
  <2> QED BY <2>4, <2>6
<1>3. Len(ss) \in Nat /\ Len(ss) >= 1
  OBVIOUS
<1>4. Len(ss) \in G
  <2> HIDE DEF G
  <2>1. 1 .. Len(ss) \subseteq G
    BY <1>1, <1>2, <1>3, Induction
  <2> QED BY <1>3, <2>1
<1>5. PICK f \in [1 .. Len(ss) -> Seq(S)] : Good(Len(ss), f)
  BY <1>4
<1>6. Joins(f, ss)
  BY <1>5 DEF Joins
<1> QED BY <1>6

LEMMA FlattenIsJoin ==
    ASSUME NEW ss, Len(ss) # 0, NEW g, Joins(g, ss)
    PROVE  \E f : Joins(f, ss) /\ FlattenSeq(ss) = f[Len(ss)]
<1> DEFINE f == CHOOSE h : h = [i \in 1 .. Len(ss) |-> IF i = 1 THEN ss[i] ELSE h[i - 1] \o ss[i]]
<1>1. f = [i \in 1 .. Len(ss) |-> IF i = 1 THEN ss[i] ELSE f[i - 1] \o ss[i]]
  BY DEF Joins
<1>2. FlattenSeq(ss) = f[Len(ss)]
  BY DEF FlattenSeq
<1> QED BY <1>1, <1>2 DEF Joins

\* The joins of two sequences agree as far as the sequences do.
LEMMA JoinsAgree ==
    ASSUME NEW ss, NEW tt, Len(ss) \in Nat, Len(tt) \in Nat,
           NEW f, NEW g, Joins(f, ss), Joins(g, tt),
           NEW n \in Nat, n >= 1, n <= Len(ss), n <= Len(tt),
           \A i \in 1 .. n : ss[i] = tt[i]
    PROVE  f[n] = g[n]
<1> DEFINE G == {i \in Nat : f[i] = g[i]}
<1>a. \A j \in 1 .. Len(ss) : f[j] = IF j = 1 THEN ss[j] ELSE f[j - 1] \o ss[j]
  BY JoinsAt, ZenonT(60)
<1>b. \A j \in 1 .. Len(tt) : g[j] = IF j = 1 THEN tt[j] ELSE g[j - 1] \o tt[j]
  BY JoinsAt, ZenonT(60)
<1>1. 1 \in G
  BY <1>a, <1>b
<1>2. ASSUME NEW i \in 1 .. n - 1, i \in G PROVE i + 1 \in G
  <2>1. i + 1 \in 1 .. Len(ss) /\ i + 1 \in 1 .. Len(tt) /\ i + 1 # 1 /\ (i + 1) - 1 = i
    OBVIOUS
  <2>2. f[i + 1] = f[i] \o ss[i + 1]
    <3>1. f[i + 1] = IF i + 1 = 1 THEN ss[i + 1] ELSE f[(i + 1) - 1] \o ss[i + 1]
      BY <1>a, <2>1, Zenon
    <3> QED BY <2>1, <3>1, Zenon
  <2>3. g[i + 1] = g[i] \o tt[i + 1]
    <3>1. g[i + 1] = IF i + 1 = 1 THEN tt[i + 1] ELSE g[(i + 1) - 1] \o tt[i + 1]
      BY <1>b, <2>1, Zenon
    <3> QED BY <2>1, <3>1, Zenon
  <2>4. ss[i + 1] = tt[i + 1]
    BY <2>1
  <2>5. f[i] = g[i]
    BY <1>2
  <2>6. i + 1 \in Nat /\ f[i + 1] = g[i + 1]
    BY <2>2, <2>3, <2>4, <2>5
  <2> QED BY <2>6
<1> HIDE DEF G
<1>3. 1 .. n \subseteq G
  BY <1>1, <1>2, Induction
<1>4. n \in G
  BY <1>3
<1> QED BY <1>4 DEF G

LEMMA FlattenEmpty == FlattenSeq(<<>>) = <<>>
BY DEF FlattenSeq

LEMMA FlattenType ==
    ASSUME NEW S, NEW ss \in Seq(Seq(S))
    PROVE  FlattenSeq(ss) \in Seq(S)
<1>1. CASE Len(ss) = 0
  <2>1. ss = <<>>
    BY <1>1
  <2>2. <<>> \in Seq(S)
    OBVIOUS
  <2> QED BY <2>1, <2>2, FlattenEmpty, Zenon
<1>2. CASE Len(ss) # 0
  <2>1. PICK g \in [1 .. Len(ss) -> Seq(S)] : Joins(g, ss)
    BY <1>2, JoinsExists
  <2>2. PICK f : Joins(f, ss) /\ FlattenSeq(ss) = f[Len(ss)]
    BY <1>2, <2>1, FlattenIsJoin
  <2>3. Len(ss) \in Nat /\ Len(ss) >= 1
    BY <1>2
  <2>a. Joins(f, ss) /\ Joins(g, ss) /\ Len(ss) <= Len(ss)
    BY <2>1, <2>2, <2>3
  <2>4. f[Len(ss)] = g[Len(ss)]
    BY <2>3, <2>a, JoinsAgree
  <2>5. g[Len(ss)] \in Seq(S)
    BY <2>1, <2>3, SMTT(30)
  <2> QED BY <2>2, <2>4, <2>5, Zenon
<1> QED BY <1>1, <1>2

LEMMA FlattenAppend ==
    ASSUME NEW S, NEW ss \in Seq(Seq(S)), NEW x \in Seq(S)
    PROVE  FlattenSeq(Append(ss, x)) = FlattenSeq(ss) \o x
<1>1. PICK tt : tt = Append(ss, x)
  OBVIOUS
<1>2. /\ tt \in Seq(Seq(S)) /\ Len(tt) = Len(ss) + 1 /\ Len(tt) # 0
      /\ tt[Len(tt)] = x /\ \A i \in 1 .. Len(ss) : ss[i] = tt[i]
  BY <1>1
<1>3. PICK g0 : Joins(g0, tt)
  BY <1>2, JoinsExists
<1>4. PICK g : Joins(g, tt) /\ FlattenSeq(tt) = g[Len(tt)]
  BY <1>2, <1>3, FlattenIsJoin
<1>5. CASE Len(ss) = 0
  <2>1. ss = <<>> /\ Len(tt) = 1
    BY <1>2, <1>5
  <2>2. g[1] = tt[1]
    BY <1>4, <2>1 DEF Joins
  <2>3. FlattenSeq(ss) \o x = x
    BY <2>1, FlattenEmpty, ConcatEmptySeq
  <2> QED BY <1>1, <1>2, <1>4, <2>1, <2>2, <2>3
<1>6. CASE Len(ss) # 0
  <2>1. PICK f0 : Joins(f0, ss)
    BY <1>6, JoinsExists
  <2>2. PICK f : Joins(f, ss) /\ FlattenSeq(ss) = f[Len(ss)]
    BY <1>6, <2>1, FlattenIsJoin
  <2>3. Len(ss) \in Nat /\ Len(ss) >= 1 /\ Len(tt) \in Nat /\ Len(ss) <= Len(tt)
    BY <1>2, <1>6
  <2>4. f[Len(ss)] = g[Len(ss)]
    <3>1. PICK n \in Nat : n = Len(ss)
      BY <2>3
    <3>2. n >= 1 /\ n <= Len(ss) /\ n <= Len(tt) /\ \A i \in 1 .. n : ss[i] = tt[i]
      BY <1>2, <2>3, <3>1
    <3>3. f[n] = g[n]
      BY <1>4, <2>2, <2>3, <3>2, JoinsAgree
    <3> QED BY <3>1, <3>3
  <2>5. g[Len(tt)] = g[Len(ss)] \o tt[Len(tt)]
    <3>1. PICK n \in Nat : n = Len(tt)
      BY <2>3
    <3>2. n \in 1 .. Len(tt) /\ n # 1 /\ n - 1 = Len(ss)
      BY <1>2, <2>3, <3>1
    <3>3. g[n] = g[n - 1] \o tt[n]
      BY <1>4, <3>2 DEF Joins
    <3> QED BY <3>1, <3>2, <3>3
  <2> QED BY <1>1, <1>2, <1>4, <2>2, <2>4, <2>5
<1> QED BY <1>5, <1>6

(***************************************************************************)
(* Translate.                                                              *)
(***************************************************************************)
Images(b, tab) == [i \in DOMAIN b |-> tab[b[i]]]

LEMMA ImagesType ==
    ASSUME NEW tab \in [Byte -> Bytes], NEW b \in Bytes
    PROVE  /\ Images(b, tab) \in Seq(Seq(Byte))
           /\ Len(Images(b, tab)) = Len(b)
           /\ \A i \in 1 .. Len(b) : Images(b, tab)[i] = tab[b[i]]
<1>1. b \in Seq(Byte) /\ DOMAIN b = 1 .. Len(b) /\ Len(b) \in Nat
  BY DEF Bytes
<1>2. \A i \in 1 .. Len(b) : tab[b[i]] \in Seq(Byte)
  BY <1>1 DEF Bytes
<1> QED BY <1>1, <1>2 DEF Images

LEMMA TranslateType ==
    ASSUME NEW tab \in [Byte -> Bytes], NEW b \in Bytes
    PROVE  Translate(b, tab) \in Bytes
<1>1. FlattenSeq(Images(b, tab)) \in Seq(Byte)
  BY ImagesType, FlattenType
<1> QED BY <1>1 DEF Translate, Images, Bytes

LEMMA TranslateEmpty ==
    ASSUME NEW tab
    PROVE  Translate(<<>>, tab) = <<>>
<1>1. [i \in DOMAIN <<>> |-> tab[<<>>[i]]] = <<>>
  OBVIOUS
<1> QED BY <1>1, FlattenEmpty DEF Translate

LEMMA TranslateAppend ==
    ASSUME NEW tab \in [Byte -> Bytes], NEW b \in Bytes, NEW x \in Byte
    PROVE  Translate(Append(b, x), tab) = Translate(b, tab) \o tab[x]
<1>1. PICK c : c = Append(b, x)
  OBVIOUS
<1>2. /\ c \in Bytes /\ Len(c) = Len(b) + 1 /\ Len(b) \in Nat
      /\ c[Len(b) + 1] = x /\ \A i \in 1 .. Len(b) : c[i] = b[i]
  BY <1>1 DEF Bytes
<1>3. tab[x] \in Seq(Byte)
  BY DEF Bytes
<1>4. PICK u, v : u = Images(b, tab) /\ v = Append(u, tab[x])
  OBVIOUS
<1>5. /\ u \in Seq(Seq(Byte)) /\ Len(u) = Len(b)
      /\ \A i \in 1 .. Len(b) : u[i] = tab[b[i]]
  BY <1>4, ImagesType
<1>6. /\ v \in Seq(Seq(Byte)) /\ Len(v) = Len(b) + 1
      /\ v[Len(b) + 1] = tab[x] /\ \A i \in 1 .. Len(b) : v[i] = u[i]
  BY <1>2, <1>3, <1>4, <1>5
<1>7. PICK w : w = Images(c, tab)
  OBVIOUS
<1>8. /\ w \in Seq(Seq(Byte)) /\ Len(w) = Len(c)
      /\ \A i \in 1 .. Len(c) : w[i] = tab[c[i]]
  BY <1>2, <1>7, ImagesType
<1>9. v = w
  <2>1. Len(v) = Len(w)
    BY <1>2, <1>6, <1>8
  <2>2. ASSUME NEW i \in 1 .. Len(v) PROVE v[i] = w[i]
    <3>1. CASE i = Len(b) + 1
      BY <1>2, <1>6, <1>8, <3>1
    <3>2. CASE i # Len(b) + 1
      <4>1. i \in 1 .. Len(b) /\ i \in 1 .. Len(c)
        BY <1>2, <1>6, <3>2
      <4>2. v[i] = u[i] /\ u[i] = tab[b[i]]
        BY <1>5, <1>6, <4>1
      <4>3. w[i] = tab[c[i]] /\ c[i] = b[i]
        BY <1>2, <1>8, <4>1
      <4> QED BY <4>2, <4>3
    <3> QED BY <3>1, <3>2
  <2> QED BY <1>6, <1>8, <2>1, <2>2, SeqEqual
<1>10. FlattenSeq(v) = FlattenSeq(u) \o tab[x]
  BY <1>3, <1>4, <1>5, FlattenAppend
<1> QED BY <1>1, <1>4, <1>7, <1>9, <1>10 DEF Translate, Images

\* One more byte of d.
LEMMA PrefixStep ==
    ASSUME NEW d \in Bytes, NEW n \in 0 .. Len(d) - 1
    PROVE  /\ SubSeq(d, 1, n) \in Bytes /\ d[n + 1] \in Byte
           /\ SubSeq(d, 1, n + 1) = Append(SubSeq(d, 1, n), d[n + 1])
<1>1. d \in Seq(Byte) /\ Len(d) \in Nat
  BY DEF Bytes
<1>2. SubSeq(d, 1, n) \in Seq(Byte) /\ d[n + 1] \in Byte
  BY <1>1
<1>3. SubSeq(d, 1, n + 1) = SubSeq(d, 1, n) \o <<d[n + 1]>>
  <2>1. PICK m : m = n + 1
    OBVIOUS
  <2>2. 1 \in 1 .. Len(d) /\ m \in 1 .. Len(d) /\ m - 1 = n
    BY <1>1, <2>1
  <2>3. SubSeq(d, 1, m) = SubSeq(d, 1, m - 1) \o <<d[m]>>
    BY <1>1, <2>2, SubSeqRecursiveSecond
  <2> QED BY <2>1, <2>2, <2>3
<1> QED BY <1>2, <1>3, AppendIsConcat DEF Bytes

LEMMA TranslateConcat ==
    ASSUME NEW tab \in [Byte -> Bytes], NEW b \in Bytes, NEW d \in Bytes
    PROVE  Translate(b \o d, tab) = Translate(b, tab) \o Translate(d, tab)
<1> DEFINE P(n) == Translate(b \o SubSeq(d, 1, n), tab)
                     = Translate(b, tab) \o Translate(SubSeq(d, 1, n), tab)
           G == {n \in Nat : P(n)}
<1>0. b \in Seq(Byte) /\ d \in Seq(Byte) /\ Len(d) \in Nat
      /\ Translate(b, tab) \in Seq(Byte)
  BY TranslateType DEF Bytes
<1>1. 0 \in G
  <2>1. SubSeq(d, 1, 0) = <<>>
    BY SubSeqEmpty
  <2>2. b \o <<>> = b /\ Translate(b, tab) \o <<>> = Translate(b, tab)
    BY <1>0, ConcatEmptySeq
  <2>3. P(0)
    BY <2>1, <2>2, TranslateEmpty
  <2> QED BY <2>3
<1>2. ASSUME NEW n \in 0 .. Len(d) - 1, n \in G PROVE n + 1 \in G
  <2>1. P(n)
    BY <1>2
  <2>2. PICK c, x, e : c = SubSeq(d, 1, n) /\ x = d[n + 1] /\ e = SubSeq(d, 1, n + 1)
    OBVIOUS
  <2>3. c \in Bytes /\ x \in Byte /\ e = Append(c, x)
    BY <2>2, PrefixStep
  <2>4. b \o e = Append(b \o c, x) /\ b \o c \in Bytes
    <3>1. c \in Seq(Byte) /\ <<x>> \in Seq(Byte)
      BY <2>3 DEF Bytes
    <3>2. e = c \o <<x>> /\ b \o c \in Seq(Byte)
      BY <1>0, <2>3, <3>1, AppendIsConcat
    <3>3. b \o (c \o <<x>>) = (b \o c) \o <<x>>
      BY <1>0, <3>1, ConcatAssociative
    <3>4. Append(b \o c, x) = (b \o c) \o <<x>>
      BY <2>3, <3>2, AppendIsConcat
    <3> QED BY <3>2, <3>3, <3>4 DEF Bytes
  <2>5. Translate(b \o e, tab) = Translate(b \o c, tab) \o tab[x]
    BY <2>3, <2>4, TranslateAppend
  <2>6. Translate(e, tab) = Translate(c, tab) \o tab[x]
    BY <2>3, TranslateAppend
  <2>7. Translate(b \o c, tab) = Translate(b, tab) \o Translate(c, tab)
    BY <2>1, <2>2
  <2>8. tab[x] \in Seq(Byte) /\ Translate(c, tab) \in Seq(Byte)
    BY <2>3, TranslateType DEF Bytes
  <2>9. Translate(b \o e, tab) = Translate(b, tab) \o Translate(e, tab)
    <3>1. PICK tb, tc, cx : tb = Translate(b, tab) /\ tc = Translate(c, tab) /\ cx = tab[x]
      OBVIOUS
    <3>2. (tb \o tc) \o cx = tb \o (tc \o cx)
      <4>1. tb \in Seq(Byte) /\ tc \in Seq(Byte) /\ cx \in Seq(Byte)
        BY <1>0, <2>8, <3>1, Zenon
      <4> QED BY <4>1, ConcatAssociative
    <3> QED BY <2>5, <2>6, <2>7, <3>1, <3>2, Zenon
  <2>10. n + 1 \in Nat /\ P(n + 1)
    BY <2>2, <2>9
  <2> QED BY <2>10
<1>3. Len(d) \in G
  <2> HIDE DEF G
  <2>1. 0 .. Len(d) \subseteq G
    BY <1>0, <1>1, <1>2, Induction
  <2> QED BY <1>0, <2>1
<1>4. P(Len(d))
  BY <1>3
<1>5. SubSeq(d, 1, Len(d)) = d
  BY <1>0, SubSeqFull
<1> QED BY <1>4, <1>5

\* Bytes that tab leaves alone stay as they are.
LEMMA TranslateSame ==
    ASSUME NEW tab \in [Byte -> Bytes], NEW d \in Bytes,
           \A i \in 1 .. Len(d) : tab[d[i]] = <<d[i]>>
    PROVE  Translate(d, tab) = d
<1> DEFINE P(n) == Translate(SubSeq(d, 1, n), tab) = SubSeq(d, 1, n)
           G == {n \in Nat : P(n)}
<1>0. d \in Seq(Byte) /\ Len(d) \in Nat
  BY DEF Bytes
<1>1. 0 \in G
  <2>1. SubSeq(d, 1, 0) = <<>>
    BY SubSeqEmpty
  <2>2. P(0)
    BY <2>1, TranslateEmpty
  <2> QED BY <2>2
<1>2. ASSUME NEW n \in 0 .. Len(d) - 1, n \in G PROVE n + 1 \in G
  <2>1. P(n)
    BY <1>2
  <2>2. PICK c, x, e : c = SubSeq(d, 1, n) /\ x = d[n + 1] /\ e = SubSeq(d, 1, n + 1)
    OBVIOUS
  <2>3. c \in Bytes /\ x \in Byte /\ e = Append(c, x)
    BY <2>2, PrefixStep
  <2>4. tab[x] = <<x>>
    <3>1. n + 1 \in 1 .. Len(d)
      BY <1>0
    <3> QED BY <2>2, <3>1
  <2>5. Translate(e, tab) = c \o <<x>>
    BY <2>1, <2>2, <2>3, <2>4, TranslateAppend
  <2>6. e = c \o <<x>>
    BY <2>3, AppendIsConcat DEF Bytes
  <2>7. Translate(e, tab) = e /\ n + 1 \in Nat
    BY <2>5, <2>6
  <2>8. n + 1 \in Nat /\ P(n + 1)
    BY <2>2, <2>7
  <2> QED BY <2>8
<1>3. Len(d) \in G
  <2> HIDE DEF G
  <2>1. 0 .. Len(d) \subseteq G
    BY <1>0, <1>1, <1>2, Induction
  <2> QED BY <1>0, <2>1
<1>4. P(Len(d))
  BY <1>3
<1>5. SubSeq(d, 1, Len(d)) = d
  BY <1>0, SubSeqFull
<1> QED BY <1>4, <1>5

(***************************************************************************)
(* What STOR writes.                                                       *)
(***************************************************************************)
TransferType == {"ascii", "binary"}

LEMMA Codes ==
    /\ EndLines \in [Byte -> Bytes] /\ DropCr \in [Byte -> Bytes]
    /\ Cr \in Byte /\ Lf \in Byte /\ 0 \in Byte
    /\ <<Cr, Lf>> \in Bytes /\ <<>> \in Bytes
    /\ EndLines[Lf] = <<Cr, Lf>>
    /\ \A x \in Byte : x # Lf => EndLines[x] = <<x>>
<1>1. Cr \in Byte /\ Lf \in Byte /\ 0 \in Byte
  BY FtpAssumption
<1>2. \A x \in Byte : <<x>> \in Bytes
  BY DEF Bytes
<1>3. <<Cr, Lf>> \in Bytes /\ <<>> \in Bytes
  BY <1>1 DEF Bytes
<1> QED BY <1>1, <1>2, <1>3 DEF EndLines, DropCr

LEMMA StoredType ==
    ASSUME NEW b \in Bytes, NEW t \in TransferType
    PROVE  Stored(b, t) \in Bytes
BY TranslateType, Codes DEF Stored, TransferType

LEMMA StoredEmpty ==
    ASSUME NEW t \in TransferType
    PROVE  Stored(<<>>, t) = <<>>
BY TranslateEmpty DEF Stored

LEMMA StoredConcat ==
    ASSUME NEW a \in Bytes, NEW d \in Bytes, NEW t \in TransferType
    PROVE  Stored(a \o d, t) = Stored(a, t) \o Stored(d, t)
BY TranslateConcat, Codes DEF Stored

LEMMA OverlayType ==
    ASSUME NEW b \in Bytes, NEW d \in Bytes, NEW p \in Nat
    PROVE  Overlay(b, p, d) \in Bytes
<1>1. b \in Seq(Byte) /\ d \in Seq(Byte) /\ Len(b) \in Nat /\ Len(d) \in Nat /\ 0 \in Byte
  BY Codes DEF Bytes
<1>2. PICK n \in Nat : n = IF p + Len(d) > Len(b) THEN p + Len(d) ELSE Len(b)
  BY <1>1
<1> DEFINE e(i) == IF i \in p + 1 .. p + Len(d) THEN d[i - p] ELSE IF i <= Len(b) THEN b[i] ELSE 0
<1>3. ASSUME NEW i \in 1 .. n PROVE e(i) \in Byte
  <2>1. CASE i \in p + 1 .. p + Len(d)
    BY <1>1, <2>1
  <2>2. CASE i \notin p + 1 .. p + Len(d)
    BY <1>1, <2>2
  <2> QED BY <2>1, <2>2
<1>4. [i \in 1 .. n |-> e(i)] \in Seq(Byte)
  BY <1>3
<1> QED BY <1>2, <1>4 DEF Overlay, Bytes

LEMMA OverlayAtEnd ==
    ASSUME NEW b \in Bytes, NEW d \in Bytes
    PROVE  Overlay(b, Len(b), d) = b \o d
<1>1. b \in Seq(Byte) /\ d \in Seq(Byte) /\ Len(b) \in Nat /\ Len(d) \in Nat
  BY DEF Bytes
<1>2. PICK n \in Nat : n = Len(b) + Len(d)
  BY <1>1
<1>3. n = IF Len(b) + Len(d) > Len(b) THEN Len(b) + Len(d) ELSE Len(b)
  BY <1>1, <1>2
<1>4. PICK o : o = Overlay(b, Len(b), d)
  OBVIOUS
<1>5. o = [i \in 1 .. n |-> IF i \in Len(b) + 1 .. n THEN d[i - Len(b)]
                           ELSE IF i <= Len(b) THEN b[i] ELSE 0]
  BY <1>2, <1>3, <1>4 DEF Overlay
<1>6. o \in Seq(Byte)
  BY <1>1, <1>4, OverlayType DEF Bytes
<1>7. Len(o) = n
  BY <1>5, <1>6
<1>8. PICK c : c = b \o d
  OBVIOUS
<1>9. /\ c \in Seq(Byte) /\ Len(c) = n
      /\ \A i \in 1 .. n : c[i] = IF i <= Len(b) THEN b[i] ELSE d[i - Len(b)]
  BY <1>1, <1>2, <1>8, ConcatProperties
<1>10. ASSUME NEW i \in 1 .. n PROVE o[i] = c[i]
  <2>1. CASE i <= Len(b)
    <3>1. i \notin Len(b) + 1 .. n
      BY <1>1, <2>1
    <3> QED BY <1>5, <1>9, <2>1, <3>1
  <2>2. CASE ~(i <= Len(b))
    <3>1. i \in Len(b) + 1 .. n
      BY <1>1, <2>2
    <3> QED BY <1>5, <1>9, <2>2, <3>1
  <2> QED BY <2>1, <2>2
<1>11. o = c
  BY <1>6, <1>7, <1>9, <1>10, SeqEqual
<1> QED BY <1>4, <1>8, <1>11

(***************************************************************************)
(* What RETR sends.                                                        *)
(***************************************************************************)
LEMMA LineEndFacts ==
    ASSUME NEW b \in Bytes, NEW p \in Nat, p < Len(b)
    PROVE  /\ LineEnd(b, p) \in p + 1 .. Len(b) + 1
           /\ \A i \in p + 1 .. LineEnd(b, p) - 1 : b[i] # Lf
           /\ LineEnd(b, p) <= Len(b) => b[LineEnd(b, p)] = Lf
<1>0. Len(b) \in Nat
  BY DEF Bytes
<1> DEFINE ends == {i \in p + 1 .. Len(b) : b[i] = Lf}
<1>1. CASE ends = {}
  <2>1. LineEnd(b, p) = Len(b) + 1
    BY <1>1 DEF LineEnd
  <2> QED BY <1>0, <1>1, <2>1
<1>2. CASE ends # {}
  <2>1. ends \subseteq Nat
    BY <1>0
  <2>2. \E i \in ends : \A j \in ends : i <= j
    BY <1>2, <2>1, LeastNatural
  <2>3. LineEnd(b, p) = CHOOSE i \in ends : \A j \in ends : i <= j
    BY <1>2 DEF LineEnd
  <2>4. LineEnd(b, p) \in ends /\ \A j \in ends : LineEnd(b, p) <= j
    <3> HIDE DEF ends
    <3> QED BY <2>2, <2>3
  <2>5. PICK l : l = LineEnd(b, p)
    OBVIOUS
  <2>6. l \in p + 1 .. Len(b) /\ b[l] = Lf
    BY <2>4, <2>5
  <2>7. ASSUME NEW i \in p + 1 .. l - 1 PROVE b[i] # Lf
    <3>1. i \in p + 1 .. Len(b) /\ ~(l <= i)
      BY <1>0, <2>6
    <3>2. i \notin ends
      BY <2>4, <2>5, <3>1
    <3> QED BY <3>1, <3>2
  <2> QED BY <1>0, <2>5, <2>6, <2>7
<1> QED BY <1>1, <1>2

LEMMA AfterFacts ==
    ASSUME NEW b \in Bytes, NEW p \in Nat, p < Len(b), NEW t \in TransferType
    PROVE  After(b, p, t) \in p + 1 .. Len(b)
<1>1. Len(b) \in Nat /\ RetrSize \in Nat /\ RetrSize > 0
  BY FtpAssumption DEF Bytes
<1>2. PICK l : l = LineEnd(b, p)
  OBVIOUS
<1>3. l \in p + 1 .. Len(b) + 1
  BY <1>2, LineEndFacts
<1> QED BY <1>1, <1>2, <1>3 DEF After

LEMMA SubSeqBytes ==
    ASSUME NEW b \in Bytes, NEW m \in Nat, NEW n \in Nat, m >= 1, n <= Len(b)
    PROVE  SubSeq(b, m, n) \in Bytes
BY DEF Bytes

LEMMA PieceType ==
    ASSUME NEW b \in Bytes, NEW p \in Nat, p < Len(b), NEW t \in TransferType
    PROVE  Piece(b, p, t) \in Bytes
<1>1. Len(b) \in Nat
  BY DEF Bytes
<1>2. CASE t = "binary"
  <2>1. PICK a : a = After(b, p, t)
    OBVIOUS
  <2>2. a \in p + 1 .. Len(b)
    BY <2>1, AfterFacts
  <2>3. SubSeq(b, p + 1, a) \in Bytes
    BY <1>1, <2>2, SubSeqBytes
  <2> QED BY <1>2, <2>1, <2>3 DEF Piece
<1>3. CASE t # "binary"
  <2>1. PICK l : l = LineEnd(b, p)
    OBVIOUS
  <2>2. l \in p + 1 .. Len(b) + 1
    BY <2>1, LineEndFacts
  <2>3. SubSeq(b, p + 1, l - 1) \in Bytes
    BY <1>1, <2>2, SubSeqBytes
  <2>4. SubSeq(b, p + 1, l - 1) \o <<Cr, Lf>> \in Bytes
    BY <2>3, Codes, ConcatProperties DEF Bytes
  <2> QED BY <1>3, <2>1, <2>4 DEF Piece
<1> QED BY <1>2, <1>3

\* What has been sent of b when the stream is at position p.
Sent(b, p, t) ==
    IF p = Len(b) THEN Wire(b, t)
    ELSE IF t = "binary" THEN SubSeq(b, 1, p)
    ELSE Translate(SubSeq(b, 1, p), EndLines)

LEMMA SentStart ==
    ASSUME NEW b \in Bytes, NEW t \in TransferType
    PROVE  Sent(b, 0, t) = <<>>
<1>1. CASE Len(b) = 0
  <2>1. b = <<>>
    BY <1>1 DEF Bytes
  <2> QED BY <1>1, <2>1 DEF Sent, Wire
<1>2. CASE Len(b) # 0
  <2>1. SubSeq(b, 1, 0) = <<>>
    BY SubSeqEmpty
  <2> QED BY <1>2, <2>1, TranslateEmpty DEF Sent
<1> QED BY <1>1, <1>2

LEMMA SentStepBinary ==
    ASSUME NEW b \in Bytes, NEW p \in Nat, p < Len(b), NEW t, t = "binary"
    PROVE  Sent(b, p, t) \o Piece(b, p, t) = Sent(b, After(b, p, t), t)
<1>1. PICK a : a = After(b, p, t)
  OBVIOUS
<1>2. a \in p + 1 .. Len(b) /\ Len(b) \in Nat /\ b \in Seq(Byte)
  BY <1>1, AfterFacts DEF TransferType, Bytes
<1>3. SubSeq(b, 1, p) \o SubSeq(b, p + 1, a) = SubSeq(b, 1, a)
  <2>1. 1 \in 1 .. Len(b) + 1 /\ p \in 1 - 1 .. Len(b) /\ a \in p .. Len(b)
    BY <1>2
  <2> QED BY <1>2, <2>1, ConcatAdjacentSubSeq
<1>4. Sent(b, p, t) = SubSeq(b, 1, p)
  BY <1>2 DEF Sent
<1>5. Piece(b, p, t) = SubSeq(b, p + 1, a)
  BY <1>1 DEF Piece
<1>6. Sent(b, a, t) = SubSeq(b, 1, a)
  <2>1. SubSeq(b, 1, Len(b)) = b
    BY <1>2, SubSeqFull
  <2> QED BY <2>1 DEF Sent, Wire
<1> QED BY <1>1, <1>3, <1>4, <1>5, <1>6

\* A line, without its end, translates to itself.
LEMMA LineTranslated ==
    ASSUME NEW b \in Bytes, NEW p \in Nat, NEW n \in Nat, p <= n, n <= Len(b),
           \A i \in p + 1 .. n : b[i] # Lf
    PROVE  Translate(SubSeq(b, 1, p), EndLines) \o SubSeq(b, p + 1, n)
             = Translate(SubSeq(b, 1, n), EndLines)
<1>1. b \in Seq(Byte) /\ Len(b) \in Nat
  BY DEF Bytes
<1>2. PICK c, d : c = SubSeq(b, 1, p) /\ d = SubSeq(b, p + 1, n)
  OBVIOUS
<1>3. c \in Bytes /\ d \in Bytes
  BY <1>1, <1>2, SubSeqBytes
<1>4. Translate(d, EndLines) = d
  <2>1. Len(d) = n - p /\ \A i \in 1 .. n - p : d[i] = b[p + i]
    BY <1>1, <1>2
  <2>2. ASSUME NEW i \in 1 .. Len(d) PROVE EndLines[d[i]] = <<d[i]>>
    <3>1. p + i \in p + 1 .. n /\ d[i] = b[p + i]
      BY <2>1
    <3>2. d[i] # Lf /\ d[i] \in Byte
      BY <1>3, <3>1 DEF Bytes
    <3> QED BY <3>2, Codes
  <2> QED BY <1>3, <2>2, TranslateSame, Codes
<1>5. c \o d = SubSeq(b, 1, n)
  <2>1. 1 \in 1 .. Len(b) + 1 /\ p \in 1 - 1 .. Len(b) /\ n \in p .. Len(b)
    BY <1>1
  <2> QED BY <1>1, <1>2, <2>1, ConcatAdjacentSubSeq
<1>6. Translate(c \o d, EndLines) = Translate(c, EndLines) \o Translate(d, EndLines)
  BY <1>3, TranslateConcat, Codes
<1> QED BY <1>2, <1>4, <1>5, <1>6

LEMMA SentStepAscii ==
    ASSUME NEW b \in Bytes, NEW p \in Nat, p < Len(b), NEW t, t = "ascii"
    PROVE  Sent(b, p, t) \o Piece(b, p, t) = Sent(b, After(b, p, t), t)
<1>1. PICK l : l = LineEnd(b, p)
  OBVIOUS
<1>2. /\ l \in p + 1 .. Len(b) + 1 /\ Len(b) \in Nat /\ b \in Seq(Byte)
      /\ \A i \in p + 1 .. l - 1 : b[i] # Lf
      /\ l <= Len(b) => b[l] = Lf
  BY <1>1, LineEndFacts DEF Bytes
<1>3. PICK c, d, e : /\ c = Translate(SubSeq(b, 1, p), EndLines) /\ d = SubSeq(b, p + 1, l - 1)
                     /\ e = Translate(SubSeq(b, 1, l - 1), EndLines)
  OBVIOUS
<1>4. c \o d = e
  <2>1. PICK n \in Nat : n = l - 1
    BY <1>2
  <2>2. p <= n /\ n <= Len(b) /\ \A i \in p + 1 .. n : b[i] # Lf
    BY <1>2, <2>1
  <2>3. Translate(SubSeq(b, 1, p), EndLines) \o SubSeq(b, p + 1, n)
          = Translate(SubSeq(b, 1, n), EndLines)
    BY <2>2, LineTranslated
  <2> QED BY <1>3, <2>1, <2>3
<1>5. c \in Seq(Byte) /\ d \in Seq(Byte) /\ <<Cr, Lf>> \in Seq(Byte)
  <2>1. SubSeq(b, 1, p) \in Bytes /\ SubSeq(b, p + 1, l - 1) \in Bytes
    BY <1>2, SubSeqBytes
  <2> QED BY <1>3, <2>1, TranslateType, Codes DEF Bytes
<1>6. Sent(b, p, t) \o Piece(b, p, t) = e \o <<Cr, Lf>>
  <2>1. Sent(b, p, t) = c
    BY <1>2, <1>3 DEF Sent
  <2>2. Piece(b, p, t) = d \o <<Cr, Lf>>
    BY <1>1, <1>3 DEF Piece
  <2>3. c \o (d \o <<Cr, Lf>>) = (c \o d) \o <<Cr, Lf>>
    BY <1>5, ConcatAssociative
  <2> QED BY <1>4, <2>1, <2>2, <2>3
<1>7. CASE l <= Len(b)
  <2>1. After(b, p, t) = l
    BY <1>1, <1>2, <1>7 DEF After
  <2>2. Translate(SubSeq(b, 1, l), EndLines) = e \o <<Cr, Lf>>
    <3>1. PICK n \in Nat : n = l - 1
      BY <1>2
    <3>2. n \in 0 .. Len(b) - 1 /\ n + 1 = l
      BY <1>2, <1>7, <3>1
    <3>3. SubSeq(b, 1, n) \in Bytes /\ SubSeq(b, 1, l) = Append(SubSeq(b, 1, n), b[l])
      BY <3>2, PrefixStep
    <3>4. Translate(SubSeq(b, 1, l), EndLines) = Translate(SubSeq(b, 1, n), EndLines) \o EndLines[Lf]
      <4>1. PICK u : u = SubSeq(b, 1, n)
        OBVIOUS
      <4>2. u \in Bytes /\ SubSeq(b, 1, l) = Append(u, Lf)
        BY <1>2, <1>7, <3>3, <4>1
      <4>3. Translate(Append(u, Lf), EndLines) = Translate(u, EndLines) \o EndLines[Lf]
        BY <4>2, TranslateAppend, Codes
      <4> QED BY <4>1, <4>2, <4>3
    <3> QED BY <1>3, <3>1, <3>4, Codes
  <2>3. CASE l = Len(b)
    <3>1. SubSeq(b, 1, l) = b
      BY <1>2, <2>3, SubSeqFull
    <3>2. b # <<>> /\ Last(b) = Lf
      BY <1>2, <1>7, <2>3 DEF Last
    <3>3. Translate(b, EndLines) \in Seq(Byte)
      BY TranslateType, Codes DEF Bytes
    <3>4. Wire(b, t) = Translate(b, EndLines) \o <<>>
      BY <3>2 DEF Wire
    <3>5. Wire(b, t) = Translate(b, EndLines)
      BY <3>3, <3>4, ConcatEmptySeq
    <3> QED BY <1>6, <2>1, <2>2, <2>3, <3>1, <3>5 DEF Sent
  <2>4. CASE l # Len(b)
    BY <1>6, <2>1, <2>2, <2>4 DEF Sent
  <2> QED BY <2>3, <2>4
<1>8. CASE l = Len(b) + 1
  <2>1. After(b, p, t) = Len(b) /\ l - 1 = Len(b)
    BY <1>1, <1>2, <1>8 DEF After
  <2>2. SubSeq(b, 1, l - 1) = b
    BY <1>2, <2>1, SubSeqFull
  <2>3. Len(b) \in p + 1 .. l - 1
    BY <1>2, <2>1
  <2>4. b # <<>> /\ Last(b) # Lf
    BY <1>2, <2>3 DEF Last
  <2>5. Wire(b, t) = Translate(b, EndLines) \o <<Cr, Lf>>
    BY <2>4 DEF Wire
  <2> QED BY <1>3, <1>6, <2>1, <2>2, <2>5 DEF Sent
<1> QED BY <1>2, <1>7, <1>8

(***************************************************************************)
(* The inductive invariant.                                                *)
(***************************************************************************)
Pcs == {"none", "command", "listen", "accept", "list", "open", "retr", "stor", "sent",
        "received", "ended"}
Links == {"closed", "unconnected", "active", "passive", "eof"}

\* The parts of TypeOK.
ControlOK ==
    /\ pc \in [Session -> Pcs] /\ commands \in 0 .. MaxCommand
    /\ user \in [Session -> BOOLEAN] /\ type \in [Session -> TransferType]
    /\ currDir \in [Session -> Path]

DiskOK ==
    /\ tree \in [Path -> File \cup {"dir", "none"}]
    /\ content \in [File -> Bytes]

OpenOK ==
    /\ path \in [Session -> Path \cup {NoPath}]
    /\ file \in [Session -> File \cup {NoFile}]
    /\ pos \in [Session -> Nat] /\ buffer \in [Session -> Bytes]

HistoryOK ==
    /\ code \in [Session -> {0, 150, 226, 446}]
    /\ moved \in [Session -> Bytes] /\ want \in [Session -> Bytes]
    /\ alone \in [Session -> BOOLEAN]

NetOK ==
    /\ link \in [Session -> Links]
    /\ peer \in [Session -> Session \cup {Nobody}]
    /\ \A s \in Session : peer[s] # Nobody <=> link[s] \in {"active", "passive"}
    /\ acceptor \in [Session -> {"closed", "open", "listening"}]
    /\ backlog \in Seq(Session)

\* Whoever waits for or has a passive connection still listens on the data
\* port, and one session at a time does.
Listens ==
    /\ \A s \in Session : pc[s] = "accept" \/ link[s] = "passive" => acceptor[s] = "listening"
    /\ \A s, t \in Session : acceptor[s] = "listening" /\ acceptor[t] = "listening" => s = t

\* Between transfers a session has no file open and nothing in its buffers.
Idle(s) ==
    pc[s] \notin {"retr", "stor", "sent", "received"} =>
        /\ file[s] = NoFile /\ pos[s] = 0 /\ buffer[s] = <<>>
        /\ moved[s] = <<>> /\ want[s] = <<>>

Found(s) ==
    /\ pc[s] \in {"open", "list"} => path[s] \in Path
    /\ pc[s] \in {"open", "retr"} => code[s] = 150

\* While nobody else writes its file, RETR has sent what it has read of it.
Sending(s) ==
    pc[s] = "retr" /\ alone[s] =>
        /\ file[s] # NoFile /\ content[file[s]] = want[s]
        /\ pos[s] <= Len(want[s])
        /\ moved[s] = Sent(want[s], pos[s], type[s])

SentWhole(s) ==
    pc[s] = "sent" /\ code[s] = 226 /\ alone[s] => moved[s] = Wire(want[s], type[s])

\* While nobody else writes its file, STOR has received what is in the file and
\* in the stream's buffer.
Storing(s) ==
    pc[s] = "stor" /\ alone[s] /\ file[s] # NoFile =>
        /\ content[file[s]] \o buffer[s] = Stored(moved[s], type[s])
        /\ pos[s] = Len(content[file[s]])

StoredWhole(s) ==
    pc[s] = "received" /\ alone[s] /\ file[s] # NoFile =>
        content[file[s]] = Stored(moved[s], type[s])

Transfer(s) ==
    Idle(s) /\ Found(s) /\ Sending(s) /\ SentWhole(s) /\ Storing(s) /\ StoredWhole(s)

FtpInv ==
    /\ ControlOK /\ DiskOK /\ OpenOK /\ HistoryOK /\ NetOK
    /\ Listens
    /\ \A s \in Session : Transfer(s)

LEMMA TypeParts ==
    TypeOK <=> ControlOK /\ DiskOK /\ OpenOK /\ HistoryOK /\ NetOK
BY DEF TypeOK, ControlOK, DiskOK, OpenOK, HistoryOK, NetOK, Pcs, Links, TransferType, Linked

LEMMA FtpConstants ==
    /\ Nobody \notin Session /\ NoPath \notin Path /\ NoFile \notin File
    /\ HomeDir \in Path /\ Parent \in [Path -> Path \cup {NoPath}]
    /\ Tree0 \in [Path -> File \cup {"dir", "none"}] /\ Content0 \in [File -> Bytes]
    /\ Upload \in [Session -> Bytes] /\ MaxCommand \in Nat /\ StorSize \in Nat
    /\ "dir" \notin File /\ "none" \notin File
BY FtpAssumption

LEMMA InitInv == Init => FtpInv
<1> SUFFICES ASSUME Init PROVE FtpInv
  OBVIOUS
<1>1. ControlOK
  BY FtpConstants DEF Init, ControlOK, Pcs, TransferType
<1>2. DiskOK /\ OpenOK /\ HistoryOK
  BY FtpConstants, Codes DEF Init, DiskOK, OpenOK, HistoryOK
<1>3. NetOK /\ Listens
  BY DEF Init, NetOK, Listens, Links
<1>4. \A s \in Session : Transfer(s)
  BY DEF Init, Transfer, Idle, Found, Sending, SentWhole, Storing, StoredWhole
<1> QED BY <1>1, <1>2, <1>3, <1>4 DEF FtpInv

(***************************************************************************)
(* What a step leaves alone.                                               *)
(***************************************************************************)
\* A session that a step does not move keeps its part of the invariant,
\* provided the step tells it (by alone) when its file changes.
LEMMA Kept ==
    ASSUME NEW q \in Session, Transfer(q),
           pc'[q] = pc[q], type'[q] = type[q], path'[q] = path[q], file'[q] = file[q],
           pos'[q] = pos[q], buffer'[q] = buffer[q], code'[q] = code[q],
           moved'[q] = moved[q], want'[q] = want[q],
           alone'[q] => alone[q],
           alone'[q] /\ file[q] # NoFile => content'[file[q]] = content[file[q]]
    PROVE  Transfer(q)'
<1>1. Idle(q)' /\ Found(q)'
  BY DEF Transfer, Idle, Found
<1>2. Sending(q)' /\ SentWhole(q)'
  BY DEF Transfer, Sending, SentWhole
<1>3. Storing(q)' /\ StoredWhole(q)'
  BY DEF Transfer, Storing, StoredWhole
<1> QED BY <1>1, <1>2, <1>3 DEF Transfer

LEMMA NetKept ==
    ASSUME NetOK, Listens, UNCHANGED netVars,
           \A q \in Session : pc'[q] = "accept" => pc[q] = "accept"
    PROVE  NetOK' /\ Listens'
BY DEF NetOK, Listens, netVars

\* The states of a thread in which no transfer is under way.
Calm == {"none", "command", "listen", "accept", "ended"}

\* A step of s outside transfers.
CalmStep(s) ==
    /\ pc[s] \in Calm /\ \E x \in Calm : pc' = [pc EXCEPT ![s] = x]
    /\ \A q \in Session : q # s => type'[q] = type[q] /\ code'[q] = code[q]
    /\ UNCHANGED <<content, openVars, moved, want, alone>>

LEMMA CalmTransfers ==
    ASSUME FtpInv, NEW s \in Session, CalmStep(s)
    PROVE  (\A q \in Session : Transfer(q))'
<1> SUFFICES ASSUME NEW q \in Session PROVE Transfer(q)'
  OBVIOUS
<1>1. Transfer(q) /\ pc \in [Session -> Pcs]
  BY DEF FtpInv, ControlOK
<1>2. CASE q = s
  <2>1. pc[s] \in Calm /\ pc'[s] \in Calm
    BY <1>1 DEF CalmStep
  <2>2. Idle(s)'
    BY <1>1, <1>2, <2>1 DEF CalmStep, openVars, Transfer, Idle, Calm
  <2>3. (Found(s) /\ Sending(s) /\ SentWhole(s) /\ Storing(s) /\ StoredWhole(s))'
    BY <2>1 DEF Calm, Found, Sending, SentWhole, Storing, StoredWhole
  <2> QED BY <1>2, <2>2, <2>3 DEF Transfer
<1>3. CASE q # s
  <2>1. pc'[q] = pc[q]
    BY <1>1, <1>3 DEF CalmStep
  <2> QED BY <1>1, <1>3, <2>1, Kept DEF CalmStep, openVars
<1> QED BY <1>2, <1>3

LEMMA ReplyType ==
    ASSUME HistoryOK, NEW s \in Session, NEW n, Reply(s, n)
    PROVE  /\ code' \in [Session -> {0, 150, 226, 446}]
           /\ \A q \in Session : q # s => code'[q] = code[q]
           /\ code'[s] = IF n \in {150, 226, 446} THEN n ELSE 0
BY DEF HistoryOK, Reply

LEMMA ExecutesType ==
    ASSUME ControlOK, NEW s \in Session, NEW c, Executes(s, c)
    PROVE  commands' \in 0 .. MaxCommand /\ pc[s] = "command"
BY FtpConstants DEF ControlOK, Executes

(***************************************************************************)
(* Commands without a transfer.                                            *)
(***************************************************************************)
LEMMA CalmInv ==
    ASSUME FtpInv, NEW s \in Session, CalmStep(s),
           commands' \in 0 .. MaxCommand, user' \in [Session -> BOOLEAN],
           type' \in [Session -> TransferType], currDir' \in [Session -> Path],
           tree' \in [Path -> File \cup {"dir", "none"}],
           code' \in [Session -> {0, 150, 226, 446}], NetOK', Listens'
    PROVE  FtpInv'
<1>1. ControlOK'
  <2>1. PICK x \in Calm : pc' = [pc EXCEPT ![s] = x]
    BY DEF CalmStep
  <2>2. pc' \in [Session -> Pcs]
    BY <2>1 DEF FtpInv, ControlOK, Calm, Pcs
  <2> QED BY <2>2 DEF ControlOK
<1>2. DiskOK' /\ OpenOK' /\ HistoryOK'
  BY DEF FtpInv, CalmStep, DiskOK, OpenOK, HistoryOK, openVars
<1> QED BY <1>1, <1>2, CalmTransfers DEF FtpInv

\* A command that is answered, and changes the session's settings or the tree.
LEMMA CommandInv ==
    ASSUME FtpInv, NEW s \in Session, NEW c, Executes(s, c), NEW n, Reply(s, n),
           UNCHANGED pc \/ \E x \in {"command", "listen", "ended"} : pc' = [pc EXCEPT ![s] = x],
           UNCHANGED <<netVars, content, openVars>>,
           user' \in [Session -> BOOLEAN], type' \in [Session -> TransferType],
           \A q \in Session : q # s => type'[q] = type[q],
           currDir' \in [Session -> Path], tree' \in [Path -> File \cup {"dir", "none"}]
    PROVE  FtpInv'
<1>1. ControlOK /\ HistoryOK /\ NetOK /\ Listens /\ pc \in [Session -> Pcs]
  BY DEF FtpInv, ControlOK
<1>2. commands' \in 0 .. MaxCommand /\ pc[s] = "command"
  BY <1>1, ExecutesType
<1>3. \E x \in {"command", "listen", "ended"} : pc' = [pc EXCEPT ![s] = x]
  BY <1>1, <1>2
<1>4. /\ code' \in [Session -> {0, 150, 226, 446}]
      /\ \A q \in Session : q # s => code'[q] = code[q]
  BY <1>1, ReplyType
<1>5. CalmStep(s)
  BY <1>2, <1>3, <1>4 DEF CalmStep, Calm, Executes
<1>6. \A q \in Session : pc'[q] = "accept" => pc[q] = "accept"
  BY <1>1, <1>3
<1>7. NetOK' /\ Listens'
  BY <1>1, <1>6, NetKept
<1> QED BY <1>2, <1>4, <1>5, <1>7, CalmInv

\* What FtpInv says of the settings and the tree.
LEMMA Settings ==
    ASSUME FtpInv
    PROVE  /\ user \in [Session -> BOOLEAN] /\ type \in [Session -> TransferType]
           /\ currDir \in [Session -> Path]
           /\ tree \in [Path -> File \cup {"dir", "none"}]
           /\ pc \in [Session -> Pcs]
BY DEF FtpInv, ControlOK, DiskOK

LEMMA OtherInv ==
    ASSUME FtpInv, NEW s \in Session, Other(s) \/ Pass(s)
    PROVE  FtpInv'
<1>1. CASE Other(s)
  BY <1>1, Settings, CommandInv DEF Other, Answers, diskVars
<1>2. CASE Pass(s)
  <2>1. PICK n : Answers(s, n)
    BY <1>2 DEF Pass
  <2> QED BY <1>2, <2>1, Settings, CommandInv DEF Pass, Answers, diskVars
<1> QED BY <1>1, <1>2

LEMMA UserInv ==
    ASSUME FtpInv, NEW s \in Session, User(s)
    PROVE  FtpInv'
<1>1. user' \in [Session -> BOOLEAN]
  BY Settings DEF User
<1>2. PICK n : Answers(s, n)
  BY DEF User
<1> QED BY <1>1, <1>2, Settings, CommandInv DEF User, Answers, diskVars

LEMMA TypeInv ==
    ASSUME FtpInv, NEW s \in Session, Type(s)
    PROVE  FtpInv'
<1>1. type' \in [Session -> TransferType] /\ \A q \in Session : q # s => type'[q] = type[q]
  BY Settings DEF Type, TransferType
<1>2. PICK n : Answers(s, n)
  BY DEF Type
<1> QED BY <1>1, <1>2, Settings, CommandInv DEF Type, Answers, diskVars

LEMMA CwdInv ==
    ASSUME FtpInv, NEW s \in Session, Cwd(s)
    PROVE  FtpInv'
<1>1. currDir' \in [Session -> Path]
  <2>1. CASE UNCHANGED currDir
    BY <2>1, Settings
  <2>2. ASSUME NEW d \in (Children(currDir[s]) \cup {currDir[s], Parent[currDir[s]]}) \ {NoPath},
               currDir' = [currDir EXCEPT ![s] = d]
        PROVE  currDir' \in [Session -> Path]
    <3>1. d \in Path
      BY Settings, FtpConstants DEF Children
    <3> QED BY <2>2, <3>1, Settings
  <2> QED BY <2>1, <2>2 DEF Cwd
<1>2. PICK n : Answers(s, n)
  BY DEF Cwd
<1> QED BY <1>1, <1>2, Settings, CommandInv DEF Cwd, Answers, diskVars

LEMMA TreeInv ==
    ASSUME FtpInv, NEW s \in Session, Dele(s) \/ Mkd(s) \/ Rmd(s)
    PROVE  FtpInv'
<1>1. tree' \in [Path -> File \cup {"dir", "none"}]
  BY Settings DEF Dele, Mkd, Rmd, Children
<1>2. PICK n : Answers(s, n)
  BY DEF Dele, Mkd, Rmd
<1>3. PICK c : Executes(s, c)
  BY DEF Dele, Mkd, Rmd
<1>4. UNCHANGED <<user, type, currDir, netVars, content, openVars>>
  BY DEF Dele, Mkd, Rmd
<1> QED BY <1>1, <1>2, <1>3, <1>4, Settings, CommandInv DEF Answers

LEMMA LeaveInv ==
    ASSUME FtpInv, NEW s \in Session, Pasv(s) \/ Quit(s) \/ BadPort(s)
    PROVE  FtpInv'
<1>1. PICK c, n : Executes(s, c) /\ Reply(s, n)
  BY DEF Pasv, Quit, BadPort
<1>2. \E x \in {"command", "listen", "ended"} : pc' = [pc EXCEPT ![s] = x]
  BY DEF Pasv, Quit, BadPort, Leave
<1>3. UNCHANGED <<user, type, currDir, netVars, diskVars, openVars>>
  BY DEF Pasv, Quit, BadPort, Leave
<1> QED BY <1>1, <1>2, <1>3, Settings, CommandInv DEF diskVars

LEMMA NoDataInv ==
    ASSUME FtpInv, NEW s \in Session, NEW c, NoData(s, c)
    PROVE  FtpInv'
BY Settings, CommandInv DEF NoData, Answers, diskVars

\* The control connection is made or lost.
LEMMA ConnectionInv ==
    ASSUME FtpInv, NEW s \in Session, Connected(s) \/ HangUp(s)
    PROVE  FtpInv'
<1>1. ControlOK /\ HistoryOK /\ NetOK /\ Listens
  BY DEF FtpInv
<1>2. /\ code' \in [Session -> {0, 150, 226, 446}]
      /\ \A q \in Session : q # s => code'[q] = code[q]
  <2>1. CASE Connected(s)
    BY <1>1, <2>1, ReplyType DEF Connected
  <2>2. CASE HangUp(s)
    BY <1>1, <2>2 DEF HangUp, history, HistoryOK
  <2> QED BY <2>1, <2>2
<1>3. CalmStep(s)
  BY <1>2 DEF Connected, HangUp, Leave, CalmStep, Calm, history, diskVars
<1>4. \A q \in Session : pc'[q] = "accept" => pc[q] = "accept"
  BY <1>1 DEF Connected, HangUp, Leave, ControlOK
<1>5. UNCHANGED <<commands, user, type, currDir, netVars, tree>>
  BY DEF Connected, HangUp, Leave, diskVars
<1>6. NetOK' /\ Listens'
  BY <1>1, <1>4, <1>5, NetKept
<1> QED BY <1>1, <1>2, <1>3, <1>5, <1>6, Settings, CalmInv DEF ControlOK

(***************************************************************************)
(* The data connection.                                                    *)
(***************************************************************************)
\* A step of s, outside transfers, that only concerns the network.
LEMMA NetInv ==
    ASSUME FtpInv, NEW s \in Session, pc[s] \in Calm,
           NEW x \in Calm, pc' = [pc EXCEPT ![s] = x],
           UNCHANGED <<commands, user, type, currDir, diskVars, openVars, history>>,
           NetOK', Listens'
    PROVE  FtpInv'
<1>1. CalmStep(s)
  BY DEF CalmStep, diskVars, history
<1>2. commands \in 0 .. MaxCommand /\ code \in [Session -> {0, 150, 226, 446}]
  BY DEF FtpInv, ControlOK, HistoryOK
<1> QED BY <1>1, <1>2, Settings, CalmInv DEF diskVars, history

\* A step of a client, which changes no session's thread.
LEMMA ClientInv ==
    ASSUME FtpInv, UNCHANGED <<pc, commands, user, type, currDir, diskVars, openVars, history>>,
           NetOK', Listens'
    PROVE  FtpInv'
<1>1. ControlOK' /\ DiskOK' /\ OpenOK' /\ HistoryOK'
  BY DEF FtpInv, ControlOK, DiskOK, OpenOK, HistoryOK, diskVars, openVars, history
<1>2. ASSUME NEW q \in Session PROVE Transfer(q)'
  BY Kept DEF FtpInv, diskVars, openVars, history
<1> QED BY <1>1, <1>2 DEF FtpInv

LEMMA PortInv ==
    ASSUME FtpInv, NEW s \in Session, Port(s)
    PROVE  FtpInv'
<1>1. ControlOK /\ HistoryOK /\ NetOK /\ Listens /\ pc \in [Session -> Pcs]
  BY DEF FtpInv, ControlOK
<1>2. Executes(s, "PORT") /\ UNCHANGED <<user, type, currDir, acceptor, backlog, diskVars, openVars>>
  BY DEF Port
<1>3. PICK n : Reply(s, n) /\ UNCHANGED pc
  BY DEF Port, Answers
<1>4. commands' \in 0 .. MaxCommand /\ pc[s] = "command"
  BY <1>1, <1>2, ExecutesType
<1>5. /\ code' \in [Session -> {0, 150, 226, 446}]
      /\ \A q \in Session : q # s => code'[q] = code[q]
  BY <1>1, <1>3, ReplyType
<1>6. CalmStep(s)
  <2>1. pc' = [pc EXCEPT ![s] = "command"]
    BY <1>1, <1>3, <1>4
  <2> QED BY <1>2, <1>4, <1>5, <2>1 DEF CalmStep, Calm, Executes, diskVars
<1>7. NetOK' /\ Listens'
  <2>1. \/ link' = [link EXCEPT ![s] = "active"] /\ peer' = [peer EXCEPT ![s] = s]
           /\ link[s] \in {"closed", "unconnected"}
        \/ link' = [link EXCEPT ![s] = IF @ = "closed" THEN "unconnected" ELSE @]
           /\ UNCHANGED peer
    BY DEF Port
  <2>2. NetOK'
    BY <1>1, <1>2, <2>1, FtpConstants DEF NetOK, Links
  <2>3. Listens'
    BY <1>1, <1>2, <1>3, <2>1 DEF NetOK, Listens, Links
  <2> QED BY <2>2, <2>3
<1> QED BY <1>2, <1>4, <1>5, <1>6, <1>7, Settings, CalmInv DEF diskVars

LEMMA ListenInv ==
    ASSUME FtpInv, NEW s \in Session, Listen(s)
    PROVE  FtpInv'
<1>1. NetOK /\ Listens /\ pc \in [Session -> Pcs] /\ pc[s] = "listen"
  BY DEF FtpInv, ControlOK, Listen
<1>2. UNCHANGED <<commands, user, type, currDir, link, peer, backlog, diskVars, openVars, history>>
  BY DEF Listen
<1>3. PICK x \in {"command", "accept"}, y \in {"closed", "open", "listening"} :
        /\ pc' = [pc EXCEPT ![s] = x]
        /\ acceptor' = [acceptor EXCEPT ![s] = y]
        /\ x = "accept" => y = "listening"
        /\ \/ y = acceptor[s]
           \/ /\ link[s] = "closed" /\ y = "open" /\ PortTaken
              /\ acceptor[s] = "closed"
           \/ link[s] = "closed" /\ y = "listening" /\ ~PortTaken
  BY <1>1 DEF Listen, NetOK, Refused
<1>4. NetOK'
  BY <1>1, <1>2, <1>3 DEF NetOK
<1>5. Listens'
  <2>1. ASSUME NEW q \in Session, pc'[q] = "accept" \/ link'[q] = "passive"
        PROVE  acceptor'[q] = "listening"
    BY <1>1, <1>2, <1>3, <2>1 DEF NetOK, Listens
  <2>2. ASSUME NEW q \in Session, NEW r \in Session,
               acceptor'[q] = "listening", acceptor'[r] = "listening"
        PROVE  q = r
    BY <1>1, <1>3, <2>2 DEF NetOK, Listens, PortTaken
  <2> QED BY <2>1, <2>2 DEF Listens
<1> QED BY <1>1, <1>2, <1>3, <1>4, <1>5, NetInv DEF Calm

LEMMA AcceptInv ==
    ASSUME FtpInv, NEW s \in Session, Accept(s) \/ AcceptFails(s)
    PROVE  FtpInv'
<1>1. NetOK /\ Listens /\ pc \in [Session -> Pcs]
  BY DEF FtpInv, ControlOK
<1>2. /\ pc[s] = "accept" /\ pc' = [pc EXCEPT ![s] = "command"]
      /\ UNCHANGED <<commands, user, type, currDir, acceptor, diskVars, openVars, history>>
  BY DEF Accept, AcceptFails, netVars
<1>3. NetOK'
  <2>1. CASE Accept(s)
    <3>1. Head(backlog) \in Session /\ Tail(backlog) \in Seq(Session)
      BY <1>1, <2>1 DEF Accept, NetOK
    <3> QED BY <1>1, <1>2, <2>1, <3>1, FtpConstants DEF Accept, NetOK, Links
  <2>2. CASE AcceptFails(s)
    BY <1>1, <2>2 DEF AcceptFails, NetOK, netVars
  <2> QED BY <2>1, <2>2
<1>4. Listens'
  BY <1>1, <1>2 DEF Accept, AcceptFails, NetOK, Listens, netVars
<1> QED BY <1>2, <1>3, <1>4, NetInv DEF Calm

LEMMA ClientsInv ==
    ASSUME FtpInv, NEW c \in Session, Connect(c) \/ Disconnect(c)
    PROVE  FtpInv'
<1>1. NetOK /\ Listens
  BY DEF FtpInv
<1>2. UNCHANGED <<pc, commands, user, type, currDir, acceptor, diskVars, openVars, history>>
  BY DEF Connect, Disconnect
<1>3. NetOK'
  <2>1. CASE Connect(c)
    BY <1>1, <2>1 DEF Connect, NetOK
  <2>2. CASE Disconnect(c)
    BY <1>1, <1>2, <2>2, FtpConstants DEF Disconnect, NetOK, Links
  <2> QED BY <2>1, <2>2
<1>4. Listens'
  BY <1>1, <1>2 DEF Connect, Disconnect, NetOK, Listens
<1> QED BY <1>2, <1>3, <1>4, ClientInv

(***************************************************************************)
(* Transfers.                                                              *)
(***************************************************************************)
\* A step of s that leaves the other sessions apart: their files are as they
\* were, unless alone tells them otherwise.
Apart(s) ==
    /\ UNCHANGED <<user, type, currDir>>
    /\ \A q \in Session : q # s =>
          /\ pc'[q] = pc[q] /\ path'[q] = path[q] /\ file'[q] = file[q] /\ pos'[q] = pos[q]
          /\ buffer'[q] = buffer[q] /\ code'[q] = code[q] /\ moved'[q] = moved[q]
          /\ want'[q] = want[q] /\ (alone'[q] => alone[q])
          /\ alone'[q] /\ file[q] # NoFile => content'[file[q]] = content[file[q]]

LEMMA ApartInv ==
    ASSUME FtpInv, NEW s \in Session, Apart(s),
           pc' \in [Session -> Pcs], commands' \in 0 .. MaxCommand,
           DiskOK', OpenOK', HistoryOK', NetOK', Listens', Transfer(s)'
    PROVE  FtpInv'
<1>1. ControlOK'
  BY DEF FtpInv, ControlOK, Apart
<1>2. ASSUME NEW q \in Session PROVE Transfer(q)'
  <2>1. CASE q # s
    <3>1. Transfer(q)
      BY DEF FtpInv
    <3> QED BY <2>1, <3>1, Kept DEF Apart
  <2> QED BY <2>1
<1> QED BY <1>1, <1>2 DEF FtpInv

\* What FtpInv says of s while its network state stays as it is.
LEMMA Basics ==
    ASSUME FtpInv, NEW s \in Session
    PROVE  /\ ControlOK /\ DiskOK /\ OpenOK /\ HistoryOK /\ NetOK /\ Listens /\ Transfer(s)
           /\ pc \in [Session -> Pcs] /\ commands \in 0 .. MaxCommand
           /\ type[s] \in TransferType /\ content \in [File -> Bytes]
           /\ pos[s] \in Nat /\ buffer[s] \in Bytes /\ moved[s] \in Bytes /\ want[s] \in Bytes
BY DEF FtpInv, ControlOK, DiskOK, OpenOK, HistoryOK

LEMMA NetStays ==
    ASSUME FtpInv, NEW s \in Session, UNCHANGED netVars,
           NEW y \in Pcs, y # "accept", pc' = [pc EXCEPT ![s] = y]
    PROVE  NetOK' /\ Listens' /\ pc' \in [Session -> Pcs] /\ pc'[s] = y
           /\ \A q \in Session : q # s => pc'[q] = pc[q]
<1>1. NetOK /\ Listens /\ pc \in [Session -> Pcs]
  BY DEF FtpInv, ControlOK
<1>2. pc' \in [Session -> Pcs] /\ pc'[s] = y /\ \A q \in Session : q # s => pc'[q] = pc[q]
  BY <1>1
<1>3. \A q \in Session : pc'[q] = "accept" => pc[q] = "accept"
  BY <1>1, <1>2
<1> QED BY <1>1, <1>2, <1>3, NetKept

\* NLST finds a directory, RETR finds a path.
LEMMA FindInv ==
    ASSUME FtpInv, NEW s \in Session, NEW c, Executes(s, c), NEW n, Reply(s, n),
           NEW p \in Path, path' = [path EXCEPT ![s] = p],
           NEW x, pc' = [pc EXCEPT ![s] = x],
           x \in {"list", "open"}, x = "open" => n = 150,
           UNCHANGED <<user, type, currDir, netVars, diskVars, file, pos, buffer>>
    PROVE  FtpInv'
<1>1. ControlOK /\ DiskOK /\ OpenOK /\ HistoryOK /\ Transfer(s)
  BY Basics
<1>2. commands' \in 0 .. MaxCommand /\ pc[s] = "command" /\ UNCHANGED <<moved, want, alone>>
  BY <1>1, ExecutesType DEF Executes
<1>3. NetOK' /\ Listens' /\ pc' \in [Session -> Pcs] /\ pc'[s] = x
      /\ \A q \in Session : q # s => pc'[q] = pc[q]
  <2>1. x \in Pcs /\ x # "accept"
    BY DEF Pcs
  <2>2. UNCHANGED netVars
    OBVIOUS
  <2>3. pc' = [pc EXCEPT ![s] = x]
    OBVIOUS
  <2>4. NetOK /\ Listens /\ pc \in [Session -> Pcs]
    BY Basics
  <2>5. pc' \in [Session -> Pcs] /\ pc'[s] = x /\ \A q \in Session : q # s => pc'[q] = pc[q]
    BY <2>1, <2>3, <2>4
  <2>6. \A q \in Session : pc'[q] = "accept" => pc[q] = "accept"
    BY <2>1, <2>5
  <2> QED BY <2>2, <2>4, <2>5, <2>6, NetKept
<1>4. /\ code' \in [Session -> {0, 150, 226, 446}]
      /\ \A q \in Session : q # s => code'[q] = code[q]
      /\ code'[s] = IF n \in {150, 226, 446} THEN n ELSE 0
  BY <1>1, ReplyType
<1>5. DiskOK' /\ OpenOK' /\ HistoryOK'
  BY <1>1, <1>2, <1>4 DEF DiskOK, OpenOK, HistoryOK, diskVars
<1>6. Apart(s)
  BY <1>1, <1>2, <1>3, <1>4 DEF Apart, OpenOK, diskVars
<1>7. Transfer(s)'
  <2>1. Idle(s)'
    BY <1>1, <1>2 DEF Transfer, Idle
  <2>2. Found(s)'
    BY <1>1, <1>3, <1>4 DEF Found, OpenOK
  <2>3. (Sending(s) /\ SentWhole(s) /\ Storing(s) /\ StoredWhole(s))'
    BY <1>3 DEF Sending, SentWhole, Storing, StoredWhole
  <2> QED BY <2>1, <2>2, <2>3 DEF Transfer
<1> QED BY <1>2, <1>3, <1>5, <1>6, <1>7, ApartInv

\* A transfer that has moved nothing ends.
LEMMA EmptyEnd ==
    ASSUME FtpInv, NEW s \in Session, pc[s] \in {"command", "list"},
           NEW n, Reply(s, n), Ends(s, "sent"), commands' \in 0 .. MaxCommand,
           UNCHANGED <<diskVars, moved, alone>>
    PROVE  FtpInv'
<1>1. ControlOK /\ DiskOK /\ OpenOK /\ HistoryOK /\ Transfer(s)
  BY Basics
<1>2. pc' = [pc EXCEPT ![s] = "sent"] /\ UNCHANGED <<user, type, currDir, netVars, openVars, want>>
  BY DEF Ends
<1>3. NetOK' /\ Listens' /\ pc' \in [Session -> Pcs] /\ pc'[s] = "sent"
      /\ \A q \in Session : q # s => pc'[q] = pc[q]
  BY <1>2, NetStays DEF Pcs
<1>4. /\ code' \in [Session -> {0, 150, 226, 446}]
      /\ \A q \in Session : q # s => code'[q] = code[q]
  BY <1>1, ReplyType
<1>5. DiskOK' /\ OpenOK' /\ HistoryOK'
  BY <1>1, <1>2, <1>4 DEF DiskOK, OpenOK, HistoryOK, diskVars, openVars
<1>6. Apart(s)
  BY <1>2, <1>3, <1>4 DEF Apart, openVars, diskVars
<1>7. Transfer(s)'
  <2>1. (Idle(s) /\ Found(s) /\ Sending(s) /\ Storing(s) /\ StoredWhole(s))'
    BY <1>3 DEF Idle, Found, Sending, Storing, StoredWhole
  <2>2. SentWhole(s)'
    <3>1. moved[s] = <<>> /\ want[s] = <<>>
      BY <1>1 DEF Transfer, Idle
    <3>2. \A t : Wire(<<>>, t) = <<>>
      BY DEF Wire
    <3> QED BY <1>2, <3>1, <3>2 DEF SentWhole
  <2> QED BY <2>1, <2>2 DEF Transfer
<1> QED BY <1>3, <1>5, <1>6, <1>7, ApartInv

LEMMA NlstInv ==
    ASSUME FtpInv, NEW s \in Session, Nlst(s)
    PROVE  FtpInv'
<1>1. CASE NoData(s, "NLST")
  BY <1>1, NoDataInv
<1>2. CASE Executes(s, "NLST") /\ Reply(s, 550) /\ Ends(s, "sent") /\ UNCHANGED diskVars
  <2>1. commands' \in 0 .. MaxCommand /\ pc[s] = "command" /\ UNCHANGED <<moved, alone>>
    BY <1>2, Basics, ExecutesType DEF Executes
  <2> QED BY <1>2, <2>1, EmptyEnd
<1>3. CASE /\ Executes(s, "NLST") /\ Reply(s, 0)
           /\ \E d \in Children(currDir[s]) \cup {currDir[s]} :
                 /\ tree[d] = "dir"
                 /\ path' = [path EXCEPT ![s] = d]
           /\ pc' = [pc EXCEPT ![s] = "list"]
           /\ UNCHANGED <<user, type, currDir, netVars, diskVars, file, pos, buffer>>
  <2>1. PICK d \in Path : path' = [path EXCEPT ![s] = d]
    BY <1>3, Settings DEF Children
  <2>2. PICK n, x : n = 0 /\ x = "list"
    OBVIOUS
  <2>3. /\ Executes(s, "NLST") /\ Reply(s, n) /\ pc' = [pc EXCEPT ![s] = x]
        /\ UNCHANGED <<user, type, currDir, netVars, diskVars, file, pos, buffer>>
    BY <1>3, <2>2, Zenon
  <2>4. x \in {"list", "open"} /\ (x = "open" => n = 150)
    BY <2>2
  <2> QED BY <2>1, <2>3, <2>4, FindInv
<1> QED BY <1>1, <1>2, <1>3 DEF Nlst

LEMMA ListInv ==
    ASSUME FtpInv, NEW s \in Session, List(s)
    PROVE  FtpInv'
<1>1. PICK n : Reply(s, n)
  BY DEF List
<1>2. pc[s] = "list" /\ Ends(s, "sent") /\ UNCHANGED <<commands, diskVars, moved, alone>>
  BY DEF List
<1> QED BY <1>1, <1>2, Basics, EmptyEnd

LEMMA RetrInv ==
    ASSUME FtpInv, NEW s \in Session, Retr(s)
    PROVE  FtpInv'
<1>1. CASE NoData(s, "RETR")
  BY <1>1, NoDataInv
<1>2. CASE /\ Executes(s, "RETR") /\ Answers(s, 550)
           /\ UNCHANGED <<user, type, currDir, netVars, diskVars, openVars>>
  BY <1>2, Settings, CommandInv DEF Answers, diskVars
<1>3. CASE /\ Executes(s, "RETR") /\ Reply(s, 150)
           /\ \E p \in Children(currDir[s]) :
                 /\ tree[p] # "none"
                 /\ path' = [path EXCEPT ![s] = p]
           /\ pc' = [pc EXCEPT ![s] = "open"]
           /\ UNCHANGED <<user, type, currDir, netVars, diskVars, file, pos, buffer>>
  <2>1. PICK p \in Path : path' = [path EXCEPT ![s] = p]
    BY <1>3 DEF Children
  <2> QED BY <1>3, <2>1, FindInv
<1> QED BY <1>1, <1>2, <1>3 DEF Retr

LEMMA OpenRetrInv ==
    ASSUME FtpInv, NEW s \in Session, OpenRetr(s)
    PROVE  FtpInv'
<1>1. /\ ControlOK /\ DiskOK /\ OpenOK /\ HistoryOK /\ Transfer(s)
      /\ commands \in 0 .. MaxCommand /\ type[s] \in TransferType
  BY Basics
<1>2. PICK f : /\ f = tree[path[s]]
               /\ file' = [file EXCEPT ![s] = IF f \in File THEN f ELSE NoFile]
               /\ want' = [want EXCEPT ![s] = IF f \in File THEN content[f] ELSE <<>>]
               /\ alone' = [alone EXCEPT ![s] =
                     f \in File /\ \A t \in Session : ~(pc[t] = "stor" /\ file[t] = f)]
  BY DEF OpenRetr
<1>3. /\ pc[s] = "open" /\ pc' = [pc EXCEPT ![s] = "retr"]
      /\ UNCHANGED <<commands, user, type, currDir, netVars, diskVars, path, pos, buffer, code, moved>>
  BY DEF OpenRetr
<1>4. NetOK' /\ Listens' /\ pc' \in [Session -> Pcs] /\ pc'[s] = "retr"
      /\ \A q \in Session : q # s => pc'[q] = pc[q]
  BY <1>3, NetStays DEF Pcs
<1>5. DiskOK' /\ OpenOK'
  BY <1>1, <1>2, <1>3 DEF DiskOK, OpenOK, diskVars
<1>6. HistoryOK'
  <2>1. want' \in [Session -> Bytes]
    BY <1>1, <1>2, Codes DEF HistoryOK, DiskOK
  <2>2. alone' \in [Session -> BOOLEAN]
    BY <1>1, <1>2, Zenon DEF HistoryOK
  <2> QED BY <1>1, <1>3, <2>1, <2>2 DEF HistoryOK
<1>7. Apart(s)
  BY <1>1, <1>2, <1>3, <1>4 DEF Apart, OpenOK, HistoryOK, diskVars
<1>8. Transfer(s)'
  <2>1. (Idle(s) /\ SentWhole(s) /\ Storing(s) /\ StoredWhole(s))'
    BY <1>4 DEF Idle, SentWhole, Storing, StoredWhole
  <2>2. Found(s)'
    BY <1>1, <1>3, <1>4 DEF Transfer, Found
  <2>3. ASSUME alone'[s] PROVE f \in File
    <3>1. alone'[s] = (f \in File /\ \A t \in Session : ~(pc[t] = "stor" /\ file[t] = f))
      BY <1>1, <1>2, Zenon DEF HistoryOK
    <3> QED BY <2>3, <3>1
  <2>4. Sending(s)'
    <3>1. ASSUME f \in File
          PROVE  /\ file'[s] # NoFile /\ content'[file'[s]] = want'[s]
                 /\ want'[s] \in Bytes /\ pos'[s] = 0 /\ moved'[s] = <<>>
                 /\ type'[s] \in TransferType
      <4>1. file'[s] = f /\ want'[s] = content[f] /\ f # NoFile
        BY <1>1, <1>2, <3>1, FtpConstants DEF OpenOK, HistoryOK
      <4>2. pos[s] = 0 /\ moved[s] = <<>>
        BY <1>1, <1>3 DEF Transfer, Idle
      <4> QED BY <1>1, <1>3, <3>1, <4>1, <4>2 DEF DiskOK, diskVars
    <3>2. ASSUME f \in File PROVE pos'[s] <= Len(want'[s]) /\ moved'[s] = Sent(want'[s], pos'[s], type'[s])
      <4>1. PICK w \in Bytes, t \in TransferType : w = want'[s] /\ t = type'[s]
        BY <3>1, <3>2
      <4>2. Sent(w, 0, t) = <<>> /\ 0 <= Len(w)
        BY SentStart DEF Bytes
      <4> QED BY <3>1, <3>2, <4>1, <4>2
    <3> QED BY <2>3, <3>1, <3>2 DEF Sending
  <2> QED BY <2>1, <2>2, <2>4 DEF Transfer
<1> QED BY <1>1, <1>3, <1>4, <1>5, <1>6, <1>7, <1>8, ApartInv

LEMMA RetrSendInv ==
    ASSUME FtpInv, NEW s \in Session, RetrSend(s)
    PROVE  FtpInv'
<1>1. /\ ControlOK /\ DiskOK /\ OpenOK /\ HistoryOK /\ NetOK /\ Listens /\ Transfer(s)
      /\ pc \in [Session -> Pcs] /\ commands \in 0 .. MaxCommand
  BY Basics
<1>2. PICK b \in Bytes, p \in Nat, t \in TransferType :
        b = content[file[s]] /\ p = pos[s] /\ t = type[s] /\ p < Len(b)
  <2>1. file[s] # NoFile /\ ~(pos[s] >= Len(content[file[s]]))
    BY DEF RetrSend, AtEnd
  <2>2. content[file[s]] \in Bytes /\ pos[s] \in Nat /\ type[s] \in TransferType
    BY <2>1, Basics DEF OpenOK
  <2>3. Len(content[file[s]]) \in Nat
    BY <2>2 DEF Bytes
  <2> QED BY <2>1, <2>2, <2>3
<1>3. PICK a, d : a = After(b, p, t) /\ d = Piece(b, p, t)
  OBVIOUS
<1>4. /\ pc[s] = "retr"
      /\ moved' = [moved EXCEPT ![s] = @ \o d]
      /\ pos' = [pos EXCEPT ![s] = a]
      /\ UNCHANGED <<pc, commands, user, type, currDir, netVars, diskVars, path, file, buffer,
                     code, want, alone>>
  BY <1>2, <1>3 DEF RetrSend
<1>5. d \in Bytes /\ a \in p + 1 .. Len(b) /\ Len(b) \in Nat
  BY <1>2, <1>3, PieceType, AfterFacts DEF Bytes
<1>6. DiskOK' /\ OpenOK'
  BY <1>1, <1>4, <1>5 DEF DiskOK, OpenOK, diskVars
<1>7. HistoryOK'
  <2>1. moved[s] \in Bytes /\ moved[s] \o d \in Bytes
    BY <1>1, <1>5, ConcatProperties DEF HistoryOK, Bytes
  <2> QED BY <1>1, <1>4, <2>1 DEF HistoryOK
<1>8. NetOK' /\ Listens'
  BY <1>1, <1>4, NetKept
<1>9. Apart(s)
  BY <1>1, <1>4 DEF Apart, OpenOK, HistoryOK, diskVars
<1>10. Transfer(s)'
  <2>1. (Idle(s) /\ SentWhole(s) /\ Storing(s) /\ StoredWhole(s))'
    BY <1>4 DEF Idle, SentWhole, Storing, StoredWhole
  <2>2. Found(s)'
    BY <1>1, <1>4 DEF Transfer, Found
  <2>3. Sending(s)'
    <3>1. SUFFICES ASSUME alone'[s]
                   PROVE  /\ file'[s] # NoFile /\ content'[file'[s]] = want'[s]
                          /\ pos'[s] <= Len(want'[s])
                          /\ moved'[s] = Sent(want'[s], pos'[s], type'[s])
      BY DEF Sending
    <3>2. file[s] # NoFile /\ b = want[s] /\ moved[s] = Sent(b, p, t)
      BY <1>1, <1>2, <1>4, <3>1 DEF Transfer, Sending
    <3>3. Sent(b, p, t) \o d = Sent(b, a, t)
      <4>1. CASE t = "binary"
        BY <1>2, <1>3, <4>1, SentStepBinary
      <4>2. CASE t = "ascii"
        BY <1>2, <1>3, <4>2, SentStepAscii
      <4> QED BY <4>1, <4>2 DEF TransferType
    <3>4. moved'[s] = Sent(b, a, t) /\ pos'[s] = a /\ want'[s] = b /\ type'[s] = t
      BY <1>1, <1>2, <1>4, <3>2, <3>3 DEF HistoryOK, OpenOK
    <3>5. a <= Len(b)
      BY <1>2, <1>5
    <3> QED BY <1>2, <1>4, <3>2, <3>4, <3>5 DEF diskVars
  <2> QED BY <2>1, <2>2, <2>3 DEF Transfer
<1> QED BY <1>1, <1>4, <1>6, <1>7, <1>8, <1>9, <1>10, ApartInv

LEMMA RetrEndInv ==
    ASSUME FtpInv, NEW s \in Session, RetrEnd(s)
    PROVE  FtpInv'
<1>1. /\ ControlOK /\ DiskOK /\ OpenOK /\ HistoryOK /\ Transfer(s)
      /\ commands \in 0 .. MaxCommand
  BY Basics
<1>2. /\ pc[s] = "retr" /\ pc' = [pc EXCEPT ![s] = "sent"]
      /\ UNCHANGED <<user, type, currDir, netVars, openVars, want, commands, diskVars, moved, alone>>
  BY DEF RetrEnd, Ends
<1>3. NetOK' /\ Listens' /\ pc' \in [Session -> Pcs] /\ pc'[s] = "sent"
      /\ \A q \in Session : q # s => pc'[q] = pc[q]
  BY <1>2, NetStays DEF Pcs
<1>4. /\ code' \in [Session -> {0, 150, 226, 446}]
      /\ \A q \in Session : q # s => code'[q] = code[q]
      /\ code'[s] = 226 => AtEnd(s)
  <2>1. CASE AtEnd(s) /\ Reply(s, 226)
    BY <1>1, <2>1, ReplyType
  <2>2. CASE UNCHANGED code
    <3>1. code[s] = 150
      BY <1>1, <1>2 DEF Transfer, Found
    <3> QED BY <1>1, <2>2, <3>1 DEF HistoryOK
  <2> QED BY <2>1, <2>2 DEF RetrEnd
<1>5. DiskOK' /\ OpenOK' /\ HistoryOK'
  BY <1>1, <1>2, <1>4 DEF DiskOK, OpenOK, HistoryOK, diskVars, openVars
<1>6. Apart(s)
  BY <1>2, <1>3, <1>4 DEF Apart, openVars, diskVars
<1>7. Transfer(s)'
  <2>1. (Idle(s) /\ Found(s) /\ Sending(s) /\ Storing(s) /\ StoredWhole(s))'
    BY <1>3 DEF Idle, Found, Sending, Storing, StoredWhole
  <2>2. SentWhole(s)'
    <3>1. SUFFICES ASSUME code'[s] = 226, alone'[s] PROVE moved'[s] = Wire(want'[s], type'[s])
      BY DEF SentWhole
    <3>2. /\ file[s] # NoFile /\ content[file[s]] = want[s]
          /\ pos[s] <= Len(want[s]) /\ moved[s] = Sent(want[s], pos[s], type[s])
      BY <1>1, <1>2, <3>1 DEF Transfer, Sending
    <3>3. pos[s] >= Len(want[s])
      BY <1>4, <3>1, <3>2 DEF AtEnd
    <3>4. pos[s] = Len(want[s])
      <4>1. pos[s] \in Nat /\ Len(want[s]) \in Nat
        BY <1>1 DEF OpenOK, HistoryOK, Bytes
      <4> QED BY <3>2, <3>3, <4>1
    <3> QED BY <1>2, <3>2, <3>4 DEF Sent
  <2> QED BY <2>1, <2>2 DEF Transfer
<1> QED BY <1>1, <1>2, <1>3, <1>5, <1>6, <1>7, ApartInv

(***************************************************************************)
(* STOR.                                                                   *)
(***************************************************************************)
\* Disturb tells the others, and nobody else, that file f changes.
LEMMA Disturbed ==
    ASSUME HistoryOK, NEW s \in Session, NEW f, NEW q \in Session
    PROVE  /\ Disturb(s, f) \in [Session -> BOOLEAN]
           /\ Disturb(s, f)[q] => alone[q]
           /\ Disturb(s, f)[q] /\ q # s /\ f # NoFile => file[q] # f
BY DEF HistoryOK, Disturb

LEMMA Writes ==
    ASSUME FtpInv, NEW s \in Session, NEW d \in Bytes, Write(s, d)
    PROVE  /\ DiskOK' /\ alone' \in [Session -> BOOLEAN]
           /\ alone'[s] => alone[s]
           /\ file[s] # NoFile => content'[file[s]] = Overlay(content[file[s]], pos[s], d)
           /\ \A q \in Session : q # s =>
                /\ alone'[q] => alone[q]
                /\ alone'[q] /\ file[q] # NoFile => content'[file[q]] = content[file[q]]
<1>1. DiskOK /\ OpenOK /\ HistoryOK /\ content \in [File -> Bytes] /\ pos[s] \in Nat
  BY Basics
<1>2. PICK f \in File \cup {NoFile}, p \in Nat : f = file[s] /\ p = pos[s]
  BY <1>1 DEF OpenOK
<1>3. /\ content' = IF f = NoFile THEN content ELSE [content EXCEPT ![f] = Overlay(@, p, d)]
      /\ alone' = Disturb(s, f) /\ UNCHANGED tree
  BY <1>2 DEF Write
<1>4. f # NoFile => Overlay(content[f], p, d) \in Bytes
  BY <1>1, <1>2, OverlayType
<1>5. content' \in [File -> Bytes] /\ (f # NoFile => content'[f] = Overlay(content[f], p, d))
  BY <1>1, <1>3, <1>4
<1>6. DiskOK'
  BY <1>1, <1>3, <1>5 DEF DiskOK
<1>7. alone' \in [Session -> BOOLEAN] /\ (alone'[s] => alone[s])
  BY <1>1, <1>3, Disturbed
<1>8. ASSUME NEW q \in Session, q # s
      PROVE  /\ alone'[q] => alone[q]
             /\ alone'[q] /\ file[q] # NoFile => content'[file[q]] = content[file[q]]
  <2>1. /\ alone'[q] => alone[q]
        /\ alone'[q] /\ f # NoFile => file[q] # f
    BY <1>1, <1>3, <1>8, Disturbed
  <2>2. file[q] \in File \cup {NoFile}
    BY <1>1 DEF OpenOK
  <2> QED BY <1>1, <1>3, <2>1, <2>2
<1> QED BY <1>2, <1>5, <1>6, <1>7, <1>8

LEMMA Associative ==
    ASSUME NEW x \in Seq(Byte), NEW y \in Seq(Byte), NEW z \in Seq(Byte)
    PROVE  (x \o y) \o z = x \o (y \o z)
BY ConcatAssociative

LEMMA StorFailsInv ==
    ASSUME FtpInv, NEW s \in Session, StorFails(s)
    PROVE  FtpInv'
<1>1. /\ ControlOK /\ DiskOK /\ OpenOK /\ HistoryOK /\ Transfer(s)
      /\ commands \in 0 .. MaxCommand /\ buffer[s] \in Bytes
  BY Basics
<1>2. /\ pc[s] = "stor" /\ pc' = [pc EXCEPT ![s] = "received"] /\ Write(s, buffer[s])
      /\ Reply(s, 446) /\ UNCHANGED <<user, type, currDir, netVars, openVars, want, commands, moved>>
  BY DEF StorFails, Ends
<1>3. NetOK' /\ Listens' /\ pc' \in [Session -> Pcs] /\ pc'[s] = "received"
      /\ \A q \in Session : q # s => pc'[q] = pc[q]
  BY <1>2, NetStays DEF Pcs
<1>4. /\ code' \in [Session -> {0, 150, 226, 446}]
      /\ \A q \in Session : q # s => code'[q] = code[q]
  BY <1>1, <1>2, ReplyType
<1>5. /\ DiskOK' /\ alone' \in [Session -> BOOLEAN]
      /\ alone'[s] => alone[s]
      /\ file[s] # NoFile => content'[file[s]] = Overlay(content[file[s]], pos[s], buffer[s])
      /\ \A q \in Session : q # s =>
           /\ alone'[q] => alone[q]
           /\ alone'[q] /\ file[q] # NoFile => content'[file[q]] = content[file[q]]
  BY <1>1, <1>2, Writes
<1>6. OpenOK' /\ HistoryOK'
  BY <1>1, <1>2, <1>4, <1>5 DEF OpenOK, HistoryOK, openVars
<1>7. Apart(s)
  BY <1>2, <1>3, <1>4, <1>5 DEF Apart, openVars
<1>8. Transfer(s)'
  <2>1. (Idle(s) /\ Found(s) /\ Sending(s) /\ SentWhole(s) /\ Storing(s))'
    BY <1>3 DEF Idle, Found, Sending, SentWhole, Storing
  <2>2. StoredWhole(s)'
    <3>1. SUFFICES ASSUME alone'[s], file'[s] # NoFile
                   PROVE  content'[file'[s]] = Stored(moved'[s], type'[s])
      BY DEF StoredWhole
    <3>2. /\ alone[s] /\ file[s] # NoFile /\ file'[s] = file[s]
          /\ moved'[s] = moved[s] /\ type'[s] = type[s]
      BY <1>2, <1>5, <3>1 DEF openVars
    <3>3. content[file[s]] \o buffer[s] = Stored(moved[s], type[s]) /\ pos[s] = Len(content[file[s]])
      BY <1>1, <1>2, <3>2 DEF Transfer, Storing
    <3>4. content[file[s]] \in Bytes
      BY <1>1, <3>2 DEF DiskOK, OpenOK
    <3>5. Overlay(content[file[s]], pos[s], buffer[s]) = content[file[s]] \o buffer[s]
      BY <1>1, <3>3, <3>4, OverlayAtEnd
    <3> QED BY <1>5, <3>2, <3>3, <3>5
  <2> QED BY <2>1, <2>2 DEF Transfer
<1> QED BY <1>1, <1>2, <1>3, <1>5, <1>6, <1>7, <1>8, ApartInv

\* StorRead without the tests of its guard: d has come, b is to be written.
LEMMA ReadInv ==
    ASSUME FtpInv, NEW s \in Session, pc[s] = "stor", NEW d \in Bytes, NEW b,
           b = buffer[s] \o Stored(d, type[s]),
           UNCHANGED <<commands, user, type, currDir, netVars, path, file, want>>,
           moved' = [moved EXCEPT ![s] = @ \o d],
           \/ Write(s, b) /\ Reply(s, 226) /\ pc' = [pc EXCEPT ![s] = "received"]
              /\ UNCHANGED <<pos, buffer>>
           \/ /\ Write(s, b) /\ UNCHANGED <<pc, code>>
              /\ pos' = [pos EXCEPT ![s] = @ + Len(b)]
              /\ buffer' = [buffer EXCEPT ![s] = <<>>]
           \/ /\ buffer' = [buffer EXCEPT ![s] = b]
              /\ UNCHANGED <<pc, code, diskVars, pos, alone>>
    PROVE  FtpInv'
<1>1. /\ ControlOK /\ DiskOK /\ OpenOK /\ HistoryOK /\ NetOK /\ Listens /\ Transfer(s)
      /\ pc \in [Session -> Pcs] /\ commands \in 0 .. MaxCommand
  BY Basics
<1>2. PICK u \in Bytes, m \in Bytes, t \in TransferType, p \in Nat :
        u = buffer[s] /\ m = moved[s] /\ t = type[s] /\ p = pos[s]
  BY Basics
<1>3. Stored(d, t) \in Bytes
  BY StoredType
<1>4. b \in Bytes /\ b = u \o Stored(d, t) /\ Len(b) \in Nat
  <2>1. PICK e \in Bytes : e = Stored(d, t)
    BY <1>3
  <2>2. u \o e \in Bytes
    BY ConcatProperties DEF Bytes
  <2>3. b = u \o e
    BY <1>2, <2>1
  <2> QED BY <2>1, <2>2, <2>3 DEF Bytes
<1>5. m \o d \in Bytes
  BY ConcatProperties DEF Bytes
<1>6. /\ moved' \in [Session -> Bytes] /\ moved'[s] = m \o d
      /\ \A q \in Session : q # s => moved'[q] = moved[q]
  BY <1>1, <1>2, <1>5 DEF HistoryOK
<1>7. ASSUME alone[s], file[s] # NoFile
      PROVE  /\ p = Len(content[file[s]]) /\ content[file[s]] \in Bytes
             /\ Overlay(content[file[s]], p, b) = Stored(m \o d, t)
             /\ content[file[s]] \o b = Stored(m \o d, t)
  <2>1. content[file[s]] \o u = Stored(m, t) /\ p = Len(content[file[s]])
    BY <1>1, <1>2, <1>7 DEF Transfer, Storing
  <2>2. PICK c \in Bytes : c = content[file[s]]
    BY <1>1, <1>7 DEF DiskOK, OpenOK
  <2>3. c \o (u \o Stored(d, t)) = Stored(m \o d, t)
    <3>1. c \o u = Stored(m, t)
      BY <2>1, <2>2
    <3>2. PICK e \in Bytes : e = Stored(d, t)
      BY <1>3
    <3>3. (c \o u) \o e = c \o (u \o e)
      <4>1. c \in Seq(Byte) /\ u \in Seq(Byte) /\ e \in Seq(Byte)
        BY DEF Bytes
      <4> QED BY <4>1, Associative, SMTT(30)
    <3>4. Stored(m \o d, t) = Stored(m, t) \o e
      BY <3>2, StoredConcat
    <3> QED BY <3>1, <3>2, <3>3, <3>4
  <2>4. Overlay(c, Len(c), b) = c \o b
    BY <1>4, OverlayAtEnd
  <2> QED BY <1>4, <2>1, <2>2, <2>3, <2>4
<1>8. CASE /\ Write(s, b) /\ Reply(s, 226) /\ pc' = [pc EXCEPT ![s] = "received"]
           /\ UNCHANGED <<pos, buffer>>
  <2>1. NetOK' /\ Listens' /\ pc' \in [Session -> Pcs] /\ pc'[s] = "received"
        /\ \A q \in Session : q # s => pc'[q] = pc[q]
    BY <1>8, NetStays DEF Pcs
  <2>2. /\ code' \in [Session -> {0, 150, 226, 446}]
        /\ \A q \in Session : q # s => code'[q] = code[q]
    BY <1>1, <1>8, ReplyType
  <2>3. /\ DiskOK' /\ alone' \in [Session -> BOOLEAN]
        /\ alone'[s] => alone[s]
        /\ file[s] # NoFile => content'[file[s]] = Overlay(content[file[s]], pos[s], b)
        /\ \A q \in Session : q # s =>
             /\ alone'[q] => alone[q]
             /\ alone'[q] /\ file[q] # NoFile => content'[file[q]] = content[file[q]]
    BY <1>4, <1>8, Writes
  <2>4. OpenOK' /\ HistoryOK'
    BY <1>1, <1>6, <1>8, <2>2, <2>3 DEF OpenOK, HistoryOK
  <2>5. Apart(s)
    BY <1>6, <1>8, <2>1, <2>2, <2>3 DEF Apart
  <2>6. Transfer(s)'
    <3>1. (Idle(s) /\ Found(s) /\ Sending(s) /\ SentWhole(s) /\ Storing(s))'
      BY <2>1 DEF Idle, Found, Sending, SentWhole, Storing
    <3>2. StoredWhole(s)'
      BY <1>2, <1>6, <1>7, <2>3 DEF StoredWhole
    <3> QED BY <3>1, <3>2 DEF Transfer
  <2> QED BY <1>1, <2>1, <2>3, <2>4, <2>5, <2>6, ApartInv
<1>9. ASSUME UNCHANGED <<pc, code>>, DiskOK', alone' \in [Session -> BOOLEAN],
             pos' \in [Session -> Nat], buffer' \in [Session -> Bytes],
             \A q \in Session : q # s =>
                /\ pos'[q] = pos[q] /\ buffer'[q] = buffer[q]
                /\ alone'[q] => alone[q]
                /\ alone'[q] /\ file[q] # NoFile => content'[file[q]] = content[file[q]],
             Storing(s)'
      PROVE  FtpInv'
  <2>1. NetOK' /\ Listens'
    BY <1>1, <1>9, NetKept
  <2>2. OpenOK' /\ HistoryOK'
    BY <1>1, <1>6, <1>9 DEF OpenOK, HistoryOK
  <2>3. Apart(s)
    BY <1>6, <1>9 DEF Apart
  <2>4. (Idle(s) /\ Found(s) /\ Sending(s) /\ SentWhole(s) /\ StoredWhole(s))'
    BY <1>9 DEF Idle, Found, Sending, SentWhole, StoredWhole
  <2>5. Transfer(s)'
    BY <1>9, <2>4 DEF Transfer
  <2> QED BY <1>1, <1>9, <2>1, <2>2, <2>3, <2>5, ApartInv
<1>10. CASE /\ Write(s, b) /\ UNCHANGED <<pc, code>>
            /\ pos' = [pos EXCEPT ![s] = @ + Len(b)]
            /\ buffer' = [buffer EXCEPT ![s] = <<>>]
  <2>1. /\ DiskOK' /\ alone' \in [Session -> BOOLEAN]
        /\ alone'[s] => alone[s]
        /\ file[s] # NoFile => content'[file[s]] = Overlay(content[file[s]], pos[s], b)
        /\ \A q \in Session : q # s =>
             /\ alone'[q] => alone[q]
             /\ alone'[q] /\ file[q] # NoFile => content'[file[q]] = content[file[q]]
    BY <1>4, <1>10, Writes
  <2>2. /\ pos' \in [Session -> Nat] /\ buffer' \in [Session -> Bytes]
        /\ buffer'[s] = <<>> /\ pos'[s] = p + Len(b)
        /\ \A q \in Session : q # s => pos'[q] = pos[q] /\ buffer'[q] = buffer[q]
    BY <1>1, <1>2, <1>4, <1>10, Codes DEF OpenOK
  <2>3. Storing(s)'
    <3>1. SUFFICES ASSUME alone'[s], file'[s] # NoFile
                   PROVE  /\ content'[file'[s]] \o buffer'[s] = Stored(moved'[s], type'[s])
                          /\ pos'[s] = Len(content'[file'[s]])
      BY DEF Storing
    <3>2. alone[s] /\ file[s] # NoFile /\ file'[s] = file[s]
      BY <2>1, <3>1
    <3>3. PICK c \in Bytes : c = content[file[s]]
      BY <1>7, <3>2
    <3>4. content'[file'[s]] = c \o b /\ c \o b = Stored(m \o d, t) /\ p = Len(c)
      BY <1>2, <1>7, <2>1, <3>2, <3>3
    <3>5. c \o b \in Seq(Byte) /\ Len(c \o b) = Len(c) + Len(b)
      BY <1>4, ConcatProperties DEF Bytes
    <3>6. (c \o b) \o <<>> = c \o b
      BY <3>5, ConcatEmptySeq
    <3> QED BY <1>2, <1>6, <2>2, <3>4, <3>5, <3>6
  <2> QED BY <1>9, <1>10, <2>1, <2>2, <2>3
<1>11. CASE /\ buffer' = [buffer EXCEPT ![s] = b]
            /\ UNCHANGED <<pc, code, diskVars, pos, alone>>
  <2>1. buffer' \in [Session -> Bytes] /\ buffer'[s] = b
        /\ \A q \in Session : q # s => buffer'[q] = buffer[q]
    BY <1>1, <1>4, <1>11 DEF OpenOK
  <2>2. Storing(s)'
    BY <1>2, <1>6, <1>7, <1>11, <2>1 DEF Storing, diskVars
  <2>3. DiskOK' /\ alone' \in [Session -> BOOLEAN] /\ pos' \in [Session -> Nat]
    BY <1>1, <1>11 DEF DiskOK, HistoryOK, OpenOK, diskVars
  <2> QED BY <1>9, <1>11, <2>1, <2>2, <2>3 DEF diskVars
<1> QED BY <1>8, <1>10, <1>11

LEMMA StorReadInv ==
    ASSUME FtpInv, NEW s \in Session, StorRead(s)
    PROVE  FtpInv'
<1>1. pc[s] = "stor" /\ UNCHANGED commands
  BY DEF StorRead
<1>2. PICK v \in Bytes : v = Upload[peer[s]]
  <2>1. peer[s] \in Session
    <3>1. link[s] \in {"active", "passive"} /\ NetOK
      BY Basics DEF StorRead, Linked
    <3> QED BY <3>1 DEF NetOK
  <2> QED BY <2>1, FtpConstants
<1>3. PICK k, u, t : k \in Nat /\ k = Len(moved[s]) /\ u = buffer[s] /\ t = type[s]
  <2>1. moved[s] \in Bytes
    BY Basics
  <2>2. Len(moved[s]) \in Nat
    BY <2>1 DEF Bytes
  <2> QED BY <2>2
<1>4. PICK n, d, b :
        /\ n \in 1 .. StorSize
        /\ d = SubSeq(v, k + 1, k + n) /\ b = u \o Stored(d, t)
        /\ k + n <= Len(v)
        /\ moved' = [moved EXCEPT ![s] = @ \o d]
        /\ \/ n < StorSize /\ Write(s, b) /\ Reply(s, 226) /\ Ends(s, "received")
           \/ /\ n = StorSize
              /\ \/ /\ Write(s, b)
                    /\ pos' = [pos EXCEPT ![s] = @ + Len(b)]
                    /\ buffer' = [buffer EXCEPT ![s] = <<>>]
                 \/ /\ buffer' = [buffer EXCEPT ![s] = b]
                    /\ UNCHANGED <<diskVars, pos, alone>>
              /\ UNCHANGED <<pc, user, type, currDir, netVars, path, file, code, want>>
  BY <1>2, <1>3, Zenon DEF StorRead
<1>5. d \in Bytes
  <2>1. k + 1 \in Nat /\ k + n \in Nat /\ k + 1 >= 1
    BY <1>3, <1>4, FtpConstants
  <2> QED BY <1>4, <2>1, SubSeqBytes
<1>6. b = buffer[s] \o Stored(d, type[s])
  BY <1>3, <1>4
<1>7. UNCHANGED <<user, type, currDir, netVars, path, file, want>>
  BY <1>4 DEF Ends, openVars
<1>8. \/ Write(s, b) /\ Reply(s, 226) /\ pc' = [pc EXCEPT ![s] = "received"]
         /\ UNCHANGED <<pos, buffer>>
      \/ /\ Write(s, b) /\ UNCHANGED <<pc, code>>
         /\ pos' = [pos EXCEPT ![s] = @ + Len(b)]
         /\ buffer' = [buffer EXCEPT ![s] = <<>>]
      \/ /\ buffer' = [buffer EXCEPT ![s] = b]
         /\ UNCHANGED <<pc, code, diskVars, pos, alone>>
  BY <1>4, Zenon DEF Ends, openVars
<1> QED BY <1>1, <1>4, <1>5, <1>6, <1>7, <1>8, ReadInv

LEMMA StorInv ==
    ASSUME FtpInv, NEW s \in Session, Stor(s)
    PROVE  FtpInv'
<1>1. CASE NoData(s, "STOR")
  BY <1>1, NoDataInv
<1>2. ASSUME pc[s] = "command", Reply(s, 150), commands < MaxCommand, commands' = commands + 1,
             pc' = [pc EXCEPT ![s] = "stor"],
             NEW p \in Children(currDir[s]), NEW f,
             f = CASE tree[p] \in File -> tree[p]
                   [] /\ tree[p] = "none" /\ tree[currDir[s]] = "dir"
                      /\ \E g \in File : Free(g) -> CHOOSE g \in File : Free(g)
                   [] OTHER -> NoFile,
             tree' = IF f = NoFile THEN tree ELSE [tree EXCEPT ![p] = f],
             content' = IF f = NoFile THEN content ELSE [content EXCEPT ![f] = <<>>],
             file' = [file EXCEPT ![s] = f],
             alone' = [Disturb(s, f) EXCEPT ![s] =
                          \A t \in Session : ~(pc[t] = "stor" /\ file[t] = f)],
             moved' = [moved EXCEPT ![s] = <<>>],
             want' = [want EXCEPT ![s] = IF Linked(s) THEN Upload[peer[s]] ELSE <<>>],
             UNCHANGED <<user, type, currDir, netVars, path, pos, buffer>>
      PROVE  FtpInv'
  <2>1. /\ ControlOK /\ DiskOK /\ OpenOK /\ HistoryOK /\ NetOK /\ Transfer(s)
        /\ commands \in 0 .. MaxCommand /\ type[s] \in TransferType
    BY Basics
  <2>2. p \in Path /\ f \in File \cup {NoFile}
    <3>1. (\E g \in File : Free(g)) => (CHOOSE g \in File : Free(g)) \in File
      BY Zenon
    <3> QED BY <1>2, <3>1 DEF Children
  <2>3. NetOK' /\ Listens' /\ pc' \in [Session -> Pcs] /\ pc'[s] = "stor"
        /\ \A q \in Session : q # s => pc'[q] = pc[q]
    BY <1>2, NetStays DEF Pcs
  <2>4. /\ code' \in [Session -> {0, 150, 226, 446}]
        /\ \A q \in Session : q # s => code'[q] = code[q]
    BY <1>2, <2>1, ReplyType
  <2>5. commands' \in 0 .. MaxCommand
    BY <1>2, <2>1, FtpConstants
  <2>6. DiskOK'
    <3>1. tree' \in [Path -> File \cup {"dir", "none"}]
      BY <1>2, <2>1, <2>2 DEF DiskOK
    <3>2. content' \in [File -> Bytes]
      BY <1>2, <2>1, <2>2, Codes DEF DiskOK
    <3> QED BY <3>1, <3>2 DEF DiskOK
  <2>7. OpenOK'
    BY <1>2, <2>1, <2>2 DEF OpenOK
  <2>8. HistoryOK'
    <3>1. Linked(s) => Upload[peer[s]] \in Bytes
      BY <2>1, FtpConstants DEF Linked, NetOK
    <3>2. want' \in [Session -> Bytes] /\ moved' \in [Session -> Bytes]
      BY <1>2, <2>1, <3>1, Codes DEF HistoryOK
    <3>3. Disturb(s, f) \in [Session -> BOOLEAN]
      BY <2>1, Disturbed
    <3>4. alone' \in [Session -> BOOLEAN]
      BY <1>2, <3>3, Zenon
    <3> QED BY <2>4, <3>2, <3>4 DEF HistoryOK
  <2>9. Apart(s)
    <3>1. ASSUME NEW q \in Session, q # s
          PROVE  /\ alone'[q] => alone[q]
                 /\ alone'[q] /\ file[q] # NoFile => content'[file[q]] = content[file[q]]
      <4>1. /\ Disturb(s, f) \in [Session -> BOOLEAN]
            /\ Disturb(s, f)[q] => alone[q]
            /\ Disturb(s, f)[q] /\ f # NoFile => file[q] # f
        BY <2>1, <3>1, Disturbed
      <4>2. alone'[q] = Disturb(s, f)[q]
        BY <1>2, <3>1, <4>1, Zenon
      <4>3. file[q] \in File \cup {NoFile}
        BY <2>1 DEF OpenOK
      <4> QED BY <1>2, <2>1, <4>1, <4>2, <4>3 DEF DiskOK
    <3>2. \A q \in Session : q # s =>
            file'[q] = file[q] /\ moved'[q] = moved[q] /\ want'[q] = want[q]
      BY <1>2, <2>1 DEF OpenOK, HistoryOK
    <3>3. UNCHANGED <<user, type, currDir, path, pos, buffer>>
      BY <1>2
    <3> QED BY <2>3, <2>4, <3>1, <3>2, <3>3 DEF Apart
  <2>10. Transfer(s)'
    <3>1. (Idle(s) /\ Found(s) /\ Sending(s) /\ SentWhole(s) /\ StoredWhole(s))'
      BY <2>3 DEF Idle, Found, Sending, SentWhole, StoredWhole
    <3>2. file'[s] = f /\ moved'[s] = <<>> /\ pos'[s] = 0 /\ buffer'[s] = <<>>
          /\ type'[s] = type[s]
      BY <1>2, <2>1 DEF OpenOK, HistoryOK, Transfer, Idle
    <3>3. f # NoFile => content'[f] = <<>>
      BY <1>2, <2>1, <2>2 DEF DiskOK
    <3>4. Stored(<<>>, type[s]) = <<>> /\ <<>> \o <<>> = <<>> /\ Len(<<>>) = 0
      BY <2>1, StoredEmpty
    <3>5. Storing(s)'
      <4>1. SUFFICES ASSUME file'[s] # NoFile
                     PROVE  /\ content'[file'[s]] \o buffer'[s] = Stored(moved'[s], type'[s])
                            /\ pos'[s] = Len(content'[file'[s]])
        BY Zenon DEF Storing
      <4>2. content'[file'[s]] = <<>>
        BY <3>2, <3>3, <4>1
      <4> QED BY <3>2, <3>4, <4>2
    <3> QED BY <3>1, <3>5 DEF Transfer
  <2> QED BY <2>3, <2>5, <2>6, <2>7, <2>8, <2>9, <2>10, ApartInv
<1> QED BY <1>1, <1>2, ZenonT(60) DEF Stor

LEMMA CloseInv ==
    ASSUME FtpInv, NEW s \in Session, Close(s)
    PROVE  FtpInv'
<1>1. /\ ControlOK /\ DiskOK /\ OpenOK /\ HistoryOK /\ NetOK /\ Listens
      /\ pc \in [Session -> Pcs] /\ commands \in 0 .. MaxCommand
  BY Basics
<1>2. pc' \in [Session -> Pcs] /\ pc'[s] = "command"
      /\ \A q \in Session : q # s => pc'[q] = pc[q]
  BY <1>1 DEF Close, Pcs
<1>3. UNCHANGED <<commands, user, type, currDir, diskVars>>
  BY DEF Close
<1>4. DiskOK'
  BY <1>1, <1>3 DEF DiskOK, diskVars
<1>5. OpenOK'
  BY <1>1, Codes DEF Close, OpenOK
<1>6. HistoryOK'
  BY <1>1, Codes DEF Close, HistoryOK
<1>7. NetOK'
  BY <1>1 DEF Close, CloseDataConnection, NetOK, Links
<1>8. Listens'
  BY <1>1, <1>2 DEF Close, CloseDataConnection, NetOK, Listens
<1>9. Apart(s)
  BY <1>1, <1>2, <1>3 DEF Close, Apart, OpenOK, HistoryOK, diskVars
<1>10. Transfer(s)'
  <2>1. Idle(s)'
    BY <1>1 DEF Close, OpenOK, HistoryOK, Idle
  <2>2. (Found(s) /\ Sending(s) /\ SentWhole(s) /\ Storing(s) /\ StoredWhole(s))'
    BY <1>2 DEF Found, Sending, SentWhole, Storing, StoredWhole
  <2> QED BY <2>1, <2>2 DEF Transfer
<1> QED BY <1>1, <1>2, <1>3, <1>4, <1>5, <1>6, <1>7, <1>8, <1>9, <1>10, ApartInv

-----------------------------------------------------------------------------
LEMMA NextInv == FtpInv /\ [Next]_vars => FtpInv'
<1> SUFFICES ASSUME FtpInv, [Next]_vars PROVE FtpInv'
  OBVIOUS
<1>1. CASE UNCHANGED vars
  <2>1. NetOK' /\ Listens'
    BY <1>1 DEF FtpInv, vars, netVars, NetOK, Listens
  <2> QED BY <1>1, <2>1, ClientInv DEF vars
<1>2. CASE Next
  <2>1. PICK s \in Session : \/ Connected(s) \/ HangUp(s) \/ Execute(s)
                             \/ Works(s) \/ AcceptFails(s)
                             \/ Connect(s) \/ Disconnect(s)
    BY <1>2 DEF Next
  <2>2. CASE Connected(s) \/ HangUp(s)
    BY <2>2, ConnectionInv
  <2>3. CASE Execute(s)
    BY <2>3, OtherInv, UserInv, TypeInv, CwdInv, TreeInv, PortInv, LeaveInv, NlstInv, RetrInv,
       StorInv DEF Execute
  <2>4. CASE Works(s) \/ AcceptFails(s)
    BY <2>4, ListenInv, AcceptInv, ListInv, OpenRetrInv, RetrSendInv, RetrEndInv, StorReadInv,
       StorFailsInv, CloseInv DEF Works
  <2>5. CASE Connect(s) \/ Disconnect(s)
    BY <2>5, ClientsInv
  <2> QED BY <2>1, <2>2, <2>3, <2>4, <2>5
<1> QED BY <1>1, <1>2

\* The inductive invariant: what a transfer has moved is what its stream has
\* read or written, and whoever waits for or has a passive connection listens.
THEOREM FtpInvariant == Spec => []FtpInv
BY InitInv, NextInv, PTL DEF Spec

\* For any number of sessions and any file system, the state of FTPSession stays
\* well-formed; a data socket has a peer exactly while it is connected.
THEOREM TypeCorrect == Spec => []TypeOK
<1>1. FtpInv => TypeOK
  BY TypeParts DEF FtpInv
<1> QED BY <1>1, FtpInvariant, PTL

\* A RETR answered with 226 has sent the file as it was when it was opened,
\* whatever its length, wherever its lines end and however the other sessions'
\* commands come in between, unless one of them is a STOR to the same file.
THEOREM RetrievesWhole == Spec => []RetrIntact
<1>1. FtpInv => RetrIntact
  BY DEF FtpInv, Transfer, SentWhole, RetrIntact
<1> QED BY <1>1, FtpInvariant, PTL

\* When STOR ends, with 226 or 446, the file it opened holds every byte that was
\* received (without '\r' in text mode), whenever outFile flushed its buffer,
\* unless another STOR wrote the file too.
THEOREM StoresWhole == Spec => []StoredIsReceived
<1>1. FtpInv => StoredIsReceived
  BY DEF FtpInv, Transfer, StoredWhole, StoredIsReceived
<1> QED BY <1>1, FtpInvariant, PTL

\* However many sessions there are, at most one of them waits in accept or has a
\* passive data connection: its acceptor stays bound until the transfer is over.
THEOREM OnePassiveSession == Spec => []OnePassive
<1>1. ASSUME FtpInv PROVE OnePassive
  <2>1. PICK S : S = {s \in Session : pc[s] = "accept" \/ link[s] = "passive"}
    OBVIOUS
  <2>2. \A s, t \in S : s = t
    BY <1>1, <2>1 DEF FtpInv, Listens
  <2>3. CASE S = {}
    BY <2>1, <2>3, FS_EmptySet DEF OnePassive
  <2>4. CASE S # {}
    <3>1. PICK s \in S : TRUE
      BY <2>4
    <3>2. S = {s}
      BY <2>2, <3>1
    <3>3. Cardinality(S) = 1
      BY <3>2, FS_Singleton
    <3> QED BY <2>1, <3>3 DEF OnePassive
  <2> QED BY <2>3, <2>4
<1> QED BY <1>1, FtpInvariant, PTL

=============================================================================
