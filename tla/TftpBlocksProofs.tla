-------------------------- MODULE TftpBlocksProofs --------------------------
(***************************************************************************)
(* Theorems about TftpBlocks: blocks of any size, of files of any length   *)
(* and over any characters, are the conversion of the whole file, fit the  *)
(* buffer, and bring the file across.                                      *)
(***************************************************************************)
EXTENDS TftpBlocks, SequenceTheorems, WellFoundedInduction, TLAPS

File == Seq(Char)

(***************************************************************************)
(* Induction, as the least number principle.                               *)
(***************************************************************************)
LEMMA LeastNatural ==
    ASSUME NEW T, T \subseteq Nat, T # {}
    PROVE  \E x \in T : \A y \in T : x <= y
<1> DEFINE R == {ss \in Nat \X Nat : ss[1] < ss[2]}
<1>1. IsWellFoundedOn(R, Nat)
  BY NatLessThanWellFounded DEF OpToRel
<1>2. PICK x \in T : \A y \in T : ~(<<y, x>> \in R)
  BY <1>1, WFMin
<1>3. \A y \in T : ~(y < x)
  BY <1>2
<1>4. \A y \in T : x <= y
  BY <1>3
<1> QED BY <1>4

\* A set of numbers that holds k and the successor of each of its members
\* up to n holds all of k .. n.
LEMMA Induction ==
    ASSUME NEW k \in Nat, NEW n \in Nat, NEW G, k \in G,
           \A i \in k .. n - 1 : i \in G => i + 1 \in G
    PROVE  k .. n \subseteq G
<1> DEFINE T == {i \in Nat : i \in k .. n /\ i \notin G}
<1> SUFFICES ASSUME T # {} PROVE FALSE
  OBVIOUS
<1>1. PICK x \in T : \A y \in T : x <= y
  BY LeastNatural
<1>2. x # k /\ x \in k .. n /\ x \notin G
  OBVIOUS
<1>3. x - 1 \in k .. n - 1 /\ x - 1 \notin T
  BY <1>1, <1>2
<1>4. x - 1 \in G
  BY <1>3
<1>5. (x - 1) + 1 \in G
  BY <1>3, <1>4
<1> QED BY <1>2, <1>5

(***************************************************************************)
(* FlattenSeq.                                                             *)
(***************************************************************************)
\* The function that FlattenSeq computes: f[i] joins the first i sequences.
Joins(f, ss) ==
    f = [i \in 1 .. Len(ss) |-> IF i = 1 THEN ss[i] ELSE f[i - 1] \o ss[i]]

LEMMA JoinsAt ==
    ASSUME NEW f, NEW ss, Joins(f, ss), NEW i \in 1 .. Len(ss)
    PROVE  f[i] = IF i = 1 THEN ss[i] ELSE f[i - 1] \o ss[i]
<1> DEFINE h == [j \in 1 .. Len(ss) |-> IF j = 1 THEN ss[j] ELSE f[j - 1] \o ss[j]]
<1>1. f = h
  BY Zenon DEF Joins
<1>2. h[i] = IF i = 1 THEN ss[i] ELSE f[i - 1] \o ss[i]
  BY Zenon
<1> HIDE DEF h
<1> QED BY <1>1, <1>2, Zenon

LEMMA JoinsExists ==
    ASSUME NEW S, NEW ss \in Seq(Seq(S)), Len(ss) # 0
    PROVE  \E f \in [1 .. Len(ss) -> Seq(S)] : Joins(f, ss)
<1> DEFINE Good(n, f) == \A i \in 1 .. n : f[i] = IF i = 1 THEN ss[i] ELSE f[i - 1] \o ss[i]
           G == {n \in Nat : \E f \in [1 .. n -> Seq(S)] : Good(n, f)}
<1>1. 1 \in G
  <2>1. ss[1] \in Seq(S)
    OBVIOUS
  <2> DEFINE f == [i \in 1 .. 1 |-> ss[1]]
  <2>2. f \in [1 .. 1 -> Seq(S)] /\ Good(1, f)
    BY <2>1
  <2> QED BY <2>2
<1>2. ASSUME NEW n \in 1 .. Len(ss) - 1, n \in G PROVE n + 1 \in G
  <2>1. PICK f \in [1 .. n -> Seq(S)] : Good(n, f)
    BY <1>2
  <2>2. ss[n + 1] \in Seq(S) /\ f[n] \in Seq(S)
    OBVIOUS
  <2>3. f[n] \o ss[n + 1] \in Seq(S)
    BY <2>2
  <2> DEFINE g == [i \in 1 .. n + 1 |-> IF i = n + 1 THEN f[n] \o ss[n + 1] ELSE f[i]]
  <2>4. g \in [1 .. n + 1 -> Seq(S)]
    BY <2>3
  <2>5. ASSUME NEW i \in 1 .. n + 1
        PROVE  g[i] = IF i = 1 THEN ss[i] ELSE g[i - 1] \o ss[i]
    <3>1. CASE i = n + 1
      <4>1. i # 1 /\ g[i] = f[n] \o ss[i] /\ i - 1 = n /\ g[n] = f[n]
        BY <3>1
      <4> QED BY <4>1
    <3>2. CASE i # n + 1
      <4>1. i \in 1 .. n /\ g[i] = f[i]
        BY <3>2
      <4>2. i # 1 => g[i - 1] = f[i - 1]
        BY <4>1
      <4>3. f[i] = IF i = 1 THEN ss[i] ELSE f[i - 1] \o ss[i]
        BY <2>1, <4>1
      <4> HIDE DEF g
      <4> QED BY <4>1, <4>2, <4>3
    <3> QED BY <3>1, <3>2
  <2> HIDE DEF g
  <2>6. n + 1 \in Nat /\ Good(n + 1, g)
    BY <2>5
  <2> QED BY <2>4, <2>6
<1>3. Len(ss) \in Nat /\ Len(ss) >= 1
  OBVIOUS
<1>4. Len(ss) \in G
  <2> HIDE DEF G
  <2>1. 1 .. Len(ss) \subseteq G
    BY <1>1, <1>2, <1>3, Induction
  <2> QED BY <1>3, <2>1
<1>5. PICK f \in [1 .. Len(ss) -> Seq(S)] : Good(Len(ss), f)
  BY <1>4
<1>6. Joins(f, ss)
  BY <1>5 DEF Joins
<1> QED BY <1>6

LEMMA FlattenIsJoin ==
    ASSUME NEW ss, Len(ss) # 0, NEW g, Joins(g, ss)
    PROVE  \E f : Joins(f, ss) /\ FlattenSeq(ss) = f[Len(ss)]
<1> DEFINE f == CHOOSE h : h = [i \in 1 .. Len(ss) |-> IF i = 1 THEN ss[i] ELSE h[i - 1] \o ss[i]]
<1>1. f = [i \in 1 .. Len(ss) |-> IF i = 1 THEN ss[i] ELSE f[i - 1] \o ss[i]]
  BY DEF Joins
<1>2. FlattenSeq(ss) = f[Len(ss)]
  BY DEF FlattenSeq
<1> QED BY <1>1, <1>2 DEF Joins

\* The joins of two sequences agree as far as the sequences do.
LEMMA JoinsAgree ==
    ASSUME NEW ss, NEW tt, Len(ss) \in Nat, Len(tt) \in Nat,
           NEW f, NEW g, Joins(f, ss), Joins(g, tt),
           NEW n \in Nat, n >= 1, n <= Len(ss), n <= Len(tt),
           \A i \in 1 .. n : ss[i] = tt[i]
    PROVE  f[n] = g[n]
<1> DEFINE G == {i \in Nat : f[i] = g[i]}
<1>a. \A j \in 1 .. Len(ss) : f[j] = IF j = 1 THEN ss[j] ELSE f[j - 1] \o ss[j]
  BY JoinsAt, ZenonT(60)
<1>b. \A j \in 1 .. Len(tt) : g[j] = IF j = 1 THEN tt[j] ELSE g[j - 1] \o tt[j]
  BY JoinsAt, ZenonT(60)
<1>1. 1 \in G
  BY <1>a, <1>b
<1>2. ASSUME NEW i \in 1 .. n - 1, i \in G PROVE i + 1 \in G
  <2>1. i + 1 \in 1 .. Len(ss) /\ i + 1 \in 1 .. Len(tt) /\ i + 1 # 1 /\ (i + 1) - 1 = i
    OBVIOUS
  <2>2. f[i + 1] = f[i] \o ss[i + 1]
    <3>1. f[i + 1] = IF i + 1 = 1 THEN ss[i + 1] ELSE f[(i + 1) - 1] \o ss[i + 1]
      BY <1>a, <2>1, Zenon
    <3> QED BY <2>1, <3>1, Zenon
  <2>3. g[i + 1] = g[i] \o tt[i + 1]
    <3>1. g[i + 1] = IF i + 1 = 1 THEN tt[i + 1] ELSE g[(i + 1) - 1] \o tt[i + 1]
      BY <1>b, <2>1, Zenon
    <3> QED BY <2>1, <3>1, Zenon
  <2>4. ss[i + 1] = tt[i + 1]
    BY <2>1
  <2>5. f[i] = g[i]
    BY <1>2
  <2>6. i + 1 \in Nat /\ f[i + 1] = g[i + 1]
    BY <2>2, <2>3, <2>4, <2>5
  <2> QED BY <2>6
<1> HIDE DEF G
<1>3. 1 .. n \subseteq G
  BY <1>1, <1>2, Induction
<1>4. n \in G
  BY <1>3
<1> QED BY <1>4 DEF G

LEMMA FlattenEmpty == FlattenSeq(<<>>) = <<>>
BY DEF FlattenSeq

LEMMA FlattenType ==
    ASSUME NEW S, NEW ss \in Seq(Seq(S))
    PROVE  FlattenSeq(ss) \in Seq(S)
<1>1. CASE Len(ss) = 0
  <2>1. ss = <<>>
    BY <1>1
  <2>2. <<>> \in Seq(S)
    OBVIOUS
  <2> QED BY <2>1, <2>2, FlattenEmpty, Zenon
<1>2. CASE Len(ss) # 0
  <2>1. PICK g \in [1 .. Len(ss) -> Seq(S)] : Joins(g, ss)
    BY <1>2, JoinsExists
  <2>2. PICK f : Joins(f, ss) /\ FlattenSeq(ss) = f[Len(ss)]
    BY <1>2, <2>1, FlattenIsJoin
  <2>3. Len(ss) \in Nat /\ Len(ss) >= 1
    BY <1>2
  <2>a. Joins(f, ss) /\ Joins(g, ss) /\ Len(ss) <= Len(ss)
    BY <2>1, <2>2, <2>3
  <2>4. f[Len(ss)] = g[Len(ss)]
    BY <2>3, <2>a, JoinsAgree
  <2>5. g[Len(ss)] \in Seq(S)
    BY <2>1, <2>3, SMTT(30)
  <2> QED BY <2>2, <2>4, <2>5, Zenon
<1> QED BY <1>1, <1>2

LEMMA FlattenAppend ==
    ASSUME NEW S, NEW ss \in Seq(Seq(S)), NEW x \in Seq(S)
    PROVE  FlattenSeq(Append(ss, x)) = FlattenSeq(ss) \o x
<1>1. PICK tt : tt = Append(ss, x)
  OBVIOUS
<1>2. /\ tt \in Seq(Seq(S)) /\ Len(tt) = Len(ss) + 1 /\ Len(tt) # 0
      /\ tt[Len(tt)] = x /\ \A i \in 1 .. Len(ss) : ss[i] = tt[i]
  BY <1>1
<1>3. PICK g0 : Joins(g0, tt)
  BY <1>2, JoinsExists
<1>4. PICK g : Joins(g, tt) /\ FlattenSeq(tt) = g[Len(tt)]
  BY <1>2, <1>3, FlattenIsJoin
<1>5. CASE Len(ss) = 0
  <2>1. ss = <<>> /\ Len(tt) = 1
    BY <1>2, <1>5
  <2>2. g[1] = tt[1]
    BY <1>4, <2>1 DEF Joins
  <2>3. FlattenSeq(ss) \o x = x
    BY <2>1, FlattenEmpty, ConcatEmptySeq
  <2> QED BY <1>1, <1>2, <1>4, <2>1, <2>2, <2>3
<1>6. CASE Len(ss) # 0
  <2>1. PICK f0 : Joins(f0, ss)
    BY <1>6, JoinsExists
  <2>2. PICK f : Joins(f, ss) /\ FlattenSeq(ss) = f[Len(ss)]
    BY <1>6, <2>1, FlattenIsJoin
  <2>3. Len(ss) \in Nat /\ Len(ss) >= 1 /\ Len(tt) \in Nat /\ Len(ss) <= Len(tt)
    BY <1>2, <1>6
  <2>4. f[Len(ss)] = g[Len(ss)]
    <3>1. PICK n \in Nat : n = Len(ss)
      BY <2>3
    <3>2. n >= 1 /\ n <= Len(ss) /\ n <= Len(tt) /\ \A i \in 1 .. n : ss[i] = tt[i]
      BY <1>2, <2>3, <3>1
    <3>3. f[n] = g[n]
      BY <1>4, <2>2, <2>3, <3>2, JoinsAgree
    <3> QED BY <3>1, <3>3
  <2>5. g[Len(tt)] = g[Len(ss)] \o tt[Len(tt)]
    <3>1. PICK n \in Nat : n = Len(tt)
      BY <2>3
    <3>2. n \in 1 .. Len(tt) /\ n # 1 /\ n - 1 = Len(ss)
      BY <1>2, <2>3, <3>1
    <3>3. g[n] = g[n - 1] \o tt[n]
      BY <1>4, <3>2 DEF Joins
    <3> QED BY <3>1, <3>2, <3>3
  <2> QED BY <1>1, <1>2, <1>4, <2>2, <2>4, <2>5
<1> QED BY <1>5, <1>6

(***************************************************************************)
(* Translate.                                                              *)
(***************************************************************************)
Images(b, tab) == [i \in DOMAIN b |-> tab[b[i]]]

LEMMA ImagesType ==
    ASSUME NEW tab \in [Char -> File], NEW b \in File
    PROVE  /\ Images(b, tab) \in Seq(Seq(Char))
           /\ Len(Images(b, tab)) = Len(b)
           /\ \A i \in 1 .. Len(b) : Images(b, tab)[i] = tab[b[i]]
<1>1. b \in Seq(Char) /\ DOMAIN b = 1 .. Len(b) /\ Len(b) \in Nat
  BY DEF File
<1>2. \A i \in 1 .. Len(b) : tab[b[i]] \in Seq(Char)
  BY <1>1 DEF File
<1> QED BY <1>1, <1>2 DEF Images

LEMMA TranslateType ==
    ASSUME NEW tab \in [Char -> File], NEW b \in File
    PROVE  Translate(b, tab) \in File
<1>1. FlattenSeq(Images(b, tab)) \in Seq(Char)
  BY ImagesType, FlattenType
<1> QED BY <1>1 DEF Translate, Images, File

LEMMA TranslateEmpty ==
    ASSUME NEW tab
    PROVE  Translate(<<>>, tab) = <<>>
<1>1. [i \in DOMAIN <<>> |-> tab[<<>>[i]]] = <<>>
  OBVIOUS
<1> QED BY <1>1, FlattenEmpty DEF Translate

LEMMA TranslateAppend ==
    ASSUME NEW tab \in [Char -> File], NEW b \in File, NEW x \in Char
    PROVE  Translate(Append(b, x), tab) = Translate(b, tab) \o tab[x]
<1>1. PICK c : c = Append(b, x)
  OBVIOUS
<1>2. /\ c \in File /\ Len(c) = Len(b) + 1 /\ Len(b) \in Nat
      /\ c[Len(b) + 1] = x /\ \A i \in 1 .. Len(b) : c[i] = b[i]
  BY <1>1 DEF File
<1>3. tab[x] \in Seq(Char)
  BY DEF File
<1>4. PICK u, v : u = Images(b, tab) /\ v = Append(u, tab[x])
  OBVIOUS
<1>5. /\ u \in Seq(Seq(Char)) /\ Len(u) = Len(b)
      /\ \A i \in 1 .. Len(b) : u[i] = tab[b[i]]
  BY <1>4, ImagesType
<1>6. /\ v \in Seq(Seq(Char)) /\ Len(v) = Len(b) + 1
      /\ v[Len(b) + 1] = tab[x] /\ \A i \in 1 .. Len(b) : v[i] = u[i]
  BY <1>2, <1>3, <1>4, <1>5
<1>7. PICK w : w = Images(c, tab)
  OBVIOUS
<1>8. /\ w \in Seq(Seq(Char)) /\ Len(w) = Len(c)
      /\ \A i \in 1 .. Len(c) : w[i] = tab[c[i]]
  BY <1>2, <1>7, ImagesType
<1>9. v = w
  <2>1. Len(v) = Len(w)
    BY <1>2, <1>6, <1>8
  <2>2. ASSUME NEW i \in 1 .. Len(v) PROVE v[i] = w[i]
    <3>1. CASE i = Len(b) + 1
      BY <1>2, <1>6, <1>8, <3>1
    <3>2. CASE i # Len(b) + 1
      <4>1. i \in 1 .. Len(b) /\ i \in 1 .. Len(c)
        BY <1>2, <1>6, <3>2
      <4>2. v[i] = u[i] /\ u[i] = tab[b[i]]
        BY <1>5, <1>6, <4>1
      <4>3. w[i] = tab[c[i]] /\ c[i] = b[i]
        BY <1>2, <1>8, <4>1
      <4> QED BY <4>2, <4>3
    <3> QED BY <3>1, <3>2
  <2> QED BY <1>6, <1>8, <2>1, <2>2, SeqEqual
<1>10. FlattenSeq(v) = FlattenSeq(u) \o tab[x]
  BY <1>3, <1>4, <1>5, FlattenAppend
<1> QED BY <1>1, <1>4, <1>7, <1>9, <1>10 DEF Translate, Images

\* One more byte of d.
LEMMA PrefixStep ==
    ASSUME NEW d \in File, NEW n \in 0 .. Len(d) - 1
    PROVE  /\ SubSeq(d, 1, n) \in File /\ d[n + 1] \in Char
           /\ SubSeq(d, 1, n + 1) = Append(SubSeq(d, 1, n), d[n + 1])
<1>1. d \in Seq(Char) /\ Len(d) \in Nat
  BY DEF File
<1>2. SubSeq(d, 1, n) \in Seq(Char) /\ d[n + 1] \in Char
  BY <1>1
<1>3. SubSeq(d, 1, n + 1) = SubSeq(d, 1, n) \o <<d[n + 1]>>
  <2>1. PICK m : m = n + 1
    OBVIOUS
  <2>2. 1 \in 1 .. Len(d) /\ m \in 1 .. Len(d) /\ m - 1 = n
    BY <1>1, <2>1
  <2>3. SubSeq(d, 1, m) = SubSeq(d, 1, m - 1) \o <<d[m]>>
    BY <1>1, <2>2, SubSeqRecursiveSecond
  <2> QED BY <2>1, <2>2, <2>3
<1> QED BY <1>2, <1>3, AppendIsConcat DEF File

LEMMA TranslateConcat ==
    ASSUME NEW tab \in [Char -> File], NEW b \in File, NEW d \in File
    PROVE  Translate(b \o d, tab) = Translate(b, tab) \o Translate(d, tab)
<1> DEFINE P(n) == Translate(b \o SubSeq(d, 1, n), tab)
                     = Translate(b, tab) \o Translate(SubSeq(d, 1, n), tab)
           G == {n \in Nat : P(n)}
<1>0. b \in Seq(Char) /\ d \in Seq(Char) /\ Len(d) \in Nat
      /\ Translate(b, tab) \in Seq(Char)
  BY TranslateType DEF File
<1>1. 0 \in G
  <2>1. SubSeq(d, 1, 0) = <<>>
    BY SubSeqEmpty
  <2>2. b \o <<>> = b /\ Translate(b, tab) \o <<>> = Translate(b, tab)
    BY <1>0, ConcatEmptySeq
  <2>3. P(0)
    BY <2>1, <2>2, TranslateEmpty
  <2> QED BY <2>3
<1>2. ASSUME NEW n \in 0 .. Len(d) - 1, n \in G PROVE n + 1 \in G
  <2>1. P(n)
    BY <1>2
  <2>2. PICK c, x, e : c = SubSeq(d, 1, n) /\ x = d[n + 1] /\ e = SubSeq(d, 1, n + 1)
    OBVIOUS
  <2>3. c \in File /\ x \in Char /\ e = Append(c, x)
    BY <2>2, PrefixStep
  <2>4. b \o e = Append(b \o c, x) /\ b \o c \in File
    <3>1. c \in Seq(Char) /\ <<x>> \in Seq(Char)
      BY <2>3 DEF File
    <3>2. e = c \o <<x>> /\ b \o c \in Seq(Char)
      BY <1>0, <2>3, <3>1, AppendIsConcat
    <3>3. b \o (c \o <<x>>) = (b \o c) \o <<x>>
      BY <1>0, <3>1, ConcatAssociative
    <3>4. Append(b \o c, x) = (b \o c) \o <<x>>
      BY <2>3, <3>2, AppendIsConcat
    <3> QED BY <3>2, <3>3, <3>4 DEF File
  <2>5. Translate(b \o e, tab) = Translate(b \o c, tab) \o tab[x]
    BY <2>3, <2>4, TranslateAppend
  <2>6. Translate(e, tab) = Translate(c, tab) \o tab[x]
    BY <2>3, TranslateAppend
  <2>7. Translate(b \o c, tab) = Translate(b, tab) \o Translate(c, tab)
    BY <2>1, <2>2
  <2>8. tab[x] \in Seq(Char) /\ Translate(c, tab) \in Seq(Char)
    BY <2>3, TranslateType DEF File
  <2>9. Translate(b \o e, tab) = Translate(b, tab) \o Translate(e, tab)
    <3>1. PICK tb, tc, cx : tb = Translate(b, tab) /\ tc = Translate(c, tab) /\ cx = tab[x]
      OBVIOUS
    <3>2. (tb \o tc) \o cx = tb \o (tc \o cx)
      <4>1. tb \in Seq(Char) /\ tc \in Seq(Char) /\ cx \in Seq(Char)
        BY <1>0, <2>8, <3>1, Zenon
      <4> QED BY <4>1, ConcatAssociative, SMTT(60)
    <3> QED BY <2>5, <2>6, <2>7, <3>1, <3>2, Zenon
  <2>10. n + 1 \in Nat /\ P(n + 1)
    BY <2>2, <2>9
  <2> QED BY <2>10
<1>3. Len(d) \in G
  <2> HIDE DEF G
  <2>1. 0 .. Len(d) \subseteq G
    BY <1>0, <1>1, <1>2, Induction
  <2> QED BY <1>0, <2>1
<1>4. P(Len(d))
  BY <1>3
<1>5. SubSeq(d, 1, Len(d)) = d
  BY <1>0, SubSeqFull
<1> QED BY <1>4, <1>5

(***************************************************************************)
(* The two tables, and the file converted so far.                          *)
(***************************************************************************)
LEMMA Tables ==
    /\ CR \in Char /\ LF \in Char /\ CR # LF
    /\ DropCr \in [Char -> File] /\ EndLines \in [Char -> File]
    /\ DropCr[CR] = <<>> /\ EndLines[LF] = <<CR, LF>>
    /\ \A x \in Char : x # CR => DropCr[x] = <<x>>
    /\ \A x \in Char : x # LF => EndLines[x] = <<x>>
<1>1. CR \in Char /\ LF \in Char /\ CR # LF
  BY BlocksAssumption
<1>2. <<>> \in File /\ <<CR, LF>> \in File /\ \A x \in Char : <<x>> \in File
  BY <1>1 DEF File
<1>3. DropCr \in [Char -> File]
  BY <1>2 DEF DropCr
<1>4. EndLines \in [Char -> File]
  BY <1>2 DEF EndLines
<1>5. /\ DropCr[CR] = <<>>
      /\ \A x \in Char : x # CR => DropCr[x] = <<x>>
  BY <1>1 DEF DropCr
<1>6. /\ EndLines[LF] = <<CR, LF>>
      /\ \A x \in Char : x # LF => EndLines[x] = <<x>>
  BY <1>1 DEF EndLines
<1> QED BY <1>1, <1>3, <1>4, <1>5, <1>6

LEMMA NetasciiType ==
    ASSUME NEW s \in File
    PROVE  Netascii(s) \in File
BY Tables, TranslateType DEF Netascii

\* One more character of the file.
LEMMA NetasciiStep ==
    ASSUME NEW s \in File, NEW n \in 0 .. Len(s) - 1
    PROVE  /\ s[n + 1] \in Char
           /\ Netascii(SubSeq(s, 1, n + 1)) = Netascii(SubSeq(s, 1, n)) \o EndLines[s[n + 1]]
<1>1. PICK c, x, e : c = SubSeq(s, 1, n) /\ x = s[n + 1] /\ e = SubSeq(s, 1, n + 1)
  OBVIOUS
<1>2. c \in File /\ x \in Char /\ e = Append(c, x)
  BY <1>1, PrefixStep
<1>3. Translate(Append(c, x), EndLines) = Translate(c, EndLines) \o EndLines[x]
  BY <1>2, Tables, TranslateAppend
<1> QED BY <1>1, <1>2, <1>3 DEF Netascii

\* What the receiver writes of a converted file is what it writes of the file.
LEMMA DecodeNetascii ==
    ASSUME NEW s \in File
    PROVE  Translate(Netascii(s), DropCr) = Translate(s, DropCr)
<1> DEFINE P(n) == Translate(Netascii(SubSeq(s, 1, n)), DropCr) = Translate(SubSeq(s, 1, n), DropCr)
           G == {n \in Nat : P(n)}
<1>0. Len(s) \in Nat
  BY DEF File
<1>1. 0 \in G
  <2>1. SubSeq(s, 1, 0) = <<>>
    BY SubSeqEmpty
  <2>2. Netascii(<<>>) = <<>>
    BY TranslateEmpty DEF Netascii
  <2>3. P(0)
    BY <2>1, <2>2
  <2> QED BY <2>3
<1>2. ASSUME NEW n \in 0 .. Len(s) - 1, n \in G PROVE n + 1 \in G
  <2>1. PICK c, x, e : c = SubSeq(s, 1, n) /\ x = s[n + 1] /\ e = SubSeq(s, 1, n + 1)
    OBVIOUS
  <2>2. c \in File /\ x \in Char /\ e = Append(c, x)
    BY <2>1, PrefixStep
  <2>3. Translate(Netascii(c), DropCr) = Translate(c, DropCr)
    BY <1>2, <2>1
  <2>4. PICK m, y : m = Netascii(c) /\ y = EndLines[x]
    OBVIOUS
  <2>5. m \in File /\ y \in File
    BY <2>2, <2>4, NetasciiType, Tables
  <2>6. Netascii(e) = m \o y
    BY <2>1, <2>4, NetasciiStep
  <2>7. Translate(m \o y, DropCr) = Translate(m, DropCr) \o Translate(y, DropCr)
    BY <2>5, Tables, TranslateConcat
  <2>8. Translate(e, DropCr) = Translate(c, DropCr) \o DropCr[x]
    BY <2>2, Tables, TranslateAppend
  <2>9. Translate(y, DropCr) = DropCr[x]
    <3>1. <<>> \in File /\ \A z \in Char : <<z>> = Append(<<>>, z) /\ <<z>> \in File
      BY DEF File
    <3>2. ASSUME NEW z \in Char PROVE Translate(<<z>>, DropCr) = DropCr[z]
      <4>1. Translate(Append(<<>>, z), DropCr) = Translate(<<>>, DropCr) \o DropCr[z]
        BY <3>1, Tables, TranslateAppend
      <4>2. Translate(<<>>, DropCr) = <<>> /\ DropCr[z] \in Seq(Char)
        BY TranslateEmpty, Tables DEF File
      <4>3. <<>> \o DropCr[z] = DropCr[z]
        BY <4>2, ConcatEmptySeq
      <4> QED BY <3>1, <4>1, <4>2, <4>3
    <3>3. CASE x = LF
      <4>1. y = Append(<<CR>>, LF) /\ <<CR>> \in File
        BY <2>4, <3>1, <3>3, Tables
      <4>2. Translate(y, DropCr) = Translate(<<CR>>, DropCr) \o DropCr[LF]
        BY <4>1, Tables, TranslateAppend
      <4>3. Translate(<<CR>>, DropCr) = <<>> /\ DropCr[LF] \in Seq(Char)
        BY <3>2, Tables DEF File
      <4>4. <<>> \o DropCr[LF] = DropCr[LF]
        BY <4>3, ConcatEmptySeq
      <4> QED BY <3>3, <4>2, <4>3, <4>4
    <3>4. CASE x # LF
      <4>1. y = <<x>>
        BY <2>2, <2>4, <3>4, Tables
      <4> QED BY <2>2, <3>2, <4>1
    <3> QED BY <3>3, <3>4
  <2>10. Translate(Netascii(e), DropCr) = Translate(e, DropCr)
    BY <2>3, <2>4, <2>6, <2>7, <2>8, <2>9
  <2>11. n + 1 \in Nat /\ P(n + 1)
    BY <2>1, <2>10
  <2> QED BY <2>11
<1>3. Len(s) \in G
  <2> HIDE DEF G
  <2>1. 0 .. Len(s) \subseteq G
    BY <1>0, <1>1, <1>2, Induction
  <2> QED BY <1>0, <2>1
<1>4. P(Len(s))
  BY <1>3
<1>5. SubSeq(s, 1, Len(s)) = s
  BY SubSeqFull DEF File
<1> QED BY <1>4, <1>5

(***************************************************************************)
(* One block.                                                              *)
(***************************************************************************)
\* The '\n' that is read and not yet in a block.
Owed(lf) == IF lf THEN <<LF>> ELSE <<>>

\* After n turns, behind the blocks sent: the locals of the loop.
Turned(d, p, lf, n, sent) ==
    /\ d \in File /\ p \in 0 .. Len(text) /\ lf \in BOOLEAN
    /\ Len(d) <= size
    /\ lf => d = <<>> \/ Len(d) = size
    /\ Len(d) >= n \/ (p = Len(text) /\ ~lf)
    /\ sent \o (d \o Owed(lf)) = Netascii(SubSeq(text, 1, p))

Turning(r, n, sent) ==
    \E d, p, lf : r = [data |-> d, pos |-> p, lineFeed |-> lf] /\ Turned(d, p, lf, n, sent)

Blocking(sent) == text \in File /\ size \in Nat /\ size >= 2 /\ sent \in File

LEMMA Associative ==
    ASSUME NEW a \in File, NEW b \in File, NEW c \in File
    PROVE  (a \o b) \o c = a \o (b \o c)
<1>1. a \in Seq(Char) /\ b \in Seq(Char) /\ c \in Seq(Char)
  BY DEF File
<1> QED BY <1>1, ConcatAssociative

LEMMA Longer ==
    ASSUME NEW c \in File, NEW k \in Nat, k = Len(c), NEW x \in Char
    PROVE  Append(c, x) \in File /\ Len(Append(c, x)) = k + 1 /\ Append(c, x) = c \o <<x>>
<1>1. c \in Seq(Char)
  BY DEF File
<1>2. Append(c, x) \in Seq(Char) /\ Len(Append(c, x)) = k + 1
  BY <1>1
<1>3. Append(c, x) = c \o <<x>>
  BY <1>1, AppendIsConcat
<1> QED BY <1>2, <1>3 DEF File

LEMMA Pair == <<CR>> \o <<LF>> = <<CR, LF>>
<1>1. PICK a, b, c, d : a = <<CR>> /\ b = <<LF>> /\ c = a \o b /\ d = <<CR, LF>>
  OBVIOUS
<1>2. a \in Seq(Char) /\ Len(a) = 1 /\ a[1] = CR /\ b \in Seq(Char) /\ Len(b) = 1 /\ b[1] = LF
  BY <1>1, Tables
<1>3. d \in Seq(Char) /\ Len(d) = 2 /\ d[1] = CR /\ d[2] = LF
  BY <1>1, Tables
<1>4. c \in Seq(Char) /\ Len(c) = 2 /\ c[1] = CR /\ c[2] = LF
  BY <1>1, <1>2, ConcatProperties
<1>5. \A i \in 1 .. Len(c) : c[i] = d[i]
  BY <1>3, <1>4
<1>6. c = d
  BY <1>3, <1>4, <1>5, SeqEqual
<1> QED BY <1>1, <1>6

LEMMA OwedNothing ==
    ASSUME NEW e \in File
    PROVE  Owed(FALSE) = <<>> /\ e \o Owed(FALSE) = e
<1>1. e \in Seq(Char)
  BY DEF File
<1>2. e \o <<>> = e
  BY <1>1, ConcatEmptySeq
<1>3. Owed(FALSE) = <<>>
  BY DEF Owed
<1> QED BY <1>2, <1>3

LEMMA CarriedOut ==
    ASSUME NEW d \in File, NEW lf \in BOOLEAN, NEW m \in Nat, m = Len(d), lf => m = 0
    PROVE  /\ CarryOut(d, lf) \in File /\ CarryOut(d, lf) = d \o Owed(lf)
           /\ Len(CarryOut(d, lf)) = IF lf THEN 1 ELSE m
<1>1. LF \in Char /\ d \in Seq(Char)
  BY Tables DEF File
<1>2. CASE lf
  <2>1. CarryOut(d, lf) = Append(d, LF) /\ Owed(lf) = <<LF>>
    BY <1>2 DEF CarryOut, Owed
  <2>2. Append(d, LF) \in Seq(Char) /\ Len(Append(d, LF)) = m + 1 /\ Append(d, LF) = d \o <<LF>>
    BY <1>1, AppendIsConcat
  <2>3. CarryOut(d, lf) \in File /\ CarryOut(d, lf) = d \o Owed(lf)
    BY <2>1, <2>2 DEF File
  <2>4. Len(CarryOut(d, lf)) = 1
    <3>1. m + 1 = 1
      BY <1>2
    <3> QED BY <2>1, <2>2, <3>1, Zenon
  <2> QED BY <1>2, <2>3, <2>4, Zenon
<1>3. CASE ~lf
  <2>1. CarryOut(d, lf) = d /\ Owed(lf) = <<>>
    BY <1>3 DEF CarryOut, Owed
  <2>2. d \o <<>> = d
    BY <1>1, ConcatEmptySeq
  <2> QED BY <1>1, <1>3, <2>1, <2>2 DEF File
<1> QED BY <1>2, <1>3

\* What a turn adds to the block is what it has read of the file, converted:
\* e with w owed is c followed by the code of a character.
Grows(sent, c, p, e, w) ==
    /\ Blocking(sent) /\ c \in File /\ p \in 0 .. Len(text) - 1
    /\ sent \o c = Netascii(SubSeq(text, 1, p))
    /\ e \o w = c \o EndLines[text[p + 1]]

LEMMA Grown ==
    ASSUME NEW sent, NEW c, NEW p, NEW e, NEW w, Grows(sent, c, p, e, w)
    PROVE  sent \o (e \o w) = Netascii(SubSeq(text, 1, p + 1))
<1>0. /\ Blocking(sent) /\ c \in File /\ p \in 0 .. Len(text) - 1
      /\ sent \o c = Netascii(SubSeq(text, 1, p))
      /\ e \o w = c \o EndLines[text[p + 1]]
  BY DEF Grows
<1>1. PICK y : y = EndLines[text[p + 1]]
  OBVIOUS
<1>2. /\ text[p + 1] \in Char
      /\ Netascii(SubSeq(text, 1, p + 1)) = Netascii(SubSeq(text, 1, p)) \o y
  BY <1>0, <1>1, NetasciiStep DEF Blocking
<1>3. y \in File /\ sent \in File
  BY <1>0, <1>1, <1>2, Tables DEF Blocking
<1>4. (sent \o c) \o y = sent \o (c \o y)
  BY <1>0, <1>3, Associative
<1> QED BY <1>0, <1>1, <1>2, <1>4

LEMMA TurnStep ==
    ASSUME NEW sent, Blocking(sent), NEW n \in Nat, n < size, NEW r, Turning(r, n, sent)
    PROVE  Turning(Turn(r), n + 1, sent)
<1>1. PICK d, p, lf : r = [data |-> d, pos |-> p, lineFeed |-> lf] /\ Turned(d, p, lf, n, sent)
  BY DEF Turning
<1>b. r.data = d /\ r.pos = p /\ r.lineFeed = lf
  BY <1>1
<1>2. /\ d \in File /\ p \in 0 .. Len(text) /\ lf \in BOOLEAN
      /\ Len(d) <= size /\ (lf => d = <<>> \/ Len(d) = size)
      /\ Len(d) >= n \/ (p = Len(text) /\ ~lf)
      /\ sent \o (d \o Owed(lf)) = Netascii(SubSeq(text, 1, p))
  BY <1>1 DEF Turned
<1>c. ASSUME NEW e, NEW q, NEW l, Turn(r) = [data |-> e, pos |-> q, lineFeed |-> l],
             Turned(e, q, l, n + 1, sent)
      PROVE  Turning(Turn(r), n + 1, sent)
  BY <1>c, Zenon DEF Turning
<1>3. PICK m \in Nat : m = Len(d)
  BY <1>2 DEF File
<1>4. size \in Nat /\ size >= 2 /\ text \in Seq(Char) /\ Len(text) \in Nat
  BY DEF Blocking, File
<1>5. PICK c : c = CarryOut(d, lf)
  OBVIOUS
<1>a. Len(r.data) = m /\ r.pos = p /\ c = CarryOut(r.data, r.lineFeed)
  BY <1>b, <1>3, <1>5
<1>6. CASE m >= size
  <2>1. Turn(r) = r
    <3>1. Len(r.data) >= size
      BY <1>a, <1>6
    <3> QED BY <3>1, Zenon DEF Turn
  <2>2. Len(d) >= n + 1 \/ (p = Len(text) /\ ~lf)
    BY <1>3, <1>4, <1>6
  <2>3. Turned(d, p, lf, n + 1, sent)
    BY <1>2, <2>2, Zenon DEF Turned
  <2> QED BY <1>1, <1>c, <2>1, <2>3
<1>7. CASE m < size
  <2>1. lf => m = 0
    BY <1>2, <1>3, <1>7
  <2>2. c \in File /\ c = d \o Owed(lf) /\ Len(c) = IF lf THEN 1 ELSE m
    BY <1>2, <1>3, <1>5, <2>1, CarriedOut
  <2>3. PICK k \in Nat : k = Len(c)
    BY <2>2 DEF File
  <2>4. k < size /\ k >= m
    BY <1>3, <1>4, <1>7, <2>1, <2>2, <2>3
  <2>5. CASE p = Len(text)
    <3>1. Turn(r) = [data |-> c, pos |-> p, lineFeed |-> FALSE]
      <4>1. ~(Len(r.data) >= size) /\ r.pos = Len(text)
        BY <1>3, <1>4, <1>7, <1>a, <2>5
      <4>2. Turn(r) = [r EXCEPT !.data = c, !.lineFeed = FALSE]
        BY <1>a, <4>1, Zenon DEF Turn
      <4> QED BY <1>1, <4>2
    <3>2. sent \o (c \o Owed(FALSE)) = Netascii(SubSeq(text, 1, p))
      BY <1>2, <2>2, OwedNothing
    <3>3. Len(c) <= size
      BY <2>3, <2>4, <1>4
    <3>4. Turned(c, p, FALSE, n + 1, sent)
      BY <1>2, <2>2, <2>5, <3>2, <3>3, Zenon DEF Turned
    <3> QED BY <1>c, <3>1, <3>4
  <2>6. CASE p # Len(text)
    <3>1. p \in 0 .. Len(text) - 1 /\ p + 1 \in 0 .. Len(text) /\ p + 1 \in 1 .. Len(text)
      BY <1>2, <1>4, <2>6
    <3>2. PICK x \in Char : x = text[p + 1]
      BY <1>4, <3>1
    <3>b. ~(Len(r.data) >= size) /\ r.pos # Len(text) /\ text[r.pos + 1] = x /\ r.pos + 1 = p + 1
      BY <1>3, <1>4, <1>7, <1>a, <2>6, <3>2
    <3>3. ASSUME NEW e \in File, NEW l \in BOOLEAN, Turn(r) = [data |-> e, pos |-> p + 1, lineFeed |-> l],
                 e \o Owed(l) = c \o EndLines[x], Len(e) <= size, Len(e) >= k + 1,
                 l => Len(e) = size
          PROVE  Turning(Turn(r), n + 1, sent)
      <4>1. sent \o (e \o Owed(l)) = Netascii(SubSeq(text, 1, p + 1))
        <5>1. PICK w : w = Owed(l)
          OBVIOUS
        <5>2. e \o w = c \o EndLines[text[p + 1]]
          BY <3>2, <3>3, <5>1
        <5>3. sent \o c = Netascii(SubSeq(text, 1, p))
          BY <1>2, <2>2
        <5>4. sent \o (e \o w) = Netascii(SubSeq(text, 1, p + 1))
          <6>1. Grows(sent, c, p, e, w)
            BY <2>2, <3>1, <5>2, <5>3 DEF Grows
          <6> QED BY <6>1, Grown
        <5> QED BY <5>1, <5>4
      <4>2. Len(e) >= n + 1
        <5>1. m >= n /\ k >= m /\ Len(e) >= k + 1
          BY <1>2, <1>3, <2>4, <2>6, <3>3
        <5>2. Len(e) \in Nat
          BY DEF File
        <5> QED BY <5>1, <5>2
      <4>3. Turned(e, p + 1, l, n + 1, sent)
        BY <3>1, <3>3, <4>1, <4>2, Zenon DEF Turned
      <4> QED BY <1>c, <3>3, <4>3
    <3>4. CASE x # LF
      <4>1. Turn(r) = [data |-> Append(c, x), pos |-> p + 1, lineFeed |-> FALSE]
        BY <1>a, <3>4, <3>b, Zenon DEF Turn
      <4>2. EndLines[x] = <<x>>
        BY <3>2, <3>4, Tables
      <4>3. PICK e : e = Append(c, x)
        OBVIOUS
      <4>4. e \in File /\ Len(e) = k + 1 /\ e = c \o <<x>>
        BY <2>2, <2>3, <3>2, <4>3, Longer
      <4>5. e \o Owed(FALSE) = c \o EndLines[x]
        BY <4>2, <4>4, OwedNothing
      <4>6. k + 1 <= size /\ k + 1 >= k + 1
        BY <1>4, <2>4
      <4> QED BY <3>3, <4>1, <4>3, <4>4, <4>5, <4>6
    <3>5. CASE x = LF
      <4>1. PICK f : f = Append(c, CR)
        OBVIOUS
      <4>2. f \in File /\ Len(f) = k + 1 /\ f = c \o <<CR>>
        BY <2>2, <2>3, <4>1, Tables, Longer
      <4>3. EndLines[x] = <<CR, LF>>
        BY <3>5, Tables
      <4>4. f \o <<LF>> = c \o <<CR, LF>>
        <5>1. <<CR>> \o <<LF>> = <<CR, LF>>
          BY Pair
        <5>2. <<CR>> \in File /\ <<LF>> \in File
          BY Tables DEF File
        <5>3. (c \o <<CR>>) \o <<LF>> = c \o (<<CR>> \o <<LF>>)
          BY <2>2, <5>2, Associative
        <5> QED BY <4>2, <5>1, <5>3
      <4>5. CASE k + 1 = size
        <5>1. Turn(r) = [data |-> f, pos |-> p + 1, lineFeed |-> TRUE]
          <6>1. Len(Append(c, CR)) = size /\ text[r.pos + 1] = LF
            BY <3>5, <3>b, <4>1, <4>2, <4>5
          <6> QED BY <1>a, <3>b, <4>1, <6>1, Zenon DEF Turn
        <5>2. f \o Owed(TRUE) = c \o EndLines[x]
          BY <4>3, <4>4 DEF Owed
        <5>3. Len(f) <= size /\ Len(f) >= k + 1 /\ Len(f) = size
          BY <1>4, <4>2, <4>5
        <5> QED BY <3>3, <4>2, <5>1, <5>2, <5>3
      <4>6. CASE k + 1 # size
        <5>1. Turn(r) = [data |-> Append(f, LF), pos |-> p + 1, lineFeed |-> FALSE]
          <6>1. Len(Append(c, CR)) # size /\ text[r.pos + 1] = LF
            BY <3>5, <3>b, <4>1, <4>2, <4>6
          <6> QED BY <1>a, <3>b, <4>1, <6>1, Zenon DEF Turn
        <5>2. PICK e : e = Append(f, LF)
          OBVIOUS
        <5>3. PICK j \in Nat : j = k + 1
          OBVIOUS
        <5>4. e \in File /\ Len(e) = j + 1 /\ e = f \o <<LF>>
          BY <4>2, <5>2, <5>3, Tables, Longer
        <5>5. e \o Owed(FALSE) = c \o EndLines[x]
          BY <4>3, <4>4, <5>4, OwedNothing
        <5>6. Len(e) <= size /\ Len(e) >= k + 1
          BY <1>4, <2>4, <4>6, <5>3, <5>4
        <5> QED BY <3>3, <5>1, <5>2, <5>4, <5>5, <5>6
      <4> QED BY <4>5, <4>6
    <3> QED BY <3>4, <3>5
  <2> QED BY <2>5, <2>6
<1> QED BY <1>3, <1>4, <1>6, <1>7

\* size turns fill a block, or come to the end of the file.
LEMMA FillLoop ==
    ASSUME NEW p, NEW lf, size \in Nat
    PROVE  \E t : /\ t[0] = [data |-> <<>>, pos |-> p, lineFeed |-> lf]
                  /\ \A n \in 1 .. size : t[n] = Turn(t[n - 1])
                  /\ Fill(p, lf) = t[size]
<1> DEFINE z == [data |-> <<>>, pos |-> p, lineFeed |-> lf]
           R(m, h) == h = [n \in 0 .. m |-> IF n = 0 THEN z ELSE Turn(h[n - 1])]
           G == {m \in Nat : \E u : R(m, u)}
<1>1. 0 \in G
  <2> DEFINE f == [i \in 0 .. 0 |-> z]
  <2>1. R(0, f)
    OBVIOUS
  <2> QED BY <2>1
<1>2. ASSUME NEW k \in 0 .. size - 1, k \in G PROVE k + 1 \in G
  <2> HIDE DEF z
  <2>1. PICK f : R(k, f)
    BY <1>2
  <2> DEFINE g == [i \in 0 .. k + 1 |-> IF i = k + 1 THEN Turn(f[k]) ELSE f[i]]
  <2>2. ASSUME NEW i \in 0 .. k + 1
        PROVE  g[i] = IF i = 0 THEN z ELSE Turn(g[i - 1])
    <3>1. CASE i = k + 1
      <4>1. g[k] = f[k] /\ i - 1 = k /\ i # 0
        BY <3>1
      <4> QED BY <3>1, <4>1
    <3>2. CASE i # k + 1
      <4>1. i \in 0 .. k /\ g[i] = f[i] /\ (i # 0 => g[i - 1] = f[i - 1])
        BY <3>2
      <4>2. f[i] = IF i = 0 THEN z ELSE Turn(f[i - 1])
        BY <2>1, <4>1
      <4> HIDE DEF g
      <4> QED BY <4>1, <4>2
    <3> QED BY <3>1, <3>2
  <2>3. g = [i \in 0 .. k + 1 |-> g[i]]
    OBVIOUS
  <2> HIDE DEF g
  <2>4. R(k + 1, g)
    BY <2>2, <2>3
  <2>5. k + 1 \in Nat
    OBVIOUS
  <2>6. \E u : R(k + 1, u)
    <3> HIDE DEF R
    <3> QED BY <2>4
  <2> HIDE DEF R
  <2> QED BY <2>5, <2>6
<1> HIDE DEF G
<1>3. size \in G
  <2>1. 0 .. size \subseteq G
    BY <1>1, <1>2, Induction
  <2> QED BY <2>1
<1> DEFINE turn == CHOOSE u : R(size, u)
<1>4. R(size, turn)
  BY <1>3 DEF G
<1>5. Fill(p, lf) = turn[size]
  BY DEF Fill
<1> HIDE DEF turn
<1>6. turn[0] = z /\ \A n \in 1 .. size : turn[n] = Turn(turn[n - 1])
  BY <1>4
<1> QED BY <1>5, <1>6

LEMMA FillBlock ==
    ASSUME NEW sent, Blocking(sent), NEW p \in 0 .. Len(text), NEW lf \in BOOLEAN,
           sent \o Owed(lf) = Netascii(SubSeq(text, 1, p))
    PROVE  Turning(Fill(p, lf), size, sent)
<1>0. size \in Nat /\ size >= 2
  BY DEF Blocking
<1>1. PICK t : /\ t[0] = [data |-> <<>>, pos |-> p, lineFeed |-> lf]
               /\ \A n \in 1 .. size : t[n] = Turn(t[n - 1])
               /\ Fill(p, lf) = t[size]
  BY <1>0, FillLoop
<1> DEFINE G == {n \in Nat : Turning(t[n], n, sent)}
<1>2. 0 \in G
  <2>1. Owed(lf) \in Seq(Char) /\ <<>> \o Owed(lf) = Owed(lf)
    <3>1. Owed(lf) \in Seq(Char)
      BY Tables DEF Owed
    <3> QED BY <3>1, ConcatEmptySeq
  <2>2. <<>> \in File /\ Len(<<>>) = 0 /\ 0 <= size /\ 0 >= 0
    BY <1>0 DEF File
  <2>3. sent \o (<<>> \o Owed(lf)) = Netascii(SubSeq(text, 1, p))
    BY <2>1
  <2>4. Turned(<<>>, p, lf, 0, sent)
    BY <2>2, <2>3 DEF Turned
  <2>5. Turning(t[0], 0, sent)
    BY <1>1, <2>4, Zenon DEF Turning
  <2> QED BY <2>5
<1>3. ASSUME NEW n \in 0 .. size - 1, n \in G PROVE n + 1 \in G
  <2>1. n \in Nat /\ n < size /\ n + 1 \in 1 .. size /\ (n + 1) - 1 = n /\ n + 1 \in Nat
    BY <1>0
  <2>2. t[n + 1] = Turn(t[n])
    BY <1>1, <2>1
  <2>3. Turning(t[n], n, sent)
    BY <1>3
  <2>4. Turning(Turn(t[n]), n + 1, sent)
    BY <2>1, <2>3, TurnStep
  <2> QED BY <2>1, <2>2, <2>4
<1>4. size \in G
  <2> HIDE DEF G
  <2>1. 0 .. size \subseteq G
    BY <1>0, <1>2, <1>3, Induction
  <2> QED BY <1>0, <2>1
<1> QED BY <1>1, <1>4

(***************************************************************************)
(* The transfer.                                                           *)
(***************************************************************************)
Types ==
    /\ text \in File /\ size \in BlockSizes /\ pos \in 0 .. Len(text) /\ lineFeed \in BOOLEAN
    /\ blocks \in Seq(File) /\ received \in File

\* What is in blocks, and the '\n' that is owed, is what has been read, converted.
Converted == FlattenSeq(blocks) \o Owed(lineFeed) = Netascii(SubSeq(text, 1, pos))

\* A short block comes at the end of the file, and nothing is owed then.
ShortLast == Complete => pos = Len(text) /\ ~lineFeed

\* The receiver has decoded what was sent, as if it were one block.
Stored == received = Decode(FlattenSeq(blocks))

BlocksInv == Types /\ Converted /\ BlocksFit /\ ShortLast /\ Stored

LEMMA Sizes == ASSUME NEW n \in BlockSizes PROVE n \in Nat /\ n >= 2
BY BlocksAssumption

LEMMA BlocksInit == Init => BlocksInv
<1> SUFFICES ASSUME Init PROVE BlocksInv
  OBVIOUS
<1>1. /\ size \in BlockSizes /\ pos = 0 /\ lineFeed = FALSE /\ blocks = <<>> /\ received = <<>>
      /\ text \in SeqOf(Char, MaxLength)
  BY DEF Init
<1>2. text \in File
  <2>1. PICK m \in 0 .. MaxLength : text \in [1 .. m -> Char]
    BY <1>1 DEF SeqOf
  <2>2. m \in Nat
    BY BlocksAssumption
  <2> QED BY <2>1, <2>2 DEF File
<1>3. <<>> \in File /\ <<>> \in Seq(File)
  BY DEF File
<1>4. Types
  <2>1. 0 \in 0 .. Len(text)
    BY <1>2 DEF File
  <2> QED BY <1>1, <1>2, <1>3, <2>1 DEF Types
<1>5. Converted
  <2>1. SubSeq(text, 1, 0) = <<>>
    BY SubSeqEmpty
  <2>2. Netascii(<<>>) = <<>>
    BY TranslateEmpty DEF Netascii
  <2>3. FlattenSeq(<<>>) = <<>> /\ <<>> \o Owed(FALSE) = <<>>
    BY <1>3, FlattenEmpty, OwedNothing
  <2> QED BY <1>1, <2>1, <2>2, <2>3 DEF Converted
<1>6. BlocksFit
  BY <1>1 DEF BlocksFit
<1>7. ShortLast
  BY <1>1 DEF ShortLast, Complete
<1>8. Stored
  <2>1. Decode(<<>>) = <<>>
    BY TranslateEmpty DEF Decode
  <2> QED BY <1>1, <2>1, FlattenEmpty DEF Stored
<1> QED BY <1>4, <1>5, <1>6, <1>7, <1>8 DEF BlocksInv

LEMMA BlocksStep == BlocksInv /\ [Transfer]_vars => BlocksInv'
<1> SUFFICES ASSUME BlocksInv, [Transfer]_vars PROVE BlocksInv'
  OBVIOUS
<1>1. CASE UNCHANGED vars
  BY <1>1 DEF vars, BlocksInv, Types, Converted, BlocksFit, ShortLast, Stored, Complete, LastBlock
<1>2. CASE Transfer
  <2>1. Types /\ Converted /\ BlocksFit /\ Stored
    BY DEF BlocksInv
  <2>2. PICK sent : sent = FlattenSeq(blocks)
    OBVIOUS
  <2>3. sent \in File
    BY <2>1, <2>2, FlattenType DEF Types, File
  <2>4. Blocking(sent)
    BY <2>1, <2>3, Sizes DEF Types, Blocking
  <2>5. Turning(Fill(pos, lineFeed), size, sent)
    <3>1. PICK p, lf : p = pos /\ lf = lineFeed
      OBVIOUS
    <3>2. p \in 0 .. Len(text) /\ lf \in BOOLEAN /\ sent \o Owed(lf) = Netascii(SubSeq(text, 1, p))
      BY <2>1, <2>2, <3>1 DEF Types, Converted
    <3>3. Turning(Fill(p, lf), size, sent)
      BY <2>4, <3>2, FillBlock
    <3> QED BY <3>1, <3>3
  <2>6. PICK d, p, lf : /\ Fill(pos, lineFeed) = [data |-> d, pos |-> p, lineFeed |-> lf]
                        /\ Turned(d, p, lf, size, sent)
    BY <2>5 DEF Turning
  <2>7. /\ d \in File /\ p \in 0 .. Len(text) /\ lf \in BOOLEAN /\ Len(d) <= size
        /\ Len(d) >= size \/ (p = Len(text) /\ ~lf)
        /\ sent \o (d \o Owed(lf)) = Netascii(SubSeq(text, 1, p))
    BY <2>6 DEF Turned
  <2>8. /\ pos' = p /\ lineFeed' = lf /\ blocks' = Append(blocks, d)
        /\ received' = received \o Decode(d) /\ text' = text /\ size' = size
    BY <1>2, <2>6 DEF Transfer
  <2>9. FlattenSeq(blocks') = sent \o d
    <3>1. blocks \in Seq(Seq(Char)) /\ d \in Seq(Char)
      BY <2>1, <2>7 DEF Types, File
    <3> QED BY <2>2, <2>8, <3>1, FlattenAppend
  <2>10. Decode(d) \in File
    BY <2>7, Tables, TranslateType DEF Decode
  <2>11. Types'
    <3>1. received \o Decode(d) \in File
      BY <2>1, <2>10 DEF Types, File
    <3>2. Append(blocks, d) \in Seq(File)
      BY <2>1, <2>7 DEF Types
    <3> QED BY <2>1, <2>7, <2>8, <3>1, <3>2 DEF Types
  <2>12. Converted'
    <3>1. Owed(lf) \in File
      BY Tables DEF Owed, File
    <3>2. (sent \o d) \o Owed(lf) = sent \o (d \o Owed(lf))
      BY <2>3, <2>7, <3>1, Associative
    <3>3. Converted' <=> FlattenSeq(blocks') \o Owed(lf) = Netascii(SubSeq(text, 1, p))
      BY <2>8 DEF Converted, Netascii, Translate
    <3> QED BY <2>7, <2>9, <3>2, <3>3
  <2>13. BlocksFit'
    <3>1. blocks \in Seq(File) /\ \A i \in 1 .. Len(blocks) : Len(blocks[i]) <= size
      BY <2>1 DEF Types, BlocksFit
    <3>2. PICK s : s = Append(blocks, d)
      OBVIOUS
    <3>3. /\ Len(s) = Len(blocks) + 1 /\ Len(blocks) \in Nat /\ s[Len(blocks) + 1] = d
          /\ \A i \in 1 .. Len(blocks) : s[i] = blocks[i]
      BY <2>7, <3>1, <3>2
    <3>4. ASSUME NEW i \in 1 .. Len(s) PROVE Len(s[i]) <= size
      <4>1. CASE i = Len(blocks) + 1
        BY <2>7, <3>3, <4>1
      <4>2. CASE i # Len(blocks) + 1
        <5>1. i \in 1 .. Len(blocks)
          BY <3>3, <4>2
        <5> QED BY <3>1, <3>3, <5>1
      <4> QED BY <4>1, <4>2
    <3> QED BY <2>8, <3>2, <3>4 DEF BlocksFit
  <2>14. ShortLast'
    <3>1. blocks' # <<>> /\ Last(blocks') = d
      BY <2>1, <2>7, <2>8 DEF Types, Last
    <3>2. Complete' => Len(d) < size
      BY <2>8, <3>1 DEF Complete, LastBlock
    <3>3. Len(d) \in Nat /\ size \in Nat
      BY <2>1, <2>7, Sizes DEF Types, File
    <3> QED BY <2>7, <2>8, <3>2, <3>3 DEF ShortLast
  <2>15. Stored'
    <3>1. Translate(sent \o d, DropCr) = Translate(sent, DropCr) \o Translate(d, DropCr)
      BY <2>3, <2>7, Tables, TranslateConcat
    <3>2. received = Decode(sent)
      BY <2>1, <2>2 DEF Stored
    <3>3. received' = Decode(sent \o d)
      BY <2>8, <3>1, <3>2 DEF Decode
    <3> QED BY <2>9, <3>3 DEF Stored, Decode, Translate
  <2> QED BY <2>11, <2>12, <2>13, <2>14, <2>15 DEF BlocksInv
<1> QED BY <1>1, <1>2

\* The inductive invariant: it is kept block by block, by the conversion of what
\* has been read so far.
THEOREM Safe == Spec => []BlocksInv
<1> QED BY BlocksInit, BlocksStep, PTL DEF Spec

LEMMA IsPrefixOf ==
    ASSUME NEW a \in File, NEW b \in File
    PROVE  IsPrefix(a, a \o b)
<1>1. a \in Seq(Char) /\ b \in Seq(Char) /\ Len(a) \in Nat /\ Len(b) \in Nat
  BY DEF File
<1>2. PICK c : c = a \o b
  OBVIOUS
<1>3. /\ c \in Seq(Char) /\ Len(c) = Len(a) + Len(b)
      /\ \A i \in 1 .. Len(a) : c[i] = a[i]
  BY <1>1, <1>2, ConcatProperties
<1>4. Len(a) <= Len(c)
  BY <1>1, <1>3
<1>5. PICK e : e = SubSeq(c, 1, Len(a))
  OBVIOUS
<1>6. e \in Seq(Char) /\ Len(e) = Len(a) /\ \A i \in 1 .. Len(a) : e[i] = c[i]
  BY <1>1, <1>3, <1>4, <1>5, SubSeqProperties
<1>7. e = a
  BY <1>1, <1>3, <1>6, SeqEqual
<1>8. SubSeq(a, 1, Len(a)) = a
  BY <1>1, SubSeqFull
<1> QED BY <1>2, <1>4, <1>5, <1>7, <1>8 DEF IsPrefix

\* The file is what has been read and the rest of it.
LEMMA SplitFile ==
    ASSUME NEW s \in File, NEW n \in 0 .. Len(s)
    PROVE  \E u \in File : s = SubSeq(s, 1, n) \o u /\ SubSeq(s, 1, n) \in File
<1>1. s \in Seq(Char) /\ Len(s) \in Nat
  BY DEF File
<1>2. PICK a, u : a = SubSeq(s, 1, n) /\ u = SubSeq(s, n + 1, Len(s))
  OBVIOUS
<1>3. a \in Seq(Char) /\ u \in Seq(Char)
  BY <1>1, <1>2
<1>4. a \o u = s
  <2>1. PICK m, k : m = 1 /\ k = Len(s)
    OBVIOUS
  <2>2. m \in 1 .. Len(s) + 1 /\ n \in m - 1 .. Len(s) /\ k \in n .. Len(s)
    BY <1>1, <2>1
  <2>3. SubSeq(s, m, n) \o SubSeq(s, n + 1, k) = SubSeq(s, m, k)
    BY <1>1, <2>2, ConcatAdjacentSubSeq
  <2> QED BY <1>1, <1>2, <2>1, <2>3, SubSeqFull
<1> QED BY <1>2, <1>3, <1>4 DEF File

\* Blocks are consecutive pieces of the file's netascii form wherever their
\* boundaries fall, for every block size, and the whole of it after the short one.
THEOREM Wire == Spec => []WireIsNetascii
<1>1. BlocksInv => WireIsNetascii
  <2> SUFFICES ASSUME BlocksInv PROVE WireIsNetascii
    OBVIOUS
  <2>1. PICK sent, c : sent = FlattenSeq(blocks) /\ c = SubSeq(text, 1, pos)
    OBVIOUS
  <2>2. /\ text \in File /\ pos \in 0 .. Len(text) /\ lineFeed \in BOOLEAN /\ sent \in File
        /\ sent \o Owed(lineFeed) = Netascii(c)
    BY <2>1, FlattenType DEF BlocksInv, Types, Converted, File
  <2>3. IsPrefix(FlattenSeq(blocks), Netascii(text))
    <3>1. PICK u \in File : text = c \o u /\ c \in File
      BY <2>1, <2>2, SplitFile
    <3>2. Netascii(c \o u) = Netascii(c) \o Netascii(u)
      BY <3>1, Tables, TranslateConcat DEF Netascii
    <3>3. PICK w, v : w = Owed(lineFeed) /\ v = Netascii(u)
      OBVIOUS
    <3>4. w \in File /\ v \in File /\ w \o v \in File
      <4>1. w \in File
        BY <3>3, Tables DEF Owed, File
      <4>2. v \in File
        BY <3>1, <3>3, NetasciiType
      <4> QED BY <4>1, <4>2 DEF File
    <3>5. (sent \o w) \o v = sent \o (w \o v)
      BY <2>2, <3>4, Associative
    <3>6. Netascii(text) = sent \o (w \o v)
      BY <2>2, <3>1, <3>2, <3>3, <3>5
    <3>7. IsPrefix(sent, sent \o (w \o v))
      BY <2>2, <3>4, IsPrefixOf
    <3> QED BY <2>1, <3>6, <3>7
  <2>4. Complete => FlattenSeq(blocks) = Netascii(text)
    <3>1. SUFFICES ASSUME Complete PROVE sent = Netascii(text)
      BY <2>1
    <3>2. pos = Len(text) /\ lineFeed = FALSE
      BY <2>2, <3>1 DEF BlocksInv, ShortLast
    <3>3. c = text
      BY <2>1, <2>2, <3>2, SubSeqFull DEF File
    <3>4. sent \o Owed(FALSE) = sent
      BY <2>2, OwedNothing
    <3> QED BY <2>2, <3>2, <3>3, <3>4
  <2> QED BY <2>3, <2>4 DEF WireIsNetascii
<1> QED BY <1>1, Safe, PTL

\* _sendBuffer holds every block, for every block size of two bytes and more: a
\* carried '\n' comes in the first turn only.
THEOREM Fits == Spec => []BlocksFit
<1>1. BlocksInv => BlocksFit
  BY DEF BlocksInv
<1> QED BY <1>1, Safe, PTL

\* What the receiver has written after the last block is the sender's file
\* without '\r', whatever the file.
THEOREM FileComesAcross == Spec => []RoundTrip
<1>1. BlocksInv => RoundTrip
  <2> SUFFICES ASSUME BlocksInv, Complete PROVE received = Translate(text, DropCr)
    BY DEF RoundTrip
  <2>1. text \in File /\ pos = Len(text) /\ lineFeed = FALSE
    BY DEF BlocksInv, Types, ShortLast
  <2>2. PICK sent : sent = FlattenSeq(blocks)
    OBVIOUS
  <2>3. sent \in File /\ sent \o Owed(FALSE) = Netascii(SubSeq(text, 1, Len(text)))
    BY <2>1, <2>2, FlattenType DEF BlocksInv, Types, Converted, File
  <2>4. SubSeq(text, 1, Len(text)) = text
    BY <2>1, SubSeqFull DEF File
  <2>5. sent = Netascii(text)
    BY <2>3, <2>4, OwedNothing
  <2>6. received = Translate(sent, DropCr)
    BY <2>2 DEF BlocksInv, Stored, Decode
  <2> QED BY <2>1, <2>5, <2>6, DecodeNetascii
<1> QED BY <1>1, Safe, PTL

=============================================================================
