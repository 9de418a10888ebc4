---------------------------- MODULE TelnetProofs ----------------------------
(***************************************************************************)
(* Theorems about module TelnetSession, for every alphabet, every name and *)
(* password, every length of the history and of a line, every distance of  *)
(* HOME and every width of the terminal.                                   *)
(***************************************************************************)
EXTENDS TelnetSession, SequenceTheorems, TLAPS

(***************************************************************************)
(* Bounded sequences: lines and the history of lines.                      *)
(***************************************************************************)
LEMMA BoundedSeqDef ==
    ASSUME NEW S, NEW n \in Nat
    PROVE  /\ \A s \in Seq(S) : Len(s) <= n => s \in BoundedSeq(S, n)
           /\ \A s \in BoundedSeq(S, n) : s \in Seq(S) /\ Len(s) \in Nat /\ Len(s) <= n
  <1>1. ASSUME NEW s \in Seq(S), Len(s) <= n PROVE s \in BoundedSeq(S, n)
    <2>1. Len(s) \in 0 .. n /\ s \in [1 .. Len(s) -> S]
      BY <1>1
    <2> QED
      BY <2>1 DEF BoundedSeq, SeqOf
  <1>2. ASSUME NEW s \in BoundedSeq(S, n) PROVE s \in Seq(S) /\ Len(s) \in Nat /\ Len(s) <= n
    <2>1. PICK m \in 0 .. n : s \in [1 .. m -> S]
      BY <1>2 DEF BoundedSeq, SeqOf
    <2> QED
      BY <2>1
  <1> QED
    BY <1>1, <1>2

LEMMA Sizes ==
    /\ MaxLine \in Nat /\ MaxHistory \in Nat \ {0} /\ Home \in Nat \ {0}
    /\ SizeMod \in Nat /\ MaxLine < SizeMod /\ Widths \subseteq Nat \ {0}
  BY TelnetAssumption

LEMMA LineDef ==
    /\ \A s \in Seq(Char) : Len(s) <= MaxLine => s \in Line
    /\ \A s \in Line : s \in Seq(Char) /\ Len(s) \in Nat /\ Len(s) <= MaxLine
  <1>1. MaxLine \in Nat
    BY Sizes
  <1> QED
    BY <1>1, BoundedSeqDef DEF Line

LEMMA EmptyLine == <<>> \in Line
  <1>1. <<>> \in Seq(Char) /\ Len(<<>>) <= MaxLine
    BY Sizes
  <1> QED
    BY <1>1, LineDef

\* What BackSpace keeps: no more than there was, whatever length() - 1 is.
LEMMA PrefixLine ==
    ASSUME NEW b \in Line
    PROVE  Prefix(b, (Len(b) - 1) % SizeMod) \in Line
  <1>1. b \in Seq(Char) /\ Len(b) \in Nat /\ Len(b) <= MaxLine
    BY LineDef
  <1>2. PICK n \in Int : n = (Len(b) - 1) % SizeMod /\ n >= 0
    BY <1>1, Sizes
  <1>3. PICK m \in 0 .. Len(b) : Prefix(b, n) = SubSeq(b, 1, m)
    BY <1>1, <1>2 DEF Prefix
  <1>4. SubSeq(b, 1, m) \in Seq(Char) /\ Len(SubSeq(b, 1, m)) <= MaxLine
    BY <1>1, Sizes
  <1> QED
    BY <1>2, <1>3, <1>4, LineDef

LEMMA AppendLine ==
    ASSUME NEW b \in Line, Len(b) < MaxLine, NEW ch \in Char
    PROVE  Append(b, ch) \in Line
  <1>1. b \in Seq(Char) /\ Len(b) \in Nat
    BY LineDef
  <1>2. Append(b, ch) \in Seq(Char) /\ Len(Append(b, ch)) <= MaxLine
    BY <1>1, Sizes
  <1> QED
    BY <1>2, LineDef

LEMMA OneOf ==
    ASSUME NEW S, NEW x \in Seq(S), NEW n \in 1 .. Len(x)
    PROVE  SubSeq(x, n, n) = <<x[n]>>
  <1>0. n \in Int /\ n <= n /\ n - n + 1 = 1 /\ \A i \in n .. n : x[i] \in S
    OBVIOUS
  <1>1. PICK y \in Seq(S) : y = SubSeq(x, n, n) /\ Len(y) = 1 /\ \A i \in 1 .. 1 : y[i] = x[n + i - 1]
    <2>1. /\ SubSeq(x, n, n) \in Seq(S) /\ Len(SubSeq(x, n, n)) = n - n + 1
          /\ \A i \in 1 .. n - n + 1 : SubSeq(x, n, n)[i] = x[n + i - 1]
      BY <1>0, SubSeqProperties
    <2> QED
      BY <1>0, <2>1
  <1>2. PICK e \in S : e = x[n]
    BY <1>0
  <1>3. PICK z \in Seq(S) : z = <<e>> /\ Len(z) = 1 /\ z[1] = e
    <2>1. <<e>> \in Seq(S) /\ Len(<<e>>) = 1 /\ <<e>>[1] = e
      OBVIOUS
    <2> QED
      BY <2>1, Zenon
  <1>4. y[1] = x[n]
    BY <1>0, <1>1
  <1>5. \A i \in 1 .. Len(y) : y[i] = z[i]
    BY <1>1, <1>2, <1>3, <1>4
  <1>6. y = z
    BY <1>1, <1>3, <1>5, SeqEqual
  <1> QED
    BY <1>1, <1>2, <1>3, <1>6

LEMMA LastAppended ==
    ASSUME NEW S, NEW s \in Seq(S), NEW c \in S
    PROVE  SubSeq(Append(s, c), Len(s) + 1, Len(s) + 1) = <<c>>
  <1>1. PICK x \in Seq(S), n \in Nat : x = Append(s, c) /\ n = Len(s) + 1 /\ x[n] = c /\ Len(x) = n
    <2>1. /\ Append(s, c) \in Seq(S) /\ Len(Append(s, c)) = Len(s) + 1 /\ Append(s, c)[Len(s) + 1] = c
      BY AppendProperties
    <2>2. Len(s) + 1 \in Nat
      OBVIOUS
    <2> QED
      BY <2>1, <2>2, Zenon
  <1>2. n \in 1 .. Len(x)
    BY <1>1
  <1>3. SubSeq(x, n, n) = <<x[n]>>
    BY <1>2, OneOf
  <1> QED
    BY <1>1, <1>3, Zenon

LEMMA PartOf ==
    ASSUME NEW S, NEW x \in Seq(S), NEW n \in Nat, n = Len(x), NEW i \in 1 .. n + 1
    PROVE  SubSeq(x, i, n) \in Seq(S) /\ Len(SubSeq(x, i, n)) = n - i + 1
  OBVIOUS

LEMMA PartAppended ==
    ASSUME NEW S, NEW x \in Seq(S), NEW c \in S, NEW n \in Nat, n = Len(x), NEW i \in 1 .. n
    PROVE  SubSeq(x, i, n) \o <<c>> = SubSeq(Append(x, c), i, n + 1)
  OBVIOUS

(***************************************************************************)
(* Remainders.                                                             *)
(***************************************************************************)
LEMMA ModUnique ==
    ASSUME NEW w \in Nat \ {0}, NEW q \in Int, NEW r \in 0 .. w - 1
    PROVE  (w * q + r) % w = r
  <1> DEFINE n == w * q + r
  <1>1. PICK m \in 0 .. w - 1, d \in Int : m = n % w /\ n = w * d + m
    <2>1. n \in Int
      OBVIOUS
    <2>2. n % w \in 0 .. w - 1 /\ n \div w \in Int /\ n = w * (n \div w) + (n % w)
      BY <2>1
    <2> QED
      BY <2>2
  <1>2. w * (d - q) = w * d - w * q
    OBVIOUS
  <1>3. PICK e \in Int : e = d - q
    OBVIOUS
  <1>4. w * e = r - m
    BY <1>1, <1>2, <1>3
  <1> HIDE DEF n
  <1>5. e = 0
    <2>1. r - m < w /\ r - m > -w /\ r - m \in Int
      OBVIOUS
    <2>2. ~(e >= 1)
      BY <1>4, <2>1
    <2>3. ~(e <= -1)
      BY <1>4, <2>1
    <2> QED
      BY <2>2, <2>3
  <1>6. m = r
    BY <1>4, <1>5
  <1> QED
    BY <1>1, <1>6 DEF n

LEMMA ModBelow ==
    ASSUME NEW n \in Nat, NEW w \in Nat \ {0}, n >= w
    PROVE  n % w <= n - w
  <1>1. PICK q \in Int, m \in 0 .. w - 1 : m = n % w /\ n = w * q + m
    OBVIOUS
  <1>2. q >= 1
    <2>1. ~(q <= 0)
      BY <1>1
    <2> QED
      BY <2>1
  <1>3. w * q >= w
    BY <1>2
  <1> QED
    BY <1>1, <1>3

LEMMA ModFacts ==
    ASSUME NEW n \in Nat, NEW w \in Nat \ {0}
    PROVE  /\ n % w \in 0 .. w - 1
           /\ n < w => n % w = n
           /\ n % w = w - 1 => (n + 1) % w = 0
           /\ n % w # w - 1 => (n + 1) % w = (n % w) + 1
  <1> DEFINE q == n \div w
             r == n % w
  <1>1. q \in Int /\ r \in 0 .. w - 1 /\ n = w * q + r
    OBVIOUS
  <1>2. n < w => n % w = n
    OBVIOUS
  <1> HIDE DEF q, r
  <1>4. CASE r = w - 1
    <2>1. q + 1 \in Int /\ 0 \in 0 .. w - 1 /\ n + 1 = w * (q + 1) + 0
      BY <1>1, <1>4
    <2>2. (w * (q + 1) + 0) % w = 0
      BY <2>1, ModUnique
    <2> QED
      BY <1>1, <1>2, <1>4, <2>1, <2>2 DEF r
  <1>5. CASE r # w - 1
    <2>1. r + 1 \in 0 .. w - 1 /\ n + 1 = w * q + (r + 1)
      BY <1>1, <1>5
    <2>2. (w * q + (r + 1)) % w = r + 1
      BY <1>1, <2>1, ModUnique
    <2> QED
      BY <1>1, <1>2, <1>5, <2>1, <2>2 DEF r
  <1> QED
    BY <1>4, <1>5

(***************************************************************************)
(* The terminal.                                                           *)
(***************************************************************************)
LEMMA TerminalFacts ==
    ASSUME NEW t \in Terminal
    PROVE  /\ t = [width |-> t.width, row |-> t.row, col |-> t.col]
           /\ t.width \in Widths /\ t.width \in Nat \ {0}
           /\ t.row \in Seq(Cell) /\ Len(t.row) \in Nat /\ Len(t.row) <= t.width
           /\ t.col \in Nat /\ t.col <= t.width
  <1>1. PICK w \in Widths : t \in [width : {w}, row : BoundedSeq(Cell, w), col : 0 .. w]
    BY DEF Terminal
  <1>2. w \in Nat \ {0}
    BY Sizes
  <1>3. t.width = w /\ t.row \in BoundedSeq(Cell, w) /\ t.col \in 0 .. w
    BY <1>1
  <1>4. t.row \in Seq(Cell) /\ Len(t.row) \in Nat /\ Len(t.row) <= w
    BY <1>2, <1>3, BoundedSeqDef
  <1> QED
    BY <1>1, <1>2, <1>3, <1>4

LEMMA Fields ==
    ASSUME NEW w, NEW row, NEW col
    PROVE  /\ [width |-> w, row |-> row, col |-> col].width = w
           /\ [width |-> w, row |-> row, col |-> col].row = row
           /\ [width |-> w, row |-> row, col |-> col].col = col
  OBVIOUS

LEMMA Excepted ==
    ASSUME NEW t \in Terminal, NEW row, NEW col
    PROVE  [t EXCEPT !.col = col, !.row = row] = [width |-> t.width, row |-> row, col |-> col]
  <1>1. t = [width |-> t.width, row |-> t.row, col |-> t.col]
    BY TerminalFacts
  <1>2. PICK w, r, c : t = [width |-> w, row |-> r, col |-> c] /\ w = t.width
    BY <1>1, Zenon
  <1> DEFINE u == [t EXCEPT !.col = col]
  <1>3. u = [width |-> w, row |-> r, col |-> col]
    BY <1>2
  <1>4. [t EXCEPT !.col = col, !.row = row] = [u EXCEPT !.row = row]
    BY <1>2
  <1> HIDE DEF u
  <1>5. [u EXCEPT !.row = row] = [width |-> w, row |-> row, col |-> col]
    BY <1>3
  <1> QED
    BY <1>2, <1>4, <1>5, Zenon

LEMMA TerminalMade ==
    ASSUME NEW w \in Widths, NEW row \in Seq(Cell), Len(row) <= w, NEW col \in 0 .. w
    PROVE  [width |-> w, row |-> row, col |-> col] \in Terminal
  <1>1. row \in BoundedSeq(Cell, w)
    BY BoundedSeqDef, Sizes
  <1> QED
    BY <1>1 DEF Terminal

\* Where a line and one character end.
LEMMA DisplayFits ==
    ASSUME NEW t \in Terminal, NEW s \in Seq(Cell), t.col + Len(s) <= t.width, Len(t.row) = t.col
    PROVE  Display(t, s) = [width |-> t.width, row |-> t.row \o s, col |-> t.col + Len(s)]
  <1> DEFINE end == t.col + Len(s)
             row == [i \in 1 .. (IF end < Len(t.row) THEN Len(t.row) ELSE end) |->
                       IF i > t.col /\ i <= end THEN s[i - t.col]
                       ELSE IF i <= Len(t.row) THEN t.row[i] ELSE "blank"]
  <1>1. /\ t = [width |-> t.width, row |-> t.row, col |-> t.col]
        /\ t.row \in Seq(Cell) /\ t.col \in Nat /\ Len(s) \in Nat
    BY TerminalFacts
  <1>2. row = t.row \o s
    BY <1>1
  <1>3. Display(t, s) = [t EXCEPT !.col = end, !.row = row]
    BY DEF Display
  <1> HIDE DEF row
  <1>4. Display(t, s) = [width |-> t.width, row |-> row, col |-> end]
    BY <1>1, <1>3
  <1> QED
    BY <1>2, <1>4

LEMMA DisplayWraps ==
    ASSUME NEW t \in Terminal, NEW s \in Seq(Cell), ~(t.col + Len(s) <= t.width),
           NEW last \in Nat, last = ((t.col + Len(s) - 1) % t.width) + 1
    PROVE  /\ Display(t, s) = [width |-> t.width, row |-> SubSeq(s, Len(s) - last + 1, Len(s)), col |-> last]
           /\ last \in 1 .. t.width /\ last <= Len(s)
  <1>1. /\ t = [width |-> t.width, row |-> t.row, col |-> t.col]
        /\ t.width \in Nat \ {0} /\ t.col \in Nat /\ t.col <= t.width /\ Len(s) \in Nat
    BY TerminalFacts
  <1> DEFINE end == t.col + Len(s)
             e == ((end - 1) % t.width) + 1
  <1>2. Display(t, s) = [t EXCEPT !.col = e, !.row = SubSeq(s, Len(s) - e + 1, Len(s))]
    BY DEF Display
  <1>3. e \in 1 .. t.width
    <2>1. t.col + Len(s) - 1 \in Nat
      BY <1>1
    <2>2. (t.col + Len(s) - 1) % t.width \in 0 .. t.width - 1
      BY <1>1, <2>1, ModFacts
    <2> QED
      BY <1>1, <2>2
  <1>4. e = last /\ e <= Len(s)
    <2>1. PICK n \in Nat : n = t.col + Len(s) - 1 /\ n >= t.width
      BY <1>1
    <2>2. n % t.width <= n - t.width
      BY <1>1, <2>1, ModBelow
    <2>3. n % t.width \in Int /\ e = (n % t.width) + 1 /\ n - t.width < Len(s)
      BY <1>1, <2>1
    <2> QED
      BY <1>1, <2>1, <2>2, <2>3
  <1> HIDE DEF e
  <1>5. Display(t, s) = [width |-> t.width, row |-> SubSeq(s, Len(s) - e + 1, Len(s)), col |-> e]
    BY <1>2, Excepted, Zenon
  <1> QED
    BY <1>3, <1>4, <1>5

LEMMA DisplayTyped ==
    ASSUME NEW t \in Terminal, NEW s \in Seq(Cell)
    PROVE  Display(t, s) \in Terminal /\ Display(t, s).width = t.width
  <1>1. /\ t = [width |-> t.width, row |-> t.row, col |-> t.col]
        /\ t.width \in Widths /\ t.width \in Nat \ {0}
        /\ t.row \in Seq(Cell) /\ Len(t.row) \in Nat /\ Len(t.row) <= t.width
        /\ t.col \in Nat /\ t.col <= t.width /\ Len(s) \in Nat
    BY TerminalFacts
  <1>2. CASE t.col + Len(s) <= t.width
    <2> DEFINE end == t.col + Len(s)
               size == IF end < Len(t.row) THEN Len(t.row) ELSE end
               row == [i \in 1 .. size |->
                         IF i > t.col /\ i <= end THEN s[i - t.col]
                         ELSE IF i <= Len(t.row) THEN t.row[i] ELSE "blank"]
    <2>1. size \in 0 .. t.width /\ end \in 0 .. t.width
      BY <1>1, <1>2
    <2>2. \A i \in 1 .. size : row[i] \in Cell
      BY <1>1 DEF Cell
    <2>3. row \in Seq(Cell) /\ Len(row) = size
      <3> HIDE DEF size
      <3>1. DOMAIN row = 1 .. size /\ row = [i \in 1 .. size |-> row[i]]
        OBVIOUS
      <3> HIDE DEF row
      <3>2. row \in [1 .. size -> Cell] /\ size \in Nat
        BY <1>1, <2>1, <2>2, <3>1
      <3> QED
        BY <3>2
    <2>4. Display(t, s) = [t EXCEPT !.col = end, !.row = row]
      BY <1>2 DEF Display
    <2> HIDE DEF row
    <2>5. Display(t, s) = [width |-> t.width, row |-> row, col |-> end]
      BY <2>4, Excepted, Zenon
    <2>6. Len(row) <= t.width
      BY <1>1, <2>1, <2>3
    <2> HIDE DEF end, size
    <2> QED
      BY <1>1, <2>1, <2>3, <2>5, <2>6, TerminalMade
  <1>3. CASE ~(t.col + Len(s) <= t.width)
    <2>1. t.col + Len(s) - 1 \in Nat
      BY <1>1, <1>3
    <2>2. PICK last \in Nat : last = ((t.col + Len(s) - 1) % t.width) + 1
      BY <1>1, <2>1, ModFacts
    <2>3. /\ Display(t, s) = [width |-> t.width, row |-> SubSeq(s, Len(s) - last + 1, Len(s)), col |-> last]
          /\ last \in 1 .. t.width /\ last <= Len(s)
      BY <1>3, <2>2, DisplayWraps
    <2>4. PICK row \in Seq(Cell) : row = SubSeq(s, Len(s) - last + 1, Len(s)) /\ Len(row) <= t.width
      <3>0. PICK n \in Nat : n = Len(s)
        BY <1>1
      <3>1. PICK i \in 1 .. n + 1 : i = Len(s) - last + 1 /\ n - i + 1 = last
        BY <2>2, <2>3, <3>0
      <3>2. SubSeq(s, i, n) \in Seq(Cell) /\ Len(SubSeq(s, i, n)) = n - i + 1
        BY <3>0, PartOf
      <3>3. last <= t.width
        BY <1>1, <2>3
      <3> QED
        BY <3>0, <3>1, <3>2, <3>3, Zenon
    <2>5. last \in 0 .. t.width
      BY <1>1, <2>3
    <2>6. [width |-> t.width, row |-> row, col |-> last] \in Terminal
      BY <1>1, <2>4, <2>5, TerminalMade
    <2> QED
      BY <1>1, <2>3, <2>4, <2>6
  <1> QED
    BY <1>2, <1>3

LEMMA NewRowFacts ==
    ASSUME NEW t \in Terminal
    PROVE  NewRow(t) \in Terminal /\ NewRow(t) = [width |-> t.width, row |-> <<>>, col |-> 0]
  <1>1. t = [width |-> t.width, row |-> t.row, col |-> t.col] /\ t.width \in Widths /\ t.width \in Nat \ {0}
    BY TerminalFacts
  <1>2. PICK e \in Seq(Cell) : e = <<>> /\ Len(e) <= t.width
    <2>1. <<>> \in Seq(Cell) /\ Len(<<>>) = 0
      OBVIOUS
    <2>2. Len(<<>>) <= t.width
      BY <1>1, <2>1
    <2> QED
      BY <2>1, <2>2, Zenon
  <1>3. NewRow(t) = [width |-> t.width, row |-> <<>>, col |-> 0]
    BY Excepted, Zenon DEF NewRow
  <1>4. PICK z \in 0 .. t.width : z = 0
    BY <1>1
  <1>5. [width |-> t.width, row |-> e, col |-> z] \in Terminal
    BY <1>1, <1>2, TerminalMade
  <1> QED
    BY <1>2, <1>3, <1>4, <1>5, Zenon

LEMMA CursorFacts ==
    ASSUME NEW t \in Terminal
    PROVE  /\ Cursor(t) \in 0 .. t.width - 1
           /\ t.width <= Home + 1 => Cursor(t) <= Home
  BY TerminalFacts, Sizes DEF Cursor

LEMMA EraseFacts ==
    ASSUME NEW t \in Terminal
    PROVE  /\ SendEraseLine(t) \in Terminal
           /\ SendEraseLine(t).width = t.width
           /\ Cursor(t) <= Home => SendEraseLine(t) = [width |-> t.width, row |-> <<>>, col |-> 0]
  <1>1. /\ t = [width |-> t.width, row |-> t.row, col |-> t.col]
        /\ t.width \in Widths /\ t.width \in Nat \ {0}
    BY TerminalFacts
  <1>2. Cursor(t) \in 0 .. t.width - 1 /\ Home \in Nat
    BY CursorFacts, Sizes
  <1>3. EraseRow(t) = [width |-> t.width, row |-> <<>>, col |-> t.col]
    BY <1>1 DEF EraseRow
  <1>4. Cursor(EraseRow(t)) = Cursor(t)
    BY <1>3 DEF Cursor
  <1>5. PICK c \in 0 .. t.width : c = (IF Cursor(t) > Home THEN Cursor(t) - Home ELSE 0)
    BY <1>1, <1>2
  <1>6. SendEraseLine(t) = [width |-> t.width, row |-> <<>>, col |-> c]
    BY <1>3, <1>4, <1>5 DEF SendEraseLine, CursorLeft
  <1>7. <<>> \in Seq(Cell) /\ Len(<<>>) <= t.width
    BY <1>1
  <1>8. SendEraseLine(t) \in Terminal
    BY <1>1, <1>5, <1>6, <1>7, TerminalMade
  <1>9. Cursor(t) <= Home => c = 0
    BY <1>2, <1>5
  <1> QED
    BY <1>6, <1>8, <1>9

(***************************************************************************)
(* What a row shows of a line.                                             *)
(***************************************************************************)
Shows(t, b) == t.row = InRow(t.width, b) /\ t.col = Len(t.row)

LEMMA ShowsMade ==
    ASSUME NEW w, NEW row, NEW col, NEW t, NEW b,
           t = [width |-> w, row |-> row, col |-> col], row = InRow(w, b), col = Len(row)
    PROVE  Shows(t, b)
  <1>1. t.width = w /\ t.row = row /\ t.col = col
    OBVIOUS
  <1> QED
    BY <1>1 DEF Shows

LEMMA CharCells == \A b \in Seq(Char) : b \in Seq(Cell)
  <1>1. Char \subseteq Cell
    BY DEF Cell
  <1> QED
    BY <1>1

LEMMA InRowFacts ==
    ASSUME NEW w \in Nat \ {0}, NEW b \in Seq(Char)
    PROVE  /\ Len(b) <= w => InRow(w, b) = b
           /\ b # <<>> => /\ InRow(w, b) = SubSeq(b, Len(b) - ((Len(b) - 1) % w), Len(b))
                          /\ (Len(b) - 1) % w \in 0 .. w - 1
                          /\ (Len(b) - 1) % w < Len(b)
                          /\ Len(InRow(w, b)) = ((Len(b) - 1) % w) + 1
  <1>1. CASE b = <<>>
    BY <1>1 DEF InRow
  <1>2. CASE b # <<>>
    <2>1. PICK n \in Nat : n = Len(b) - 1
      BY <1>2, EmptySeq
    <2>2. PICK m \in 0 .. w - 1 : m = n % w
      BY <2>1, ModFacts
    <2>3. n < w => m = n
      BY <2>2, ModFacts
    <2>4. m <= n
      BY <2>2, <2>3
    <2>5. InRow(w, b) = SubSeq(b, Len(b) - m, Len(b))
      BY <1>2, <2>1, <2>2 DEF InRow
    <2>6. Len(SubSeq(b, Len(b) - m, Len(b))) = m + 1
      BY <2>1, <2>4
    <2>7. Len(b) <= w => InRow(w, b) = b
      <3>1. SUFFICES ASSUME Len(b) <= w PROVE SubSeq(b, Len(b) - m, Len(b)) = b
        BY <2>5
      <3>2. Len(b) - m = 1
        BY <2>1, <2>3, <3>1
      <3> QED
        BY <3>2
    <2> QED
      BY <2>1, <2>2, <2>4, <2>5, <2>6, <2>7
  <1> QED
    BY <1>1, <1>2

\* A line sent from the first cell of an empty row.
LEMMA DisplayLine ==
    ASSUME NEW w \in Widths, NEW b \in Seq(Char)
    PROVE  Shows(Display([width |-> w, row |-> <<>>, col |-> 0], b), b)
  <1> DEFINE t == [width |-> w, row |-> <<>>, col |-> 0]
  <1>1. w \in Nat \ {0} /\ <<>> \in Seq(Cell) /\ Len(<<>>) <= w /\ b \in Seq(Cell) /\ Len(b) \in Nat
    BY Sizes, CharCells
  <1>2. t \in Terminal /\ t.width = w /\ t.row = <<>> /\ t.col = 0
    <2>1. 0 \in 0 .. w
      BY <1>1
    <2>2. t \in Terminal
      BY <1>1, <2>1, TerminalMade, Zenon
    <2> QED
      BY <2>2, Fields, Zenon
  <1> HIDE DEF t
  <1>3. CASE Len(b) <= w
    <2>1. Display(t, b) = [width |-> w, row |-> b, col |-> Len(b)]
      <3>1. t.row \o b = b /\ t.col + Len(b) = Len(b) /\ Len(t.row) = t.col
        BY <1>1, <1>2
      <3> QED
        BY <1>1, <1>2, <1>3, <3>1, DisplayFits
    <2>2. InRow(w, b) = b
      BY <1>1, <1>3, InRowFacts
    <2>3. Shows(Display(t, b), b)
      BY <2>1, <2>2, ShowsMade, Zenon
    <2> QED
      BY <2>3 DEF t
  <1>4. CASE ~(Len(b) <= w)
    <2>1. b # <<>>
      BY <1>1, <1>4
    <2>2. /\ (Len(b) - 1) % w \in 0 .. w - 1
          /\ InRow(w, b) = SubSeq(b, Len(b) - ((Len(b) - 1) % w), Len(b))
          /\ Len(InRow(w, b)) = ((Len(b) - 1) % w) + 1
      BY <1>1, <2>1, InRowFacts
    <2>3. PICK last \in Nat : last = ((Len(b) - 1) % w) + 1
      BY <2>2
    <2>4. last = ((t.col + Len(b) - 1) % t.width) + 1 /\ ~(t.col + Len(b) <= t.width)
      BY <1>1, <1>2, <1>4, <2>3
    <2>5. Display(t, b) = [width |-> w, row |-> SubSeq(b, Len(b) - last + 1, Len(b)), col |-> last]
      BY <1>1, <1>2, <2>4, DisplayWraps
    <2>6. Len(b) - last + 1 = Len(b) - ((Len(b) - 1) % w)
      BY <1>1, <2>2, <2>3
    <2>7. InRow(w, b) = SubSeq(b, Len(b) - last + 1, Len(b)) /\ Len(InRow(w, b)) = last
      BY <2>2, <2>3, <2>6
    <2>8. Shows(Display(t, b), b)
      BY <2>5, <2>7, ShowsMade, Zenon
    <2> QED
      BY <2>8 DEF t
  <1> QED
    BY <1>1, <1>3, <1>4 DEF t

\* A character typed behind the line.
LEMMA DisplayKey ==
    ASSUME NEW t \in Terminal, NEW b \in Seq(Char), NEW ch \in Char, Shows(t, b)
    PROVE  Shows(Display(t, <<ch>>), Append(b, ch))
  <1>0. /\ t.width \in Nat \ {0} /\ t.row \in Seq(Cell) /\ t.col \in Nat /\ t.col <= t.width
        /\ t.row = InRow(t.width, b) /\ t.col = Len(t.row)
    BY TerminalFacts DEF Shows
  <1>1. PICK w \in Nat \ {0}, col \in Nat, n \in Nat, s \in Seq(Cell), c \in Seq(Char) :
             /\ w = t.width /\ col = t.col /\ n = Len(b) /\ s = <<ch>> /\ c = Append(b, ch)
    <2>1. <<ch>> \in Seq(Cell)
      BY DEF Cell
    <2>2. Len(b) \in Nat /\ Append(b, ch) \in Seq(Char)
      OBVIOUS
    <2> QED
      BY <1>0, <2>1, <2>2, Zenon
  <1>2. /\ t.row \in Seq(Cell) /\ t.row = InRow(w, b) /\ col = Len(t.row) /\ col <= w
        /\ Len(s) = 1 /\ Len(c) = n + 1 /\ c # <<>>
    BY <1>0, <1>1
  <1>3. InRow(w, c) = SubSeq(c, n + 1 - (n % w), n + 1) /\ Len(InRow(w, c)) = (n % w) + 1
    <2>1. /\ InRow(w, c) = SubSeq(c, Len(c) - ((Len(c) - 1) % w), Len(c))
          /\ Len(InRow(w, c)) = ((Len(c) - 1) % w) + 1
      BY <1>2, InRowFacts, Zenon
    <2>2. Len(c) - 1 = n /\ Len(c) = n + 1
      BY <1>2
    <2>3. (Len(c) - 1) % w = n % w
      BY <2>2
    <2>4. Len(c) - (n % w) = n + 1 - (n % w)
      BY <2>2
    <2> QED
      BY <2>1, <2>2, <2>3, <2>4, Zenon
  <1>4. b = <<>> => col = 0
    BY <1>2 DEF InRow
  <1>5. ASSUME b # <<>>
        PROVE  \E m \in Nat : /\ n = m + 1 /\ col = (m % w) + 1 /\ m % w \in 0 .. w - 1
                              /\ col <= n /\ InRow(w, b) = SubSeq(b, n + 1 - col, n)
    <2>1. /\ InRow(w, b) = SubSeq(b, Len(b) - ((Len(b) - 1) % w), Len(b))
          /\ (Len(b) - 1) % w \in 0 .. w - 1
          /\ (Len(b) - 1) % w < Len(b)
          /\ Len(InRow(w, b)) = ((Len(b) - 1) % w) + 1
      BY <1>5, InRowFacts, Zenon
    <2>2. PICK m \in Nat : n = m + 1 /\ Len(b) - 1 = m
      BY <1>1, <1>5, EmptySeq
    <2>3. PICK k \in 0 .. w - 1 : k = m % w /\ k = (Len(b) - 1) % w
      BY <2>1, <2>2
    <2>4. col = k + 1 /\ k < n /\ InRow(w, b) = SubSeq(b, n - k, n)
      BY <1>1, <1>2, <2>1, <2>3
    <2>5. n - k = n + 1 - col /\ col <= n
      BY <2>4
    <2>6. InRow(w, b) = SubSeq(b, n + 1 - col, n)
      BY <2>4, <2>5
    <2>7. col = (m % w) + 1 /\ m % w \in 0 .. w - 1
      BY <2>3, <2>4
    <2> WITNESS m \in Nat
    <2> QED
      BY <2>2, <2>5, <2>6, <2>7
  <1>6. CASE col < w
    <2>1. Display(t, s) = [width |-> w, row |-> InRow(w, b) \o s, col |-> col + 1]
      <3>1. t.col + Len(s) <= t.width /\ Len(t.row) = t.col /\ t.col + Len(s) = col + 1
        BY <1>1, <1>2, <1>6
      <3>2. Display(t, s) = [width |-> t.width, row |-> t.row \o s, col |-> t.col + Len(s)]
        BY <3>1, DisplayFits
      <3> QED
        BY <1>1, <1>2, <3>1, <3>2, Zenon
    <2>2. n % w = col
      <3>1. CASE b = <<>>
        <4>1. n = 0 /\ col = 0
          BY <1>1, <1>4, <3>1
        <4>2. n < w
          BY <4>1
        <4>3. n % w = n
          BY <4>2, ModFacts
        <4> QED
          BY <4>1, <4>3
      <3>2. CASE b # <<>>
        <4>1. PICK m \in Nat : n = m + 1 /\ col = (m % w) + 1 /\ m % w \in 0 .. w - 1
          BY <1>5, <3>2
        <4>2. m % w # w - 1
          BY <1>6, <4>1
        <4>3. (m + 1) % w = (m % w) + 1
          BY <4>2, ModFacts
        <4> QED
          BY <4>1, <4>3
      <3> QED
        BY <3>1, <3>2
    <2>3. InRow(w, b) \o s = SubSeq(c, n + 1 - col, n + 1)
      <3>1. CASE b = <<>>
        <4>1. n = 0 /\ col = 0 /\ c = s /\ InRow(w, b) = <<>>
          BY <1>1, <1>4, <3>1 DEF InRow
        <4> QED
          BY <1>2, <4>1
      <3>2. CASE b # <<>>
        <4>1. InRow(w, b) = SubSeq(b, n + 1 - col, n) /\ col <= n /\ col >= 1
          BY <1>5, <3>2
        <4>2. PICK i \in 1 .. n : i = n + 1 - col
          BY <4>1
        <4>3. n = Len(b)
          BY <1>1
        <4>4. SubSeq(b, i, n) \o <<ch>> = SubSeq(Append(b, ch), i, n + 1)
          BY <4>3, PartAppended, ZenonT(60)
        <4> QED
          <5>1. InRow(w, b) \o s = SubSeq(b, i, n) \o <<ch>>
            BY <1>1, <4>1, <4>2, Zenon
          <5>2. SubSeq(c, n + 1 - col, n + 1) = SubSeq(Append(b, ch), i, n + 1)
            BY <1>1, <4>2, Zenon
          <5> QED
            BY <4>4, <5>1, <5>2, Zenon
      <3> QED
        BY <3>1, <3>2
    <2>4. Len(InRow(w, c)) = col + 1 /\ InRow(w, c) = InRow(w, b) \o s
      BY <1>3, <2>2, <2>3
    <2>5. Shows(Display(t, s), c)
      BY <2>1, <2>4, ShowsMade, Zenon
    <2> QED
      BY <1>1, <2>5, Zenon
  <1>7. CASE col = w
    <2>1. b # <<>>
      BY <1>4, <1>7
    <2>2. PICK m \in Nat : n = m + 1 /\ col = (m % w) + 1 /\ m % w \in 0 .. w - 1
      BY <1>5, <2>1
    <2>3. m % w = w - 1
      BY <1>7, <2>2
    <2>4. n % w = 0
      BY <2>2, <2>3, ModFacts
    <2>5. InRow(w, c) = s /\ Len(InRow(w, c)) = 1
      <3>1. InRow(w, c) = SubSeq(c, n + 1, n + 1)
        BY <1>3, <2>4
      <3>2. SubSeq(Append(b, ch), Len(b) + 1, Len(b) + 1) = <<ch>>
        BY LastAppended
      <3> QED
        BY <1>1, <1>2, <3>1, <3>2
    <2>6. PICK last \in Nat : last = 1 /\ last = ((t.col + Len(s) - 1) % t.width) + 1
      <3>1. (w * 1 + 0) % w = 0
        <4>1. 0 \in 0 .. w - 1
          OBVIOUS
        <4> QED
          BY <4>1, ModUnique
      <3>2. w * 1 + 0 = w /\ t.col + Len(s) - 1 = w
        BY <1>1, <1>2, <1>7
      <3> QED
        BY <1>1, <3>1, <3>2
    <2>7. ~(t.col + Len(s) <= t.width)
      BY <1>1, <1>2, <1>7
    <2>8. Display(t, s) = [width |-> t.width, row |-> SubSeq(s, Len(s) - last + 1, Len(s)), col |-> last]
      BY <2>6, <2>7, DisplayWraps
    <2>9. SubSeq(s, Len(s) - last + 1, Len(s)) = s
      BY <1>2, <2>6
    <2>10. Shows(Display(t, s), c)
      <3>1. SubSeq(s, Len(s) - last + 1, Len(s)) = InRow(t.width, c)
        BY <1>1, <2>5, <2>9
      <3>2. last = Len(SubSeq(s, Len(s) - last + 1, Len(s)))
        BY <1>2, <2>6, <2>9
      <3> QED
        BY <2>8, <3>1, <3>2, ShowsMade, Zenon
    <2> QED
      BY <1>1, <2>10, Zenon
  <1> QED
    BY <1>2, <1>6, <1>7

\* One cell more: the echo of a password, a prompt.
LEMMA DisplayCell ==
    ASSUME NEW t \in Terminal, NEW x \in Cell
    PROVE  Display(t, <<x>>) \in Terminal
  <1>1. <<x>> \in Seq(Cell)
    OBVIOUS
  <1> QED
    BY <1>1, DisplayTyped

(***************************************************************************)
(* The inductive invariant.                                                *)
(***************************************************************************)
\* Options wait for a confirmation only while they are negotiated, and an
\* accepted session does not negotiate again.
Negotiated ==
    /\ state # "Negotiation" => toConfirm = {}
    /\ op = "none" => state = "Negotiation"

\* Only the editor adds lines, and nothing leads out of it.
LoggedIn ==
    /\ state # "Interaction" => lines = <<>>
    /\ state = "Interaction" => username = User /\ password = Pass

\* HOME reaches the first cell until the cursor has been beyond it.
InReach == state = "Interaction" /\ ~pastHome => Cursor(terminal) <= Home

SessionInv ==
    TypeOK /\ Negotiated /\ LoggedIn /\ HistoryPosInside /\ InReach /\ ScreenShowsBuffer

LEMMA TypeFacts ==
    ASSUME TypeOK
    PROVE  /\ username \in Line /\ password \in Line /\ buffer \in Line
           /\ lines \in Seq(Line) /\ Len(lines) <= MaxHistory /\ Len(lines) \in Nat
           /\ historyPos \in Nat /\ terminal \in Terminal /\ pastHome \in BOOLEAN
  BY BoundedSeqDef, Sizes DEF TypeOK

LEMMA InitInv == Init => SessionInv
  <1>1. <<>> \in Seq(Line) /\ Len(<<>>) <= MaxHistory
    BY Sizes
  <1>2. <<>> \in BoundedSeq(Line, MaxHistory)
    BY <1>1, BoundedSeqDef, Sizes
  <1>3. \A w \in Widths : [width |-> w, row |-> <<>>, col |-> 0] \in Terminal
    <2> TAKE w \in Widths
    <2>1. <<>> \in Seq(Cell) /\ Len(<<>>) <= w /\ 0 \in 0 .. w
      BY Sizes
    <2> QED
      BY <2>1, TerminalMade, Zenon
  <1>4. Init => terminal \in Terminal
    BY <1>3, Zenon DEF Init
  <1>5. Init => pastHome \in BOOLEAN
    BY Zenon DEF Init
  <1> QED
    BY <1>2, <1>4, <1>5, EmptyLine
      DEF Init, SessionInv, TypeOK, Negotiated, LoggedIn, HistoryPosInside, InReach, ScreenShowsBuffer

\* What the editor does to the terminal, from a row in reach of HOME.
Visible == terminal.width <= Home + 1 \/ ~pastHome

LEMMA RedrawStep ==
    ASSUME TypeOK, InReach, state = "Interaction", NEW b \in Line, Redraw(b)
    PROVE  /\ terminal' \in Terminal /\ pastHome' \in BOOLEAN
           /\ Visible' => Shows(terminal', b)
           /\ ~pastHome' => Cursor(terminal') <= Home
  <1> DEFINE e == SendEraseLine(terminal)
  <1>1. terminal \in Terminal /\ pastHome \in BOOLEAN /\ terminal.width \in Widths
    BY TypeFacts, TerminalFacts
  <1>2. b \in Seq(Char) /\ b \in Seq(Cell)
    BY LineDef, CharCells
  <1>3. /\ e \in Terminal /\ e.width = terminal.width
        /\ Cursor(terminal) <= Home => e = [width |-> terminal.width, row |-> <<>>, col |-> 0]
    BY <1>1, EraseFacts
  <1>4. terminal' = Display(e, b) /\ pastHome' = (pastHome \/ Cursor(terminal') > Home)
    BY DEF Redraw, Noted
  <1> HIDE DEF e
  <1>5. terminal' \in Terminal /\ terminal'.width = terminal.width
    BY <1>2, <1>3, <1>4, DisplayTyped
  <1>6. Cursor(terminal') \in Nat /\ Home \in Nat
    BY <1>5, CursorFacts, TerminalFacts, Sizes
  <1>7. ASSUME Visible' PROVE Shows(terminal', b)
    <2>1. Cursor(terminal) <= Home
      <3>1. CASE terminal'.width <= Home + 1
        BY <1>1, <1>5, <3>1, CursorFacts
      <3>2. CASE ~pastHome'
        BY <1>1, <1>4, <3>2 DEF InReach
      <3> QED
        BY <1>7, <3>1, <3>2 DEF Visible
    <2> QED
      BY <1>1, <1>2, <1>3, <1>4, <2>1, DisplayLine
  <1>8. ~pastHome' => Cursor(terminal') <= Home
    <2>1. ~pastHome' => ~(Cursor(terminal') > Home)
      BY <1>4, Zenon
    <2>2. ~(Cursor(terminal') > Home) => Cursor(terminal') <= Home
      BY <1>6
    <2> QED
      BY <2>1, <2>2, Zenon
  <1>9. pastHome' \in BOOLEAN
    BY <1>4
  <1> QED
    BY <1>5, <1>7, <1>8, <1>9

LEMMA KeyStep ==
    ASSUME TypeOK, ScreenShowsBuffer, NEW ch \in Char, Key(ch)
    PROVE  /\ terminal' \in Terminal /\ pastHome' \in BOOLEAN
           /\ Visible' => Shows(terminal', buffer')
           /\ ~pastHome' => Cursor(terminal') <= Home
  <1>1. terminal \in Terminal /\ pastHome \in BOOLEAN /\ buffer \in Seq(Char) /\ <<ch>> \in Seq(Cell)
    BY TypeFacts, LineDef DEF Cell
  <1>2. /\ terminal' = Display(terminal, <<ch>>) /\ buffer' = Append(buffer, ch)
        /\ pastHome' = (pastHome \/ Cursor(terminal') > Home) /\ state = "Interaction"
    BY DEF Key, Noted
  <1>3. terminal' \in Terminal /\ terminal'.width = terminal.width
    BY <1>1, <1>2, DisplayTyped
  <1>4. Cursor(terminal') \in Nat /\ Home \in Nat
    BY <1>3, CursorFacts, TerminalFacts, Sizes
  <1>5. ASSUME Visible' PROVE Shows(terminal', buffer')
    <2>1. Visible
      BY <1>2, <1>3, <1>5 DEF Visible
    <2>2. Shows(terminal, buffer)
      BY <1>2, <2>1 DEF Visible, ScreenShowsBuffer, Shows
    <2> QED
      BY <1>1, <1>2, <2>2, DisplayKey
  <1>6. ~pastHome' => Cursor(terminal') <= Home
    <2>1. ~pastHome' => ~(Cursor(terminal') > Home)
      BY <1>2, Zenon
    <2>2. ~(Cursor(terminal') > Home) => Cursor(terminal') <= Home
      BY <1>4
    <2> QED
      BY <2>1, <2>2, Zenon
  <1>7. pastHome' \in BOOLEAN
    BY <1>2
  <1> QED
    BY <1>3, <1>5, <1>6, <1>7

\* What addToHistory leaves: the line is in the history, at the position, and
\* the history has kept its bound.
LEMMA HistoryStep ==
    ASSUME TypeOK, NEW line \in Line, AddToHistory(line)
    PROVE  /\ lines' \in Seq(Line) /\ Len(lines') <= MaxHistory
           /\ historyPos' \in Nat /\ historyPos' < Len(lines')
           /\ lines'[historyPos' + 1] = line
  <1> USE TypeFacts
  <1>1. CASE Contains(lines, line)
    <2> DEFINE i == CHOOSE j \in DOMAIN lines : lines[j] = line
    <2>1. DOMAIN lines = 1 .. Len(lines)
      BY LenProperties
    <2>2. i \in 1 .. Len(lines) /\ lines[i] = line
      BY <1>1, <2>1 DEF Contains
    <2>3. historyPos' = i - 1 /\ lines' = lines
      BY <1>1 DEF AddToHistory
    <2> QED
      BY <2>2, <2>3
  <1>2. CASE ~Contains(lines, line)
    <2> DEFINE kept == IF Len(lines) = MaxHistory THEN Tail(lines) ELSE lines
    <2>1. kept \in Seq(Line) /\ Len(kept) \in Nat /\ Len(kept) < MaxHistory
      <3>1. CASE Len(lines) = MaxHistory
        BY <3>1, Sizes
      <3>2. CASE Len(lines) # MaxHistory
        BY <3>2, Sizes
      <3> QED
        BY <3>1, <3>2
    <2>2. lines' = Append(kept, line) /\ historyPos' = Len(lines') - 1
      BY <1>2 DEF AddToHistory
    <2> HIDE DEF kept
    <2> QED
      BY <2>1, <2>2, Sizes
  <1> QED
    BY <1>1, <1>2

\* Every action but the editor's leaves the history alone, and every step keeps
\* the invariant.
LEMMA NextInv == SessionInv /\ [Next]_vars => SessionInv'
  <1> SUFFICES ASSUME SessionInv, [Next]_vars PROVE SessionInv'
    OBVIOUS
  <1> USE DEF SessionInv, Negotiated, LoggedIn, HistoryPosInside, InReach, ScreenShowsBuffer
  <1>0. TypeOK
    OBVIOUS
  <1>a. terminal \in Terminal
    BY DEF TypeOK
  <1>b. "username" \in Cell /\ "password" \in Cell /\ "star" \in Cell
    BY DEF Cell
  <1> DEFINE L == BoundedSeq(Line, MaxHistory)
  <1>1. CASE Accept
    BY <1>1 DEF Accept, TypeOK, loginVars, historyVars, screenVars
  <1>2. CASE Written
    BY <1>2 DEF Written, TypeOK, loginVars, historyVars, screenVars
  <1>3. CASE Lost
    BY <1>3 DEF Lost, TypeOK, loginVars, historyVars, screenVars
  <1>4. CASE Shutdown
    BY <1>4 DEF Shutdown, TypeOK, loginVars, historyVars, screenVars
  <1>5. ASSUME NEW opts \in SUBSET Option, Negotiate(opts) PROVE SessionInv'
    <2>1. Display(terminal, <<"username">>) \in Terminal
      BY <1>a, <1>b, DisplayCell
    <2> QED
      BY <1>5, <2>1, EmptyLine DEF Negotiate, StartAuthentication, TypeOK, loginVars, historyVars
  <1>6. CASE AuthEnter
    <2>1. state = "Authentication" /\ buffer \in Line
      BY <1>6 DEF AuthEnter, TypeOK
    <2>a. /\ NewRow(terminal) \in Terminal
          /\ NewRow(terminal).row = <<>> /\ NewRow(terminal).col = 0
      BY <1>a, NewRowFacts
    <2>b. /\ Display(NewRow(terminal), <<"username">>) \in Terminal
          /\ Display(NewRow(terminal), <<"password">>) \in Terminal
      BY <1>b, <2>a, DisplayCell
    <2>c. Cursor(NewRow(terminal)) <= Home
      BY <2>a, TerminalFacts, Sizes DEF Cursor
    <2>2. CASE username = <<>>
      BY <1>6, <2>1, <2>b, <2>2, EmptyLine DEF AuthEnter, TypeOK, historyVars
    <2>3. CASE username # <<>> /\ Authorize(username, buffer)
      <3>1. InRow(NewRow(terminal).width, <<>>) = <<>> /\ Len(<<>>) = 0
        BY DEF InRow
      <3> QED
        BY <1>6, <2>1, <2>a, <2>c, <2>3, <3>1, EmptyLine DEF AuthEnter, Authorize, TypeOK, historyVars
    <2>4. CASE username # <<>> /\ ~Authorize(username, buffer)
      BY <1>6, <2>1, <2>b, <2>4, EmptyLine DEF AuthEnter, StartAuthentication, TypeOK, historyVars
    <2> QED
      BY <2>2, <2>3, <2>4
  <1>7. CASE BackSpace
    <2>1. PICK b \in Line : Redraw(b)
      BY <1>0, <1>7, PrefixLine, TypeFacts DEF BackSpace
    <2>2. /\ terminal' \in Terminal /\ pastHome' \in BOOLEAN
          /\ Visible' => Shows(terminal', b)
          /\ ~pastHome' => Cursor(terminal') <= Home
      BY <1>0, <1>7, <2>1, RedrawStep DEF BackSpace
    <2>3. buffer' = b
      BY <2>1 DEF Redraw
    <2> QED
      BY <1>7, <2>2, <2>3 DEF BackSpace, TypeOK, loginVars, historyVars, Visible, Shows
  <1>8. CASE Enter
    <2>1. buffer \in Line
      BY DEF TypeOK
    <2>2. /\ lines' \in Seq(Line) /\ Len(lines') <= MaxHistory
          /\ historyPos' \in Nat /\ historyPos' < Len(lines')
      BY <1>0, <1>8, <2>1, HistoryStep DEF Enter
    <2>3. lines' \in L
      BY <2>2, BoundedSeqDef, Sizes
    <2>4. /\ terminal' \in Terminal /\ pastHome' \in BOOLEAN
          /\ Visible' => Shows(terminal', <<>>)
          /\ ~pastHome' => Cursor(terminal') <= Home
      BY <1>0, <1>8, EmptyLine, RedrawStep DEF Enter
    <2>5. buffer' = <<>>
      BY <1>8 DEF Enter, Redraw
    <2> QED
      BY <1>8, <2>2, <2>3, <2>4, <2>5, EmptyLine DEF Enter, TypeOK, loginVars, Visible, Shows
  <1>9. CASE Arrow
    <2>1. /\ lines \in Seq(Line) /\ Len(lines) \in Nat /\ Len(lines) > 1
          /\ historyPos \in Nat /\ historyPos < Len(lines)
      BY <1>0, <1>9, TypeFacts DEF Arrow
    <2>2. historyPos' \in Nat /\ historyPos' < Len(lines)
      BY <1>9, <2>1 DEF Arrow, DownFrom, UpFrom
    <2>3. PICK b \in Line : Redraw(b)
      BY <1>9, <2>1, <2>2 DEF Arrow
    <2>4. /\ terminal' \in Terminal /\ pastHome' \in BOOLEAN
          /\ Visible' => Shows(terminal', b)
          /\ ~pastHome' => Cursor(terminal') <= Home
      BY <1>0, <1>9, <2>3, RedrawStep DEF Arrow
    <2>5. buffer' = b
      BY <2>3 DEF Redraw
    <2> QED
      BY <1>9, <2>2, <2>4, <2>5 DEF Arrow, TypeOK, loginVars, Visible, Shows
  <1>10. ASSUME NEW ch \in Char, AuthKey(ch) PROVE SessionInv'
    <2>1. buffer' \in Line
      BY <1>0, <1>10, AppendLine, TypeFacts DEF AuthKey
    <2>2. Display(terminal, <<"star">>) \in Terminal
      BY <1>a, <1>b, DisplayCell
    <2> QED
      BY <1>10, <2>1, <2>2 DEF AuthKey, TypeOK, loginVars, historyVars
  <1>11. ASSUME NEW ch \in Char, Key(ch) PROVE SessionInv'
    <2>1. buffer' \in Line
      BY <1>0, <1>11, AppendLine, TypeFacts DEF Key
    <2>2. /\ terminal' \in Terminal /\ pastHome' \in BOOLEAN
          /\ Visible' => Shows(terminal', buffer')
          /\ ~pastHome' => Cursor(terminal') <= Home
      BY <1>0, <1>11, KeyStep
    <2> QED
      BY <1>11, <2>1, <2>2 DEF Key, TypeOK, loginVars, historyVars, Visible, Shows
  <1>12. CASE UNCHANGED vars
    BY <1>12 DEF vars, TypeOK, loginVars, historyVars, screenVars
  <1> QED
    BY <1>1, <1>2, <1>3, <1>4, <1>5, <1>6, <1>7, <1>8, <1>9, <1>10, <1>11, <1>12 DEF Next

LEMMA Invariance == Spec => []SessionInv
  BY InitInv, NextInv, PTL DEF Spec

(***************************************************************************)
(* The theorems.                                                           *)
(***************************************************************************)
\* Type correctness, with the bound of the history: addToHistory never holds
\* more than MAX_HISTORY_LEGTH lines.
THEOREM TypeCorrect == Spec => []TypeOK
  <1>1. SessionInv => TypeOK
    BY DEF SessionInv
  <1> QED
    BY <1>1, Invariance, PTL

\* processInput takes command lines only after authorize() has accepted the
\* user name and the password and every option has been confirmed.
THEOREM CommandsNeedLogin == Spec => []OnlyLoggedIn
  <1>1. SessionInv => OnlyLoggedIn
    BY DEF SessionInv, Negotiated, LoggedIn, OnlyLoggedIn, TypeOK
  <1> QED
    BY <1>1, Invariance, PTL

\* _history[_historyPos], which the arrow keys read, is inside the history.
THEOREM HistoryPosition == Spec => []HistoryPosInside
  <1>1. SessionInv => HistoryPosInside
    BY DEF SessionInv
  <1> QED
    BY <1>1, Invariance, PTL

\* The cursor's row of the terminal, of whatever width, shows the end of the
\* line that Enter hands to _lineCompleteCB: on rows of at most Home + 1 cells
\* whatever the length of the lines, on wider ones until a line has been longer
\* than HOME moves.
THEOREM ScreenFaithful == Spec => []ScreenShowsBuffer
  <1>1. SessionInv => ScreenShowsBuffer
    BY DEF SessionInv
  <1> QED
    BY <1>1, Invariance, PTL

\* After Enter the arrow keys start from the line just entered, whether it was
\* in the history, has been added, or has pushed out the oldest one.
THEOREM EnteredBecomesCurrent == Spec => EnteredIsCurrent
  <1>1. SessionInv /\ [Next]_vars => [Enter => lines'[historyPos' + 1] = buffer]_vars
    <2> SUFFICES ASSUME SessionInv, Enter PROVE lines'[historyPos' + 1] = buffer
      OBVIOUS
    <2>1. TypeOK /\ buffer \in Line
      BY TypeFacts DEF SessionInv
    <2> QED
      BY <2>1, HistoryStep DEF Enter
  <1> QED
    BY <1>1, Invariance, PTL DEF Spec, EnteredIsCurrent

=============================================================================
