------------------------- MODULE TelnetServerProofs -------------------------
(***************************************************************************)
(* Proofs about TelnetServer, for any number of sessions, any inputs and   *)
(* any size of the receive buffer.                                         *)
(***************************************************************************)
EXTENDS TelnetServer, TLAPS

\* What the client of s can have typed.
Own(s) == UNION {ToSet(in) : in \in Input[s]}

\* No message that a line makes is the user's name: nobody gets past logIn.
StaysGuest == \A s \in Session : authStatus[s] = "Guest"

\* A session that is not connected yet has echoed nothing.
NoEchoYet == \A s \in Session : state[s] = "none" => echoed[s] = 0

\* The socket of a client holds what that client sent.
InboxOwn == \A s \in Session : inbox[s] \in Seq(Own(s))

\* One handler waits, and the buffer still holds what its client sent.
OneWaits ==
    \A s \in Session :
        ready[s] # <<>> =>
            /\ Len(ready[s]) = 1
            /\ \A q \in Session : q # s => ready[q] = <<>>
            /\ \A i \in 1 .. Head(ready[s]) : recvBuffer[i] \in Own(s)

LineOwn == \A s \in Session : receivedData[s] \in Seq(Own(s))

ServerInv ==
    /\ TypeOK
    /\ StaysGuest /\ NoEchoYet /\ InboxOwn
    /\ StillServed
    /\ ~overlap => OneWaits /\ LineOwn

(***************************************************************************)
(* Sequences and the buffer.                                               *)
(***************************************************************************)
LEMMA Prefix ==
    ASSUME NEW S, NEW N \in Nat, NEW b \in [1 .. N -> S], NEW n \in 1 .. N
    PROVE  /\ SubSeq(b, 1, n) \in Seq(S)
           /\ Len(SubSeq(b, 1, n)) = n
           /\ \A i \in 1 .. n : SubSeq(b, 1, n)[i] = b[i]
OBVIOUS

\* What a prefix of the buffer holds, when its bytes are of a smaller set.
LEMMA PrefixOf ==
    ASSUME NEW S, NEW T, NEW N \in Nat, NEW b \in [1 .. N -> S], NEW n \in 1 .. N,
           \A i \in 1 .. n : b[i] \in T
    PROVE  SubSeq(b, 1, n) \in Seq(T)
OBVIOUS

LEMMA SeqIsFunction ==
    ASSUME NEW S, NEW e \in Seq(S)
    PROVE  e \in [1 .. Len(e) -> S]
OBVIOUS

LEMMA Concat ==
    ASSUME NEW S, NEW c \in Seq(S), NEW d \in Seq(S)
    PROVE  /\ c \o d \in Seq(S)
           /\ Len(c \o d) = Len(c) + Len(d)
           /\ \A i \in 1 .. Len(c) : (c \o d)[i] = c[i]
OBVIOUS

\* A read of n bytes overwrites the first n of the buffer.
LEMMA Overwrite ==
    ASSUME NEW N \in Nat, NEW b \in [1 .. N -> Char], NEW a \in Seq(Char),
           NEW n \in 1 .. N, n <= Len(a),
           NEW e, e = SubSeq(a, 1, n) \o SubSeq(b, n + 1, Len(b))
    PROVE  e \in [1 .. N -> Char] /\ \A i \in 1 .. n : e[i] = a[i]
<1>1. b \in Seq(Char) /\ Len(b) = N
  OBVIOUS
<1>2. PICK c, d : c = SubSeq(a, 1, n) /\ d = SubSeq(b, n + 1, N)
  OBVIOUS
<1>3. c \in Seq(Char) /\ Len(c) = n /\ \A i \in 1 .. n : c[i] = a[i]
  BY <1>2
<1>4. d \in Seq(Char) /\ Len(d) = N - n
  BY <1>1, <1>2
<1>5. e = c \o d
  BY <1>1, <1>2
<1>6. e \in Seq(Char) /\ Len(e) = Len(c) + Len(d) /\ \A i \in 1 .. Len(c) : e[i] = c[i]
  BY <1>3, <1>4, <1>5, Concat
<1>7. Len(e) = N
  BY <1>3, <1>4, <1>6
<1>8. e \in [1 .. N -> Char]
  BY <1>6, <1>7, SeqIsFunction
<1> QED BY <1>3, <1>6, <1>8

LEMMA OverwriteType ==
    ASSUME NEW N \in Nat, NEW b \in [1 .. N -> Char], NEW a \in Seq(Char),
           NEW n \in 1 .. N, n <= Len(a),
           NEW e, e = SubSeq(a, 1, n) \o SubSeq(b, n + 1, Len(b))
    PROVE  e \in [1 .. N -> Char]
BY Overwrite

LEMMA OverwriteBytes ==
    ASSUME NEW N \in Nat, NEW b \in [1 .. N -> Char], NEW a \in Seq(Char),
           NEW n \in 1 .. N, n <= Len(a),
           NEW e, e = SubSeq(a, 1, n) \o SubSeq(b, n + 1, Len(b)),
           NEW i \in 1 .. n
    PROVE  e[i] = a[i]
BY Overwrite

LEMMA Pieces ==
    ASSUME NEW S, NEW a \in Seq(S), NEW n \in 1 .. Len(a)
    PROVE  SubSeq(a, n + 1, Len(a)) \in Seq(S)
OBVIOUS

LEMMA HeadTail ==
    ASSUME NEW S, NEW a \in Seq(S), a # <<>>
    PROVE  /\ Head(a) \in S
           /\ Tail(a) \in Seq(S)
           /\ Len(Tail(a)) = Len(a) - 1
OBVIOUS

LEMMA FrontSeq ==
    ASSUME NEW S, NEW a \in Seq(S), a # <<>>
    PROVE  Front(a) \in Seq(S)
BY DEF Front

LEMMA Constants ==
    /\ RECV_BUFFER_SIZE \in Nat /\ RECV_BUFFER_SIZE > 1
    /\ MaxInput \in [Session -> Nat]
    /\ Username \in Seq(Char \ {"CR"})
    /\ Username # <<>> => Head(Username) # "."
    /\ \A s \in Session : \A in \in Input[s] : in \in Seq(Char)
BY TelnetServerAssumption

LEMMA BufferSize == RECV_BUFFER_SIZE \in Nat
BY Constants

LEMMA InputOwn ==
    ASSUME NEW s \in Session, NEW in \in Input[s]
    PROVE  in \in Seq(Own(s))
<1>1. in \in Seq(Char)
  BY Constants
<1>2. \A i \in 1 .. Len(in) : in[i] \in Own(s)
  BY <1>1 DEF Own, ToSet
<1> QED BY <1>1, <1>2

(***************************************************************************)
(* What the handler of a read sees.                                        *)
(***************************************************************************)
LEMMA LineIsNoText ==
    ASSUME NEW a \in Seq(Char), NEW r \in Seq(Char), Len(r) >= 1,
           NEW t \in Seq(Char \ {"CR"}), t # <<>> => Head(t) # ".",
           (r[1] = "." /\ a = <<>>) \/ r[1] = "CR"
    PROVE  a \o r # t
<1> SUFFICES ASSUME a \o r = t PROVE FALSE
  OBVIOUS
<1>1. Len(t) = Len(a) + Len(r) /\ t[Len(a) + 1] = r[1]
  OBVIOUS
<1>2. CASE r[1] = "." /\ a = <<>>
  <2>1. t[1] = "." /\ t # <<>>
    BY <1>1, <1>2
  <2> QED BY <2>1
<1>3. CASE r[1] = "CR"
  <2>1. Len(a) + 1 \in 1 .. Len(t)
    BY <1>1
  <2>2. t[Len(a) + 1] \in Char \ {"CR"}
    BY <2>1
  <2> QED BY <2>2, <1>1, <1>3
<1> QED BY <1>2, <1>3

LEMMA ReceivedType ==
    ASSUME TypeOK, NEW s \in Session, ready[s] # <<>>
    PROVE  /\ Head(ready[s]) \in 1 .. RECV_BUFFER_SIZE
           /\ Received(s) \in Seq(Char)
           /\ Len(Received(s)) >= 1
           /\ Received(s)[1] = recvBuffer[1]
<1>1. ready[s] \in Seq(1 .. RECV_BUFFER_SIZE) /\ recvBuffer \in [1 .. RECV_BUFFER_SIZE -> Char]
  BY DEF TypeOK
<1>2. PICK n \in 1 .. RECV_BUFFER_SIZE : n = Head(ready[s])
  BY <1>1, HeadTail
<1>3. /\ SubSeq(recvBuffer, 1, n) \in Seq(Char)
      /\ Len(SubSeq(recvBuffer, 1, n)) = n
      /\ \A i \in 1 .. n : SubSeq(recvBuffer, 1, n)[i] = recvBuffer[i]
  BY <1>1, Prefix, Constants
<1> QED BY <1>2, <1>3 DEF Received

LEMMA LineDismisses ==
    ASSUME TypeOK, StaysGuest, NEW s \in Session, ready[s] # <<>>, LineEnd(s)
    PROVE  /\ LogIn(s, receivedData[s] \o Received(s)) = "Guest"
           /\ Dismissed(s, receivedData[s] \o Received(s))
<1>1. receivedData[s] \in Seq(Char)
  BY DEF TypeOK
<1>2. (Received(s)[1] = "." /\ receivedData[s] = <<>>) \/ Received(s)[1] = "CR"
  BY ReceivedType DEF LineEnd
<1>3. receivedData[s] \o Received(s) # Username
  BY <1>1, <1>2, ReceivedType, LineIsNoText, Constants
<1>4. authStatus[s] = "Guest"
  BY DEF StaysGuest
<1> QED BY <1>3, <1>4 DEF LogIn, Dismissed

(***************************************************************************)
(* The inductive invariant, one conjunct at a time.                        *)
(***************************************************************************)
LEMMA InitInv == Init => ServerInv
<1> SUFFICES ASSUME Init PROVE ServerInv
  OBVIOUS
<1>1. TypeOK
  <2>1. (inbox \in [Session -> Seq(Char)] /\ receivedData \in [Session -> Seq(Char)])
    BY DEF Init, Each
  <2>2. (ready \in [Session -> Seq(1 .. RECV_BUFFER_SIZE)])
    BY DEF Init, Each
  <2>3. (recvBuffer \in [1 .. RECV_BUFFER_SIZE -> Char])
    BY DEF Init, Char
  <2>4. (/\ reads \in [Session -> Nat] /\ writes \in [Session -> Nat]
         /\ echoed \in [Session -> Nat] /\ sent \in [Session -> Nat])
    BY DEF Init, Each
  <2>5. (\A s \in Session :
            /\ sent[s] <= MaxInput[s]
            /\ state[s] = "none" => reads[s] + writes[s] + Len(ready[s]) = 0)
    BY Constants DEF Init, Each
  <2>6. (/\ running \in BOOLEAN /\ overlap \in BOOLEAN
         /\ state \in [Session -> {"none", "open", "removed"}]
         /\ alive \in [Session -> BOOLEAN]
         /\ authStatus \in [Session -> {"Guest", "Authenticating", "LoggedIn"}])
    BY DEF Init, Each
  <2> QED BY <2>1, <2>2, <2>3, <2>4, <2>5, <2>6 DEF TypeOK
<1>2. StaysGuest /\ NoEchoYet /\ InboxOwn /\ StillServed
  BY DEF Init, Each, StaysGuest, NoEchoYet, InboxOwn, StillServed
<1>3. OneWaits /\ LineOwn
  BY DEF Init, Each, OneWaits, LineOwn
<1> QED BY <1>1, <1>2, <1>3 DEF ServerInv

LEMMA StopInv == ASSUME Stop PROVE ServerInv'
<1>1. TypeOK'
  <2>1. (inbox \in [Session -> Seq(Char)] /\ receivedData \in [Session -> Seq(Char)])'
    BY DEF Stop, Each
  <2>2. (ready \in [Session -> Seq(1 .. RECV_BUFFER_SIZE)])'
    BY DEF Stop, Each
  <2>3. (recvBuffer \in [1 .. RECV_BUFFER_SIZE -> Char])'
    BY DEF Stop, Char
  <2>4. (/\ reads \in [Session -> Nat] /\ writes \in [Session -> Nat]
         /\ echoed \in [Session -> Nat] /\ sent \in [Session -> Nat])'
    BY DEF Stop, Each
  <2>5. (\A s \in Session :
            /\ sent[s] <= MaxInput[s]
            /\ state[s] = "none" => reads[s] + writes[s] + Len(ready[s]) = 0)'
    BY Constants DEF Stop, Each
  <2>6. (/\ running \in BOOLEAN /\ overlap \in BOOLEAN
         /\ state \in [Session -> {"none", "open", "removed"}]
         /\ alive \in [Session -> BOOLEAN]
         /\ authStatus \in [Session -> {"Guest", "Authenticating", "LoggedIn"}])'
    BY DEF Stop, Each
  <2> QED BY <2>1, <2>2, <2>3, <2>4, <2>5, <2>6 DEF TypeOK
<1>2. (StaysGuest /\ NoEchoYet /\ InboxOwn /\ StillServed)'
  BY DEF Stop, Each, StaysGuest, NoEchoYet, InboxOwn, StillServed
<1>3. (OneWaits /\ LineOwn)'
  BY DEF Stop, Each, OneWaits, LineOwn
<1> QED BY <1>1, <1>2, <1>3 DEF ServerInv

\* The actions of clients and of writes leave the buffer and the lines alone.
LEMMA QuietKeepsOwn ==
    ASSUME ServerInv, UNCHANGED <<recvBuffer, ready, overlap, receivedData>>
    PROVE  (~overlap => OneWaits /\ LineOwn)'
BY DEF ServerInv, OneWaits, LineOwn

LEMMA ConnectInv ==
    ASSUME ServerInv, NEW s \in Session, Connect(s)
    PROVE  ServerInv'
<1> USE DEF Connect, sessionVars, ServerInv
<1>1. TypeOK'
  BY DEF TypeOK
<1>2. (StaysGuest /\ NoEchoYet /\ InboxOwn)'
  BY DEF StaysGuest, NoEchoYet, InboxOwn, TypeOK
<1>3. StillServed'
  <2>1. reads[s] + writes'[s] + Len(ready[s]) = 1 + echoed[s]
    <3>1. /\ writes'[s] = 1 /\ echoed[s] = 0
          /\ reads[s] \in Nat /\ writes[s] \in Nat /\ Len(ready[s]) \in Nat
          /\ reads[s] + writes[s] + Len(ready[s]) = 0
      BY DEF NoEchoYet, TypeOK
    <3> QED BY <3>1
  <2>2. \A q \in Session \ {s} : /\ state'[q] = state[q] /\ alive'[q] = alive[q]
                                /\ writes'[q] = writes[q]
    BY DEF TypeOK
  <2> QED BY <2>1, <2>2 DEF StillServed
<1> QED BY <1>1, <1>2, <1>3, QuietKeepsOwn

LEMMA ConnectThrowsInv ==
    ASSUME ServerInv, NEW s \in Session, ConnectThrows(s)
    PROVE  ServerInv'
<1> USE DEF ConnectThrows, sessionVars, opVars, clientVars, ServerInv
<1>1. TypeOK'
  BY DEF TypeOK
<1>2. (StaysGuest /\ NoEchoYet /\ InboxOwn /\ StillServed)'
  BY DEF StaysGuest, NoEchoYet, InboxOwn, StillServed
<1> QED BY <1>1, <1>2, QuietKeepsOwn

LEMMA SendInv ==
    ASSUME ServerInv, NEW s \in Session, NEW in \in Input[s], Send(s, in)
    PROVE  ServerInv'
<1> USE DEF Send, sessionVars, opVars, ServerInv
<1>1. in \in Seq(Char) /\ in \in Seq(Own(s))
  BY Constants, InputOwn
<1>2. inbox' \in [Session -> Seq(Char)]
  BY <1>1, Concat DEF TypeOK
<1>3. TypeOK'
  <2>1. sent' \in [Session -> Nat] /\ \A q \in Session : sent'[q] <= MaxInput[q]
    <3>1. sent \in [Session -> Nat] /\ \A q \in Session : sent[q] <= MaxInput[q]
      BY DEF TypeOK
    <3>2. sent[s] < MaxInput[s] /\ sent' = [sent EXCEPT ![s] = @ + 1]
      OBVIOUS
    <3>3. sent[s] \in Nat /\ MaxInput[s] \in Nat
      BY <3>1, Constants
    <3> HIDE DEF Send, ServerInv
    <3>4. sent[s] + 1 <= MaxInput[s]
      BY <3>2, <3>3
    <3>5. sent' \in [Session -> Nat]
      BY <3>1, <3>2
    <3>6. ASSUME NEW q \in Session PROVE sent'[q] <= MaxInput[q]
      <4>1. sent[q] <= MaxInput[q]
        BY <3>1
      <4> QED BY <3>1, <3>2, <3>4, <4>1
    <3> QED BY <3>5, <3>6
  <2>2. \A q \in Session : state[q] = "none" => reads[q] + writes[q] + Len(ready[q]) = 0
    BY DEF TypeOK
  <2> QED BY <1>2, <2>1, <2>2 DEF TypeOK
<1>4. InboxOwn'
  <2>1. inbox[s] \o in \in Seq(Own(s))
    BY <1>1, Concat DEF InboxOwn
  <2> QED BY <2>1 DEF InboxOwn, TypeOK
<1>5. (StaysGuest /\ NoEchoYet /\ StillServed)'
  BY DEF StaysGuest, NoEchoYet, StillServed
<1> QED BY <1>3, <1>4, <1>5, QuietKeepsOwn

LEMMA HangUpInv ==
    ASSUME ServerInv, NEW s \in Session, HangUp(s)
    PROVE  ServerInv'
<1> USE DEF HangUp, sessionVars, opVars, ServerInv
<1>1. TypeOK'
  BY DEF TypeOK
<1>2. (StaysGuest /\ NoEchoYet /\ InboxOwn /\ StillServed)'
  BY DEF StaysGuest, NoEchoYet, InboxOwn, StillServed, TypeOK
<1> QED BY <1>1, <1>2, QuietKeepsOwn

LEMMA OperationInv ==
    ASSUME ServerInv, NEW s \in Session,
           ReadFails(s) \/ WriteDone(s) \/ WriteFails(s)
    PROVE  ServerInv'
<1>a. reads \in [Session -> Nat] /\ writes \in [Session -> Nat]
  BY DEF TypeOK, ServerInv
<1>b. \/ reads[s] > 0 /\ Broken(s) /\ reads' = [reads EXCEPT ![s] = @ - 1] /\ writes' = writes
      \/ /\ writes[s] > 0 /\ writes' = [writes EXCEPT ![s] = @ - 1]
         /\ reads' = [reads EXCEPT ![s] = @ + 1]
      \/ writes[s] > 0 /\ Broken(s) /\ writes' = [writes EXCEPT ![s] = @ - 1] /\ reads' = reads
  BY DEF ReadFails, WriteDone, WriteFails
<1>1. reads' \in [Session -> Nat] /\ writes' \in [Session -> Nat]
  BY <1>a, <1>b
<1>c. \A q \in Session :
        q # s \/ ~Broken(q) => reads'[q] + writes'[q] = reads[q] + writes[q]
  BY <1>a, <1>b
<1> USE DEF ReadFails, WriteDone, WriteFails, clientVars, sessionVars, ServerInv
<1>2. TypeOK'
  <2>1. \A q \in Session : state[q] = "none" => reads'[q] + writes'[q] + Len(ready[q]) = 0
    <3> SUFFICES ASSUME NEW q \in Session, state[q] = "none"
                 PROVE  reads'[q] + writes'[q] + Len(ready[q]) = 0
      OBVIOUS
    <3>1. reads[q] = 0 /\ writes[q] = 0 /\ Len(ready[q]) = 0
      BY DEF TypeOK
    <3>2. q # s
      BY <3>1
    <3> QED BY <3>1, <3>2 DEF TypeOK
  <2>2. \A q \in Session : sent[q] <= MaxInput[q]
    BY DEF TypeOK
  <2> QED BY <1>1, <2>1, <2>2 DEF TypeOK
<1>3. (StaysGuest /\ NoEchoYet /\ InboxOwn)'
  BY DEF StaysGuest, NoEchoYet, InboxOwn
<1>4. StillServed'
  <2> SUFFICES ASSUME NEW q \in Session, state[q] = "open", alive[q]
               PROVE  reads'[q] + writes'[q] + Len(ready[q]) = 1 + echoed[q]
    BY DEF StillServed
  <2>1. reads[q] + writes[q] + Len(ready[q]) = 1 + echoed[q]
    BY DEF StillServed
  <2>2. reads'[q] + writes'[q] = reads[q] + writes[q]
    BY <1>c DEF Broken
  <2> QED BY <1>1, <1>a, <2>1, <2>2 DEF TypeOK
<1> QED BY <1>2, <1>3, <1>4, QuietKeepsOwn

LEMMA ReadDoneInv ==
    ASSUME ServerInv, NEW s \in Session, ReadDone(s)
    PROVE  ServerInv'
<1>1. PICK n \in 1 .. RECV_BUFFER_SIZE :
        /\ n <= Len(inbox[s])
        /\ recvBuffer' = SubSeq(inbox[s], 1, n) \o SubSeq(recvBuffer, n + 1, Len(recvBuffer))
        /\ inbox' = [inbox EXCEPT ![s] = SubSeq(@, n + 1, Len(@))]
        /\ ready' = [ready EXCEPT ![s] = Append(@, n)]
  BY DEF ReadDone
<1>2. /\ state[s] = "open" /\ reads[s] > 0
      /\ reads' = [reads EXCEPT ![s] = @ - 1]
      /\ overlap' = (overlap \/ \E q \in Session : ready[q] # <<>>)
      /\ UNCHANGED <<running, state, alive, sent, writes, receivedData, authStatus, echoed>>
  BY DEF ReadDone, sessionVars
<1>3. /\ inbox \in [Session -> Seq(Char)] /\ ready \in [Session -> Seq(1 .. RECV_BUFFER_SIZE)]
      /\ recvBuffer \in [1 .. RECV_BUFFER_SIZE -> Char]
      /\ reads \in [Session -> Nat] /\ writes \in [Session -> Nat]
      /\ \A q \in Session : state[q] = "none" => reads[q] + writes[q] + Len(ready[q]) = 0
  BY DEF ServerInv, TypeOK
<1>4. n \in 1 .. Len(inbox[s]) /\ inbox[s] \in Seq(Char) /\ inbox[s] \in Seq(Own(s))
  BY <1>1, <1>3 DEF ServerInv, InboxOwn
<1>5. /\ recvBuffer' \in [1 .. RECV_BUFFER_SIZE -> Char]
      /\ \A i \in 1 .. n : recvBuffer'[i] = inbox[s][i]
  <2>1. PICK a, b, e, N : a = inbox[s] /\ b = recvBuffer /\ e = recvBuffer' /\ N = RECV_BUFFER_SIZE
    OBVIOUS
  <2>2. N \in Nat /\ b \in [1 .. N -> Char] /\ a \in Seq(Char) /\ n \in 1 .. N /\ n <= Len(a)
    BY <1>1, <1>3, <1>4, <2>1, BufferSize
  <2>3. e = SubSeq(a, 1, n) \o SubSeq(b, n + 1, Len(b))
    BY <1>1, <2>1
  <2>4. e \in [1 .. N -> Char] /\ \A i \in 1 .. n : e[i] = a[i]
    <3>1. e \in [1 .. N -> Char]
      BY <2>2, <2>3, OverwriteType
    <3>2. ASSUME NEW i \in 1 .. n PROVE e[i] = a[i]
      BY <2>2, <2>3, OverwriteBytes
    <3> QED BY <3>1, <3>2
  <2> QED BY <2>1, <2>4
<1>6. inbox' \in [Session -> Seq(Char)] /\ InboxOwn'
  <2>1. /\ SubSeq(inbox[s], n + 1, Len(inbox[s])) \in Seq(Char)
        /\ SubSeq(inbox[s], n + 1, Len(inbox[s])) \in Seq(Own(s))
    BY <1>4, Pieces
  <2>2. \A q \in Session : inbox[q] \in Seq(Own(q))
    BY DEF ServerInv, InboxOwn
  <2> QED BY <1>1, <1>3, <2>1, <2>2 DEF InboxOwn
<1>7. /\ ready' \in [Session -> Seq(1 .. RECV_BUFFER_SIZE)]
      /\ Len(ready'[s]) = Len(ready[s]) + 1
      /\ \A q \in Session : q # s => ready'[q] = ready[q]
  BY <1>1, <1>3
<1>8. reads' \in [Session -> Nat] /\ reads'[s] = reads[s] - 1
      /\ \A q \in Session : q # s => reads'[q] = reads[q]
  BY <1>2, <1>3
<1>9. \A q \in Session :
        reads'[q] + writes'[q] + Len(ready'[q]) = reads[q] + writes[q] + Len(ready[q])
  <2> SUFFICES ASSUME NEW q \in Session
               PROVE  reads'[q] + writes'[q] + Len(ready'[q]) = reads[q] + writes[q] + Len(ready[q])
    OBVIOUS
  <2>1. Len(ready[q]) \in Nat /\ reads[q] \in Nat /\ writes[q] \in Nat /\ writes'[q] = writes[q]
    BY <1>2, <1>3
  <2>2. CASE q = s
    <3>1. PICK a \in Nat, b \in Nat, c \in Nat : a = reads[q] /\ b = writes[q] /\ c = Len(ready[q])
      BY <2>1
    <3>2. reads'[q] = a - 1 /\ writes'[q] = b /\ Len(ready'[q]) = c + 1
      BY <1>7, <1>8, <2>1, <2>2, <3>1
    <3>3. reads'[q] + writes'[q] + Len(ready'[q]) = a + b + c
      BY <3>2
    <3> QED BY <3>1, <3>3
  <2>3. CASE q # s
    BY <1>7, <1>8, <2>1, <2>3
  <2> QED BY <2>2, <2>3
<1>10. TypeOK'
  <2>1. \A q \in Session : state'[q] = "none" => reads'[q] + writes'[q] + Len(ready'[q]) = 0
    BY <1>2, <1>3, <1>9
  <2>2. overlap \in BOOLEAN /\ overlap' \in BOOLEAN
    BY <1>2 DEF ServerInv, TypeOK
  <2>3. \A q \in Session : sent'[q] <= MaxInput[q]
    BY <1>2 DEF ServerInv, TypeOK
  <2> QED BY <1>2, <1>5, <1>6, <1>7, <1>8, <2>1, <2>2, <2>3 DEF ServerInv, TypeOK
<1>11. (StaysGuest /\ NoEchoYet)'
  BY <1>2 DEF ServerInv, StaysGuest, NoEchoYet
<1>12. StillServed'
  BY <1>2, <1>9 DEF ServerInv, StillServed
<1>13. (~overlap => OneWaits /\ LineOwn)'
  <2> SUFFICES ASSUME ~overlap' PROVE OneWaits' /\ LineOwn'
    OBVIOUS
  <2>1. ~overlap /\ \A q \in Session : ready[q] = <<>>
    BY <1>2
  <2>2. LineOwn'
    BY <1>2, <2>1 DEF ServerInv, LineOwn
  <2>3. Len(ready'[s]) = 1 /\ Head(ready'[s]) = n
    BY <1>1, <1>3, <2>1
  <2>4. \A i \in 1 .. n : recvBuffer'[i] \in Own(s)
    BY <1>4, <1>5
  <2> QED BY <1>7, <2>1, <2>2, <2>3, <2>4 DEF OneWaits
<1> QED BY <1>6, <1>10, <1>11, <1>12, <1>13 DEF ServerInv

(***************************************************************************)
(* The handler.  Every branch takes one size from ready.                   *)
(***************************************************************************)
\* The types after a handler, from those of what the branches change.
LEMMA HandlerTypes ==
    ASSUME ServerInv, NEW s \in Session, ready[s] # <<>>,
           ready' = [ready EXCEPT ![s] = Tail(@)],
           UNCHANGED <<running, alive, sent, recvBuffer, overlap>>,
           state' \in [Session -> {"none", "open", "removed"}],
           authStatus' \in [Session -> {"Guest", "Authenticating", "LoggedIn"}],
           inbox' \in [Session -> Seq(Char)], receivedData' \in [Session -> Seq(Char)],
           reads' \in [Session -> Nat], writes' \in [Session -> Nat], echoed' \in [Session -> Nat],
           \A q \in Session : q # s => /\ reads'[q] = reads[q] /\ writes'[q] = writes[q]
                                      /\ state'[q] = state[q],
           state'[s] # "none"
    PROVE  TypeOK'
<1>1. /\ ready \in [Session -> Seq(1 .. RECV_BUFFER_SIZE)]
      /\ \A q \in Session : state[q] = "none" => reads[q] + writes[q] + Len(ready[q]) = 0
      /\ \A q \in Session : sent[q] <= MaxInput[q]
  BY DEF ServerInv, TypeOK
<1>2. ready' \in [Session -> Seq(1 .. RECV_BUFFER_SIZE)]
  BY <1>1, HeadTail
<1>3. \A q \in Session : state'[q] = "none" => reads'[q] + writes'[q] + Len(ready'[q]) = 0
  BY <1>1
<1>4. \A q \in Session : sent'[q] <= MaxInput[q]
  BY <1>1
<1> QED BY <1>2, <1>3, <1>4 DEF ServerInv, TypeOK

\* With one handler waiting, none waits after it has run.
LEMMA HandlerLeavesNone ==
    ASSUME ServerInv, ~overlap, NEW s \in Session, ready[s] # <<>>,
           ready' = [ready EXCEPT ![s] = Tail(@)]
    PROVE  OneWaits'
<1>1. ready \in [Session -> Seq(1 .. RECV_BUFFER_SIZE)]
  BY DEF ServerInv, TypeOK
<1>2. Len(ready[s]) = 1 /\ \A q \in Session : q # s => ready[q] = <<>>
  BY DEF ServerInv, OneWaits
<1>3. Tail(ready[s]) = <<>>
  BY <1>1, <1>2
<1>4. \A q \in Session : ready'[q] = <<>>
  BY <1>1, <1>2, <1>3
<1> QED BY <1>4 DEF OneWaits

\* With one handler waiting, it finds its own client's bytes in the buffer.
LEMMA HandlerSeesOwn ==
    ASSUME ServerInv, ~overlap, NEW s \in Session, ready[s] # <<>>
    PROVE  Received(s) \in Seq(Own(s))
<1>1. recvBuffer \in [1 .. RECV_BUFFER_SIZE -> Char]
  BY DEF ServerInv, TypeOK
<1>2. Head(ready[s]) \in 1 .. RECV_BUFFER_SIZE
  BY ReceivedType DEF ServerInv
<1>3. \A i \in 1 .. Head(ready[s]) : recvBuffer[i] \in Own(s)
  BY DEF ServerInv, OneWaits
<1> QED BY <1>1, <1>2, <1>3, PrefixOf, Constants DEF Received

\* A handler that does not remove its session begins one operation, and one
\* more when it echoes.
LEMMA HandlerServes ==
    ASSUME ServerInv, NEW s \in Session, ready[s] # <<>>,
           ready' = [ready EXCEPT ![s] = Tail(@)], UNCHANGED <<state, alive>>,
           NEW dr \in Nat, NEW dw \in Nat, NEW de \in Nat, dr + dw = 1 + de,
           reads' = [reads EXCEPT ![s] = @ + dr],
           writes' = [writes EXCEPT ![s] = @ + dw],
           echoed' = [echoed EXCEPT ![s] = @ + de]
    PROVE  StillServed'
<1>1. /\ ready \in [Session -> Seq(1 .. RECV_BUFFER_SIZE)]
      /\ reads \in [Session -> Nat] /\ writes \in [Session -> Nat] /\ echoed \in [Session -> Nat]
  BY DEF ServerInv, TypeOK
<1> SUFFICES ASSUME NEW q \in Session, state[q] = "open", alive[q]
             PROVE  reads'[q] + writes'[q] + Len(ready'[q]) = 1 + echoed'[q]
  BY DEF StillServed
<1>2. PICK a \in Nat, b \in Nat, c \in Nat, e \in Nat :
        a = reads[q] /\ b = writes[q] /\ c = Len(ready[q]) /\ e = echoed[q]
  BY <1>1
<1>3. a + b + c = 1 + e
  BY <1>2 DEF ServerInv, StillServed
<1>4. CASE q = s
  <2>1. Len(ready'[q]) = c - 1
    BY <1>1, <1>2, <1>4, HeadTail
  <2>2. reads'[q] = a + dr /\ writes'[q] = b + dw /\ echoed'[q] = e + de
    BY <1>1, <1>2, <1>4
  <2>3. (a + dr) + (b + dw) + (c - 1) = 1 + (e + de)
    BY <1>3
  <2> QED BY <2>1, <2>2, <2>3, Zenon
<1>5. CASE q # s
  <2>1. Len(ready'[q]) = c
    BY <1>1, <1>2, <1>5
  <2>2. reads'[q] = a /\ writes'[q] = b /\ echoed'[q] = e
    BY <1>1, <1>2, <1>5
  <2> QED BY <1>3, <2>1, <2>2
<1> QED BY <1>4, <1>5

\* What the handlers leave alone.
HandlerFrame(s) ==
    /\ ready[s] # <<>>
    /\ ready' = [ready EXCEPT ![s] = Tail(@)]
    /\ UNCHANGED <<running, alive, sent, recvBuffer, overlap>>

\* A session with a complete read is connected or removed.
LEMMA WaitingIsConnected ==
    ASSUME ServerInv, NEW s \in Session, ready[s] # <<>>
    PROVE  state[s] # "none"
<1>1. /\ ready[s] \in Seq(1 .. RECV_BUFFER_SIZE) /\ reads[s] \in Nat /\ writes[s] \in Nat
      /\ state[s] = "none" => reads[s] + writes[s] + Len(ready[s]) = 0
  BY DEF ServerInv, TypeOK
<1>2. Len(ready[s]) \in Nat \ {0}
  BY <1>1
<1> QED BY <1>1, <1>2

LEMMA HandleLineInv ==
    ASSUME ServerInv, NEW s \in Session, HandlerFrame(s), HandleLine(s)
    PROVE  ServerInv'
<1>1. /\ state' = [state EXCEPT ![s] = "removed"]
      /\ inbox' = [inbox EXCEPT ![s] = <<>>]
      /\ authStatus' = [authStatus EXCEPT ![s] = "Guest"]
      /\ receivedData' = [receivedData EXCEPT ![s] = <<>>]
      /\ UNCHANGED <<reads, writes, echoed>>
  BY LineDismisses DEF HandleLine, OnMessageReceived, RemoveClient, HandlerFrame, ServerInv
<1>2. TypeOK'
  <2>1. /\ state' \in [Session -> {"none", "open", "removed"}]
        /\ authStatus' \in [Session -> {"Guest", "Authenticating", "LoggedIn"}]
        /\ inbox' \in [Session -> Seq(Char)] /\ receivedData' \in [Session -> Seq(Char)]
        /\ reads' \in [Session -> Nat] /\ writes' \in [Session -> Nat]
        /\ echoed' \in [Session -> Nat]
    BY <1>1 DEF ServerInv, TypeOK
  <2>2. state'[s] # "none" /\ \A q \in Session : q # s => state'[q] = state[q]
    BY <1>1 DEF ServerInv, TypeOK
  <2> QED BY <1>1, <2>1, <2>2, HandlerTypes DEF HandlerFrame
<1>3. (StaysGuest /\ NoEchoYet /\ InboxOwn)'
  BY <1>1 DEF ServerInv, TypeOK, StaysGuest, NoEchoYet, InboxOwn
<1>4. StillServed'
  <2> SUFFICES ASSUME NEW q \in Session, state'[q] = "open", alive'[q]
               PROVE  reads'[q] + writes'[q] + Len(ready'[q]) = 1 + echoed'[q]
    BY DEF StillServed
  <2>1. q # s /\ state[q] = "open"
    BY <1>1 DEF ServerInv, TypeOK
  <2>2. ready'[q] = ready[q] /\ alive[q]
    BY <2>1 DEF HandlerFrame, ServerInv, TypeOK
  <2>3. reads[q] + writes[q] + Len(ready[q]) = 1 + echoed[q]
    BY <2>1, <2>2 DEF ServerInv, StillServed
  <2> QED BY <1>1, <2>2, <2>3
<1>5. (~overlap => OneWaits /\ LineOwn)'
  <2> SUFFICES ASSUME ~overlap PROVE OneWaits' /\ LineOwn'
    BY DEF HandlerFrame
  <2>1. LineOwn'
    BY <1>1 DEF ServerInv, TypeOK, LineOwn
  <2> QED BY <2>1, HandlerLeavesNone DEF HandlerFrame
<1> QED BY <1>2, <1>3, <1>4, <1>5 DEF ServerInv

\* The other branches, by what they do to the line and to the operations.
LEMMA HandleOtherInv ==
    ASSUME ServerInv, NEW s \in Session, HandlerFrame(s),
           UNCHANGED <<state, inbox, authStatus>>,
           NEW line \in Seq(Char), receivedData' = [receivedData EXCEPT ![s] = line],
           ~overlap => line \in Seq(Own(s)),
           NEW dr \in Nat, NEW dw \in Nat, NEW de \in Nat, dr + dw = 1 + de,
           reads' = [reads EXCEPT ![s] = @ + dr],
           writes' = [writes EXCEPT ![s] = @ + dw],
           echoed' = [echoed EXCEPT ![s] = @ + de]
    PROVE  ServerInv'
<1>1. /\ reads \in [Session -> Nat] /\ writes \in [Session -> Nat] /\ echoed \in [Session -> Nat]
      /\ state \in [Session -> {"none", "open", "removed"}]
      /\ receivedData \in [Session -> Seq(Char)] /\ inbox \in [Session -> Seq(Char)]
      /\ authStatus \in [Session -> {"Guest", "Authenticating", "LoggedIn"}]
  BY DEF ServerInv, TypeOK
<1>2. TypeOK'
  <2>a. reads[s] + dr \in Nat /\ writes[s] + dw \in Nat /\ echoed[s] + de \in Nat
    BY <1>1
  <2>b. /\ reads' = [reads EXCEPT ![s] = reads[s] + dr]
        /\ writes' = [writes EXCEPT ![s] = writes[s] + dw]
        /\ echoed' = [echoed EXCEPT ![s] = echoed[s] + de]
    OBVIOUS
  <2>1. /\ reads' \in [Session -> Nat] /\ writes' \in [Session -> Nat] /\ echoed' \in [Session -> Nat]
    BY <1>1, <2>a, <2>b
  <2>2. \A q \in Session : q # s => /\ reads'[q] = reads[q] /\ writes'[q] = writes[q]
                                    /\ state'[q] = state[q]
    BY <1>1
  <2>3. receivedData' \in [Session -> Seq(Char)]
    BY <1>1
  <2>4. state'[s] # "none"
    BY WaitingIsConnected DEF HandlerFrame
  <2>5. /\ state' \in [Session -> {"none", "open", "removed"}]
        /\ authStatus' \in [Session -> {"Guest", "Authenticating", "LoggedIn"}]
        /\ inbox' \in [Session -> Seq(Char)]
    BY <1>1
  <2> QED BY <2>1, <2>2, <2>3, <2>4, <2>5, HandlerTypes DEF HandlerFrame
<1>3. (StaysGuest /\ InboxOwn)'
  BY DEF ServerInv, StaysGuest, InboxOwn
<1>4. NoEchoYet'
  BY <1>1, WaitingIsConnected DEF ServerInv, NoEchoYet, HandlerFrame
<1>5. StillServed'
  BY HandlerServes DEF HandlerFrame
<1>6. (~overlap => OneWaits /\ LineOwn)'
  <2> SUFFICES ASSUME ~overlap PROVE OneWaits' /\ LineOwn'
    BY DEF HandlerFrame
  <2>1. LineOwn'
    BY <1>1 DEF ServerInv, LineOwn
  <2> QED BY <2>1, HandlerLeavesNone DEF HandlerFrame
<1> QED BY <1>2, <1>3, <1>4, <1>5, <1>6 DEF ServerInv

LEMMA HandleReadInv ==
    ASSUME ServerInv, NEW s \in Session, HandleRead(s)
    PROVE  ServerInv'
<1>1. HandlerFrame(s)
  BY DEF HandleRead, HandlerFrame
<1>2. /\ reads \in [Session -> Nat] /\ writes \in [Session -> Nat] /\ echoed \in [Session -> Nat]
      /\ receivedData \in [Session -> Seq(Char)]
  BY DEF ServerInv, TypeOK
<1>3. ~overlap => receivedData[s] \in Seq(Own(s))
  BY DEF ServerInv, LineOwn
<1>4. CASE HandleLine(s)
  BY <1>1, <1>4, HandleLineInv
<1>5. CASE HandleBackspace(s) \/ HandleDelete(s)
  <2>1. /\ UNCHANGED <<state, inbox, authStatus>>
        /\ receivedData' = [receivedData EXCEPT ![s] = receivedData[s]]
        /\ reads' = [reads EXCEPT ![s] = @ + 1]
        /\ writes' = [writes EXCEPT ![s] = @ + 0]
        /\ echoed' = [echoed EXCEPT ![s] = @ + 0]
    BY <1>2, <1>5 DEF HandleBackspace, HandleDelete, ReceiveAsync
  <2>2. PICK line \in Seq(Char) : line = receivedData[s]
    BY <1>2
  <2> QED BY <1>1, <1>3, <2>1, <2>2, HandleOtherInv
<1>6. CASE HandleErase(s)
  <2>1. PICK line \in Seq(Char) : line = Front(receivedData[s])
    BY <1>2, <1>6, FrontSeq DEF HandleErase
  <2>2. /\ UNCHANGED <<state, inbox, authStatus>>
        /\ receivedData' = [receivedData EXCEPT ![s] = line]
        /\ reads' = [reads EXCEPT ![s] = @ + 0]
        /\ writes' = [writes EXCEPT ![s] = @ + 1]
        /\ echoed' = [echoed EXCEPT ![s] = @ + 0]
    BY <1>2, <1>6, <2>1 DEF HandleErase, SendBytes
  <2>3. ~overlap => line \in Seq(Own(s))
    BY <1>3, <1>6, <2>1, FrontSeq DEF HandleErase
  <2>4. 0 \in Nat /\ 1 \in Nat /\ 0 + 1 = 1 + 0
    OBVIOUS
  <2> QED BY <1>1, <2>2, <2>3, <2>4, HandleOtherInv, Zenon
<1>7. CASE HandleText(s)
  <2>1. PICK line \in Seq(Char) : line = receivedData[s] \o Received(s)
    BY <1>1, <1>2, ReceivedType, Concat DEF HandlerFrame, ServerInv
  <2>2. /\ UNCHANGED <<state, inbox, authStatus>>
        /\ receivedData' = [receivedData EXCEPT ![s] = line]
        /\ reads' = [reads EXCEPT ![s] = @ + 1]
        /\ writes' = [writes EXCEPT ![s] = @ + 1]
        /\ echoed' = [echoed EXCEPT ![s] = @ + 1]
    BY <1>7, <2>1 DEF HandleText, SendBytes, ReceiveAsync
  <2>3. ~overlap => line \in Seq(Own(s))
    BY <1>1, <1>3, <2>1, HandlerSeesOwn, Concat DEF HandlerFrame
  <2> QED BY <1>1, <2>2, <2>3, HandleOtherInv
<1> QED BY <1>4, <1>5, <1>6, <1>7 DEF HandleRead

LEMMA NextInv == ServerInv /\ [Next]_vars => ServerInv'
<1> SUFFICES ASSUME ServerInv, [Next]_vars PROVE ServerInv'
  OBVIOUS
<1>1. CASE Stop
  BY <1>1, StopInv
<1>2. ASSUME NEW s \in Session, Connect(s) PROVE ServerInv'
  BY <1>2, ConnectInv
<1>3. ASSUME NEW s \in Session, ConnectThrows(s) PROVE ServerInv'
  BY <1>3, ConnectThrowsInv
<1>4. ASSUME NEW s \in Session, NEW in \in Input[s], Send(s, in) PROVE ServerInv'
  BY <1>4, SendInv
<1>5. ASSUME NEW s \in Session, HangUp(s) PROVE ServerInv'
  BY <1>5, HangUpInv
<1>6. ASSUME NEW s \in Session, ReadDone(s) PROVE ServerInv'
  BY <1>6, ReadDoneInv
<1>7. ASSUME NEW s \in Session, ReadFails(s) \/ WriteDone(s) \/ WriteFails(s) PROVE ServerInv'
  BY <1>7, OperationInv
<1>8. ASSUME NEW s \in Session, HandleRead(s) PROVE ServerInv'
  BY <1>8, HandleReadInv
<1>9. CASE UNCHANGED vars
  BY <1>9 DEF vars, clientVars, opVars, sessionVars, ServerInv, TypeOK, StaysGuest,
              NoEchoYet, InboxOwn, StillServed, OneWaits, LineOwn, Own
<1> QED BY <1>1, <1>2, <1>3, <1>4, <1>5, <1>6, <1>7, <1>8, <1>9 DEF Next

(***************************************************************************)
(* The theorems.                                                           *)
(***************************************************************************)
\* In every reachable state the sessions, their operations, the shared buffer
\* and the lines are related as ServerInv says.
THEOREM ServerInvariant == Spec => []ServerInv
BY InitInv, NextInv, PTL DEF Spec

\* The types of the server's state, and that a session which is not connected
\* yet has no operation under way.
THEOREM TypeCorrect == Spec => []TypeOK
<1>1. ServerInv => TypeOK
  BY DEF ServerInv
<1> QED BY <1>1, ServerInvariant, PTL

\* A connected client is never forgotten: its session has one operation under
\* way, and one more for every echo it was sent (receiveAsync and
\* sendBytesToClient begin each other).
THEOREM ClientsServed == Spec => []StillServed
<1>1. ServerInv => StillServed
  BY DEF ServerInv
<1> QED BY <1>1, ServerInvariant, PTL

\* As long as no read completes while a handler waits, no session collects a
\* byte of another client from the shared _recvBuffer, whatever the stale
\* bytes behind a short read are.
THEOREM NoCrossTalk == Spec => []OwnText
<1>1. ServerInv => OwnText
  <2> SUFFICES ASSUME ServerInv, ~overlap, NEW s \in Session, NEW i \in DOMAIN receivedData[s]
               PROVE  receivedData[s][i] \in UNION {ToSet(in) : in \in Input[s]}
    BY DEF OwnText, ToSet
  <2>1. receivedData[s] \in Seq(Own(s))
    BY DEF ServerInv, LineOwn
  <2>2. receivedData[s][i] \in Own(s)
    BY <2>1
  <2> QED BY <2>2 DEF Own
<1> QED BY <1>1, ServerInvariant, PTL

\* logIn is never passed: what it is given ends with the bytes of the line end,
\* so every line of every client ends its session.
THEOREM NobodyLogsIn == Spec => [](\A s \in Session : authStatus[s] = "Guest")
<1>1. ServerInv => \A s \in Session : authStatus[s] = "Guest"
  BY DEF ServerInv, StaysGuest
<1> QED BY <1>1, ServerInvariant, PTL
=============================================================================
