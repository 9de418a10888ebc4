----------------------------- MODULE TftpBlocks -----------------------------
(***************************************************************************)
(* The netascii conversion of a TFTP transfer.  The sender (putFile of the *)
(* client, sendBlockOfData of the server: the same loop twice) cuts a text *)
(* file into blocks, turning each '\n' into "\r\n"; a pair that does not   *)
(* fit is carried over in lineFeed.  The receiver (getFile of the client,  *)
(* TFTPSessionWrite of the server) drops every '\r'.  Delivery is that of  *)
(* module Tftp without faults: each block once, in order.                  *)
(***************************************************************************)
EXTENDS Integers, Sequences, SequencesExt

CONSTANTS
    CR, LF,      \* '\r' and '\n'
    Char,        \* the characters of the files, CR and LF among them
    MaxLength,   \* bound: length of a file
    MaxBlocks,   \* bound: blocks of a transfer, enough for every such file
    BlockSizes   \* block sizes to try, 512 in the code; at least 2

ASSUME BlocksAssumption ==
    /\ {CR, LF} \subseteq Char /\ CR # LF
    /\ MaxLength \in Nat /\ MaxBlocks \in Nat /\ BlockSizes \subseteq Nat \ {0, 1}

VARIABLES
    text,      \* the sender's file
    size,      \* the block size
    pos,       \* characters of it read
    lineFeed,  \* lineFeed / _lineFeed
    blocks,    \* the blocks on the wire, in order
    received   \* the receiver's file

vars == <<text, size, pos, lineFeed, blocks, received>>

CarryOut_Kept(d, lf) == d

\* The '\n' owed by the block before.
CarryOut(d, lf) == IF lf THEN Append(d, LF) ELSE d

Turn_NoBreak(r) ==
    LET c == CarryOut(r.data, r.lineFeed)
    IN  IF Len(r.data) >= size THEN r
        ELSE IF r.pos = Len(text) THEN [r EXCEPT !.data = c, !.lineFeed = FALSE]
        ELSE [data |-> c \o (IF text[r.pos + 1] = LF THEN <<CR, LF>> ELSE <<text[r.pos + 1]>>),
              pos |-> r.pos + 1, lineFeed |-> FALSE]

\* One turn of the while (n < 512) loop: the carried '\n' and the next character
\* are put in the same turn.
Turn(r) ==
    LET c == CarryOut(r.data, r.lineFeed)
        d == Append(c, CR)
    IN  IF Len(r.data) >= size THEN r
        ELSE IF r.pos = Len(text) THEN [r EXCEPT !.data = c, !.lineFeed = FALSE]
        ELSE IF text[r.pos + 1] # LF
             THEN [data |-> Append(c, text[r.pos + 1]), pos |-> r.pos + 1, lineFeed |-> FALSE]
        ELSE IF Len(d) = size THEN [data |-> d, pos |-> r.pos + 1, lineFeed |-> TRUE]
        ELSE [data |-> Append(d, LF), pos |-> r.pos + 1, lineFeed |-> FALSE]

\* One block, from position p on.  A turn that is not the last adds a byte.
Fill(p, lf) ==
    LET turn[n \in 0 .. size] ==
            IF n = 0 THEN [data |-> <<>>, pos |-> p, lineFeed |-> lf] ELSE Turn(turn[n - 1])
    IN  turn[size]

\* Every character replaced by what tab has for it.
Translate(s, tab) == FlattenSeq([i \in DOMAIN s |-> tab[s[i]]])

DropCr == [x \in Char |-> IF x = CR THEN <<>> ELSE <<x>>]
EndLines == [x \in Char |-> IF x = LF THEN <<CR, LF>> ELSE <<x>>]

Decode_DropLf(d) == Translate(d, [x \in Char |-> IF x = LF THEN <<>> ELSE <<x>>])

\* What the receiver writes of a block.
Decode(d) == Translate(d, DropCr)

LastBlock_NotEmpty(d) == d # <<>> /\ Len(d) < size

\* "the latest block", on both sides.
LastBlock(d) == Len(d) < size

Complete == blocks # <<>> /\ LastBlock(Last(blocks))

\* The next block is sent and received.
Transfer ==
    /\ ~Complete
    /\ Len(blocks) < MaxBlocks
    /\ \E b \in {Fill(pos, lineFeed)} :
          /\ pos' = b.pos
          /\ lineFeed' = b.lineFeed
          /\ blocks' = Append(blocks, b.data)
          /\ received' = received \o Decode(b.data)
    /\ UNCHANGED <<text, size>>

Init ==
    /\ text \in SeqOf(Char, MaxLength)
    /\ size \in BlockSizes
    /\ pos = 0 /\ lineFeed = FALSE
    /\ blocks = <<>> /\ received = <<>>

Spec == Init /\ [][Transfer]_vars /\ WF_vars(Transfer)

(***************************************************************************)
(* Reference: the text with "\r\n" for each '\n', as one string.           *)
(***************************************************************************)
Netascii(s) == Translate(s, EndLines)

\* The blocks sent are consecutive pieces of the netascii form of the file,
\* wherever the boundaries fall, and all of it once the short block is sent
\* (tftp-client.cpp:396-449, tftp-server.cpp:357-404).
WireIsNetascii ==
    /\ IsPrefix(FlattenSeq(blocks), Netascii(text))
    /\ Complete => FlattenSeq(blocks) = Netascii(text)

\* No block outgrows the datagram buffer, also when a carried '\n' and a new
\* pair meet in it (BUFFER_SIZE, tftp-client.cpp:32, tftp-server.cpp:27).
BlocksFit == \A i \in 1 .. Len(blocks) : Len(blocks[i]) <= size

\* After the last block the receiver's file is the sender's without its '\r'.
RoundTrip ==
    Complete => received = Translate(text, DropCr)

\* The sender does come to a short block, also for a file whose netascii form
\* fills the last block exactly.
Completes == <>Complete

=============================================================================
