------------------------------- MODULE MCTftp -------------------------------
(***************************************************************************)
(* Instances of Tftp for TLC: blocks of two bytes, so that three bytes are *)
(* a full and a short block and two bytes a full and an empty one.         *)
(***************************************************************************)
EXTENDS TftpService

CONSTANTS c1, c2

\* The first client puts a file of one full block, the second a longer one.
MCSource == [c \in Client |-> IF c = c1 THEN <<1, 2>> ELSE <<3, 1, 2>>]

\* "old" is on the server from the start, "new" and "dir/new" are not.
MCDisk0 == [f \in Name |-> IF f = "old" THEN <<1, 2, 3>> ELSE NoFile]

=============================================================================
