------------------------------- MODULE MCFtp -------------------------------
(***************************************************************************)
(* An instance of Ftp for TLC: a home directory "/d" with a file, and      *)
(* buffers of two bytes.                                                   *)
(***************************************************************************)
EXTENDS Ftp

CONSTANTS s1, s2, i1, i2, i3

MCParent == [p \in Path |-> CASE p = "/d/f" -> "/d" [] p = "/d" -> "/" [] OTHER -> NoPath]
MCTree0 == [p \in Path |-> IF p = "/d/f" THEN i1 ELSE "dir"]

\* A text of two lines, the second without its end: 3 is '\r', 4 is '\n'.
MCContent0 == [i \in File |-> IF i = i1 THEN <<1, 4, 3, 2>> ELSE <<>>]

\* A short last read, and a length that is a multiple of the buffer's.
MCUpload == [s \in Session |-> IF s = s1 THEN <<1, 3, 4, 2, 3>> ELSE <<2, 2>>]

\* The second client uploads and deletes the file that the first one uses.
MCAllowed == [s \in Session |-> IF s = s1 THEN Command ELSE {"PASV", "PORT", "STOR", "DELE"}]

=============================================================================
