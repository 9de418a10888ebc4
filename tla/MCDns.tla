------------------------------- MODULE MCDns -------------------------------
(***************************************************************************)
(* An instance of Dns for TLC.  Characters are numbers: digits 1 and 2,    *)
(* letters 3 to 5, 8 for in-addr.arpa and 9 for the dot; a byte is four    *)
(* bits and a label shorter than four.                                     *)
(***************************************************************************)
EXTENDS Dns

CONSTANTS c1, c2

\* The address 12.1 has two names, 2.2 has one; the second line is invalid.
MCLine == << [addr |-> << <<1, 2>>, <<1>> >>, name |-> << <<3>>, <<4, 5>> >>],
             [addr |-> << <<2>>, <<1>> >>,    name |-> <<>>],
             [addr |-> << <<1, 2>>, <<1>> >>, name |-> << <<4>> >>],
             [addr |-> << <<2>>, <<2>> >>,    name |-> << <<3>>, <<5, 4, 3>> >>] >>

\* A name, the reverse name of its address, a name that no record has; and
\* the name of the last record.
MCArgv == [c \in Client |->
              IF c = c1 THEN << << <<3>>, <<4, 5>> >>, << <<1>>, <<1, 2>>, <<8>> >>, << <<5>> >> >>
              ELSE << << <<3>>, <<5, 4, 3>> >> >>]

MCAlias == [n \in {<<3, 9, 4, 5>>, <<1, 9, 1, 2, 9, 8>>, <<5>>, <<3, 9, 5, 4, 3>>} |->
              IF n \in {<<3, 9, 4, 5>>, <<3, 9, 5, 4, 3>>} THEN <<5, 5>> ELSE <<>>]
MCAddress == <<2, 1>>

=============================================================================
