------------------------------ MODULE MCTelnet ------------------------------
(***************************************************************************)
(* TelnetSession for TLC: lines of up to three of two characters, and a    *)
(* history of two, so that lines are repeated and pushed out; terminals    *)
(* narrower than, as wide as and wider than HOME's two cells, so that      *)
(* lines wrap, once or twice, and run past where HOME reaches.             *)
(***************************************************************************)
EXTENDS TelnetSession

MCUser == <<"a">>
MCPass == <<"b">>

=============================================================================
