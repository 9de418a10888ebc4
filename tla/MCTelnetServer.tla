--------------------------- MODULE MCTelnetServer ---------------------------
(***************************************************************************)
(* TelnetServer with two clients: one sends text and backspaces, the       *)
(* other a delete, the "." that ends a session, or a line end.             *)
(***************************************************************************)
EXTENDS TelnetServer

CONSTANTS s1, s2

MCInput ==
    [s \in Session |->
        IF s = s1 THEN {<<"u">>, <<"BS">>}
        ELSE {<<"DEL">>, <<".", "CR">>, <<"CR", "LF">>}]
MCMaxInput == [s \in Session |-> IF s = s1 THEN 2 ELSE 1]
MCUsername == <<"u">>
MCPassword == <<"p">>
MCExit == {<<"p", "p">>}
=============================================================================
