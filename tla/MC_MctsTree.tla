---------------------------- MODULE MC_MctsTree -----------------------------
(***************************************************************************)
(* Games for MctsTree: a and c go to and fro, e is mate, one search starts *)
(* where two moves lead to c, and one a move before the mate.              *)
(***************************************************************************)
EXTENDS MctsTree

MC_Positions == {"r", "s", "m", "a", "b", "c", "e"}
MC_Successors ==
    [r |-> <<"a">>, s |-> <<"a", "b">>, m |-> <<"e">>, a |-> <<"c">>, b |-> <<"c">>,
     c |-> <<"a", "e">>, e |-> <<>>]
MC_InCheck == {"e"}
MC_Histories == {<<"r">>, <<"a", "r">>, <<"s">>, <<"m">>}
=============================================================================
