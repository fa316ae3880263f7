---------------------------- MODULE MC_AlphaBeta ----------------------------
(***************************************************************************)
(* A game of six positions for AlphaBeta: two ways from r to p, a cycle of *)
(* two plies between p and q, one of four through z, and a mate at s.      *)
(***************************************************************************)
EXTENDS AlphaBeta

MC_Positions == {"r", "q", "w", "p", "z", "s"}
MC_Successors ==
    [r |-> <<"q", "w">>, q |-> <<"p">>, w |-> <<"p">>,
     p |-> <<"q", "z">>, z |-> <<"r", "s">>, s |-> <<>>]
MC_Games == {<<"r">>, <<"p", "z", "r">>}
MC_InCheck == {"s"}
MC_Noisy == {<<"p", "z">>}
MC_Slots == [r |-> 0, q |-> 1, w |-> 2, p |-> 0, z |-> 1, s |-> 2]
MC_Evaluations ==
    {[r |-> 1, q |-> -2, w |-> 1, p |-> 0, z |-> 2, s |-> 0],
     [r |-> 0, q |-> 1, w |-> 0, p |-> -1, z |-> -3, s |-> 0]}
Exactly(prepass, partial, qhash, shallow) ==
    [prepass |-> prepass, partial |-> partial, qhash |-> qhash, shallow |-> shallow,
     margin |-> 900, futility |-> 900, reduceFrom |-> 4]
MC_OptionSets ==
    {Exactly(TRUE, TRUE, FALSE, TRUE), Exactly(FALSE, TRUE, TRUE, TRUE),
     Exactly(TRUE, FALSE, TRUE, FALSE),
     [Exactly(TRUE, TRUE, TRUE, TRUE) EXCEPT !.margin = 0, !.futility = 1, !.reduceFrom = 1]}
MC_Stops == {0, 1, 999} \cup {n \in 2 .. 120 : n % 16 = 1}
=============================================================================
