---------------------------- MODULE MC_WebGame ----------------------------
EXTENDS WebGame
(***************************************************************************)
(* A game of at most three moves.  The first position only offers a        *)
(* promotion, one name is a move of two positions, one position can also   *)
(* be loaded, one has a result, and the stacks hold two moves, so the     *)
(* third is refused.                                                       *)
(***************************************************************************)
MC_Legal == [p \in Positions |->
  CASE p = "start" -> <<"b", "b+">>
    [] p = "A" -> <<"c">>
    [] p = "C" -> <<"b">>
    [] OTHER -> <<>>]
MC_After == [e \in {<<"start", "b">>, <<"start", "b+">>, <<"A", "c">>,
                    <<"C", "b">>} |->
  CASE e = <<"start", "b">> -> "A"
    [] e = <<"start", "b+">> -> "P"
    [] e = <<"A", "c">> -> "C"
    [] OTHER -> "E"]
MC_Side == [p \in Positions |-> IF p \in {"start", "C"} THEN 0 ELSE 1]
MC_Pairs == [p \in Positions |-> IF p = "start" THEN {{1, 2}} ELSE {}]
=============================================================================
