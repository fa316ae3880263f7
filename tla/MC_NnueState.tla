---------------------------- MODULE MC_NnueState ----------------------------
(***************************************************************************)
(* A small game and its searches for NnueState: both kings step to and     *)
(* fro, so that the same position comes back and the caches answer; a rook *)
(* captures a promoted piece, promotes, and what it took is dropped.       *)
(***************************************************************************)
EXTENDS NnueState

Setup(black, white) ==
    [s \in Squares |-> IF s \in DOMAIN black THEN Piece(Black, black[s])
                       ELSE IF s \in DOMAIN white THEN Piece(White, white[s]) ELSE Empty]
NoHand == [t \in HandTypes |-> 0]
BlackSetup == [s \in {76, 30} |-> IF s = 76 THEN "king" ELSE "rook"]
WhiteSetup == [s \in {4, 21} |-> IF s = 4 THEN "king" ELSE "pro_pawn"]

MC_Openings ==
    {[board |-> Setup(BlackSetup, WhiteSetup), hand |-> [c \in Colors |-> NoHand],
      side |-> Black, number |-> 1]}

Go(from, to, up) == [from |-> from, to |-> to, promote |-> up, drop |-> "empty"]
MC_Menu ==
    {Go(76, 77, FALSE), Go(4, 5, FALSE), Go(30, 21, TRUE), Go(21, 30, FALSE),
     [from |-> NoSquare, to |-> 40, promote |-> FALSE, drop |-> "pawn"]}

\* Two slots, so that entries meet in one of them: by the parity of the number
\* of keys and by whether a king is at home.
MC_Slot(hash) == (Cardinality(hash) + Cardinality(hash \cap {BoardKey(76, Piece(Black, "king"))})) % 2
=============================================================================
