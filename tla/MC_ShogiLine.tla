---------------------------- MODULE MC_ShogiLine ----------------------------
(***************************************************************************)
(* Small positions and menus for ShogiLine, and families of positions for  *)
(* the laws of ShogiLaw.                                                   *)
(***************************************************************************)
EXTENDS ShogiLaw

Setup(black, white) ==
    [s \in Squares |-> IF s \in DOMAIN black THEN Piece(Black, black[s])
                       ELSE IF s \in DOMAIN white THEN Piece(White, white[s]) ELSE Empty]
NoHand == [t \in HandTypes |-> 0]
At(s, t) == [q \in {s} |-> t]
Plus(f, g) == [q \in DOMAIN f \cup DOMAIN g |-> IF q \in DOMAIN f THEN f[q] ELSE g[q]]
Go(from, to) == [from |-> from, to |-> to, promote |-> FALSE, drop |-> "empty"]
GoUp(from, to) == [from |-> from, to |-> to, promote |-> TRUE, drop |-> "empty"]
Drop(t, to) == [from |-> NoSquare, to |-> to, promote |-> FALSE, drop |-> t]

\* Perpetual check: a rook on the last rank follows the white king, which goes
\* to and fro on the first; the black king may break the chain.
ChaseOpenings ==
    {[board |-> Setup(Plus(At(72, "king"), At(76, "rook")), At(5, "king")),
      hand |-> [c \in Colors |-> NoHand], side |-> Black, number |-> 1]}
ChaseMenu == {Go(76, 77), Go(77, 76), Go(5, 4), Go(4, 5), Go(72, 73), Go(73, 72)}

\* Exchanges next to the promotion zone, with a pawn, a silver and a rook to
\* take, promote and drop.
TradeOpenings ==
    {[board |-> Setup(Plus(Plus(At(80, "king"), At(28, "pawn")), At(27, "rook")),
                      Plus(Plus(At(8, "king"), At(19, "silver")), At(18, "pro_pawn"))),
      hand |-> [c \in Colors |-> [NoHand EXCEPT !["pawn"] = 1]], side |-> Black, number |-> 10]}
TradeMenu ==
    {Go(28, 19), GoUp(28, 19), Go(27, 18), GoUp(27, 18), Go(19, 28), GoUp(19, 28),
     Go(18, 27), Go(80, 71), Go(8, 17),
     Drop("pawn", 40), Drop("silver", 20), Drop("rook", 26),
     Go(90, 30), Go(28, 81)}

Bare == [s \in Squares |-> Empty]
Put(board, s, c, t) == [board EXCEPT ![s] = Piece(c, t)]
InHand(black, white) == [c \in Colors |-> IF c = Black THEN black ELSE white]

\* Pins and checks: the black king in the middle, one black piece near it, one
\* white piece on a line with it or not; the white king is not in check.
PinBoards ==
    {b \in {Put(Put(Put(Put(Bare, 40, Black, "king"), 0, White, "king"), own, Black, t), foe, White, u) :
              own \in {31, 30, 39, 22}, t \in {"gold", "knight", "rook", "bishop"},
              foe \in {13, 4, 20, 36, 29},
              u \in {"lance", "rook", "bishop", "dragon"}} :
        ~InCheckByLaw(b, White)}
PinOpenings == {[board |-> b, hand |-> InHand(NoHand, NoHand), side |-> Black, number |-> MaxMoveNumber] :
                   b \in PinBoards}

\* Pawn drops against a cornered king, with and without a defender; black is
\* to move and white is not in check yet.
Bottled == Put(Put(Put(Bare, 80, Black, "king"), 0, White, "king"), 18, Black, "gold")
MateBoards ==
    {b \in {Put(Put(Bottled, a, Black, t), d, White, u) :
              a \in {11, 19}, t \in {"gold", "knight"},
              d \in {1, 10}, u \in {"gold", "lance", "knight"}} :
        ~InCheckByLaw(b, White)}
MateOpenings ==
    {[board |-> b, hand |-> InHand([NoHand EXCEPT !["pawn"] = 1], [NoHand EXCEPT !["pawn"] = 1]),
      side |-> Black, number |-> MaxMoveNumber - 1] : b \in MateBoards}
    \cup {[board |-> Put(Put(Put(Put(Bare, 40, Black, "king"), 0, White, "king"),
                            22, Black, "silver"), foe, White, "rook"),
           hand |-> InHand(NoHand, NoHand), side |-> Black, number |-> MaxMoveNumber - 1] : foe \in {13, 4, 15}}

MC_Openings == ChaseOpenings \cup TradeOpenings \cup PinOpenings \cup MateOpenings
MC_Menu == ChaseMenu \cup TradeMenu
=============================================================================
