------------------------------ MODULE ShogiLaw ------------------------------
(***************************************************************************)
(* What the move generator of ShogiRules ought to compute, stated without  *)
(* its tables and shortcuts, on the positions of the games of ShogiLine    *)
(* and of the walk of the brute-force search (src/brute.c): from a         *)
(* position, while the game goes on, every legal move, to a depth.         *)
(***************************************************************************)
EXTENDS ShogiLine

CONSTANTS
    WalkFrom     \* bound: the brute-force search starts from the openings whose
                 \* move number is at least this; MaxMoveNumber ends its walk

\* One call of negamax from another: every legal move is made on a copy.
Deepen ==
    /\ undos = <<>>
    /\ pos.number - (Len(past) - 1) >= WalkFrom
    /\ pos.number < MaxMoveNumber
    /\ GameResult(pos) = "ongoing"
    /\ \E m \in GenerateLegal(pos) : Play(m)

LawSpec == Init /\ [][Next \/ Deepen]_vars

-----------------------------------------------------------------------------
(***************************************************************************)
(* The law.  Nothing here uses the probe tables, the rays, the pins, the   *)
(* king cache or the order in which the generator works.                   *)
(***************************************************************************)
AttackedBy(board, c, target) ==
    \E s \in Squares : board[s].color = c /\ PieceAttacksSquare(board, s, target)

InCheckByLaw(board, c) ==
    \E s \in Squares : board[s] = Piece(c, "king") /\ AttackedBy(board, Opponent(c), s)

\* A piece that could not move from `to' even on an empty board.
Stuck(piece, to) ==
    LET alone == [s \in Squares |-> IF s = to THEN piece ELSE Empty]
    IN  \A s \in Squares : ~PieceAttacksSquare(alone, to, s)
StuckPieces == {<<Piece(c, t), to>> : c \in Colors, t \in {"pawn", "lance", "knight"},
                                      to \in 0..80}
IsStuck == [x \in StuckPieces |-> Stuck(x[1], x[2])]
NeverMoves(piece, to) == <<piece, to>> \in StuckPieces /\ IsStuck[<<piece, to>>]

\* A piece goes where it attacks, and may promote when it starts or ends in
\* the zone; it must when it could not move any more.
BoardMovesByLaw(p) ==
    {m \in [from : {s \in Squares : p.board[s].color = p.side}, to : Squares,
            promote : BOOLEAN] :
        LET piece == p.board[m.from] IN
        /\ PieceAttacksSquare(p.board, m.from, m.to)
        /\ p.board[m.to].color # p.side
        /\ p.board[m.to].type # "king"
        /\ m.promote => /\ piece.type \in Promotable
                        /\ {RowOf(m.from), RowOf(m.to)} \cap
                           (IF p.side = Black THEN 0..2 ELSE 6..8) # {}
        /\ ~m.promote => ~NeverMoves(piece, m.to)}

DropsByLaw(p) ==
    {d \in {t \in HandTypes : p.hand[p.side][t] > 0} \X {s \in Squares : p.board[s] = Empty} :
        /\ ~NeverMoves(Piece(p.side, d[1]), d[2])
        /\ d[1] = "pawn" =>
              ~\E s \in Squares : /\ ColOf(s) = ColOf(d[2])
                                  /\ p.board[s] = Piece(p.side, "pawn")}

AfterMove(p, m) ==
    LET piece == p.board[m.from]
        type == IF m.promote THEN PromotedType(piece.type) ELSE piece.type
    IN  [s \in Squares |-> IF s = m.from THEN Empty
                           ELSE IF s = m.to THEN Piece(p.side, type) ELSE p.board[s]]
AfterDrop(p, d) == [p.board EXCEPT ![d[2]] = Piece(p.side, d[1])]

SafeMoves(p) == {m \in BoardMovesByLaw(p) : ~InCheckByLaw(AfterMove(p, m), p.side)}
SafeDrops(p) == {d \in DropsByLaw(p) : ~InCheckByLaw(AfterDrop(p, d), p.side)}

\* A pawn may not be dropped to give mate.
PassAfterDrop(p, d) ==
    [board |-> AfterDrop(p, d), side |-> Opponent(p.side),
     hand |-> [p.hand EXCEPT ![p.side][d[1]] = @ - 1]]
DropsMate(p, d) ==
    LET q == PassAfterDrop(p, d)
    IN  InCheckByLaw(q.board, q.side) /\ SafeMoves(q) = {} /\ SafeDrops(q) = {}
LegalDropsByLaw(p) == {d \in SafeDrops(p) : d[1] = "pawn" => ~DropsMate(p, d)}

-----------------------------------------------------------------------------
(***************************************************************************)
(* Properties.                                                             *)
(***************************************************************************)
\* The laws are looked at where a search begins; the generator does not read
\* the flag of the bookkeeping.
AtRoot == undos = <<>> /\ bookkeeping

\* The generator's moves are the lawful ones, no more and no fewer: the moves
\* it accepts unprobed because neither check nor pin is against them, the
\* evasions, the promotions, two pawns on a file, dead ranks, the pawn drop
\* that mates.
LegalIsLawful == AtRoot =>
    LET legal == GenerateLegal(pos)
        byLaw == SafeMoves(pos)
    IN  /\ {[from |-> m.from, to |-> m.to, promote |-> m.promote] :
              m \in {n \in legal : ~IsDrop(n)}} = byLaw
        /\ {<<m.drop, m.to>> : m \in {n \in legal : IsDrop(n)}} = LegalDropsByLaw(pos)

=============================================================================
