----------------------------- MODULE ShogiRules -----------------------------
(***************************************************************************)
(* The rules of shogi as src/shogi.c computes them: which squares a piece  *)
(* attacks, whether a king is in check, the pseudo-legal and the legal     *)
(* moves, the declaration win.  The module is the algorithm, tables and    *)
(* shortcuts included; ShogiLaw says what the results ought to be.         *)
(*                                                                         *)
(* A piece, a byte in the code, is a record of its colour and its type; a  *)
(* board is a total function from the 81 squares.  The capacity of the     *)
(* move arrays (600) is left out.                                          *)
(***************************************************************************)
EXTENDS Integers, FiniteSets, Sequences

Black == "black"
White == "white"
Colors == {Black, White}
Opponent(c) == IF c = Black THEN White ELSE Black
Forward(c) == IF c = Black THEN -1 ELSE 1

\* The pieces a player may hold, in the order of their indices in the hand.
HandTypes == {"pawn", "lance", "knight", "silver", "gold", "bishop", "rook"}
GoldLike == {"gold", "pro_pawn", "pro_lance", "pro_knight", "pro_silver"}
Promotable == HandTypes \ {"gold"}
Types == HandTypes \cup GoldLike \cup {"king", "horse", "dragon"}

\* promoted_type and shogi_unpromoted_type.
PromotedType(t) ==
    CASE t = "pawn"   -> "pro_pawn"   [] t = "lance"  -> "pro_lance"
      [] t = "knight" -> "pro_knight" [] t = "silver" -> "pro_silver"
      [] t = "bishop" -> "horse"      [] t = "rook"   -> "dragon"
      [] OTHER -> t
UnpromotedType(t) ==
    CASE t = "pro_pawn"   -> "pawn"   [] t = "pro_lance"  -> "lance"
      [] t = "pro_knight" -> "knight" [] t = "pro_silver" -> "silver"
      [] t = "horse"      -> "bishop" [] t = "dragon"     -> "rook"
      [] OTHER -> t

Piece(c, t) == [color |-> c, type |-> t]
Empty == [color |-> "none", type |-> "empty"]
Pieces == [color : Colors, type : Types]

Squares == 0..80
NoSquare == 255                     \* SHOGI_SQ_NONE
RowOf(s) == s \div 9
ColOf(s) == s % 9
OnBoard(row, col) == row \in 0..8 /\ col \in 0..8
SquareAt(row, col) == 9 * row + col

PromotionZone(c, row) == IF c = Black THEN row <= 2 ELSE row >= 6

\* How far from the last rank a row is, seen by c: 0 on the last rank.
RanksLeft(c, row) == IF c = Black THEN row ELSE 8 - row
ForcedPromotion(c, t, row) ==
    \/ t \in {"pawn", "lance"} /\ RanksLeft(c, row) = 0
    \/ t = "knight" /\ RanksLeft(c, row) <= 1

Abs(n) == IF n < 0 THEN -n ELSE n

-----------------------------------------------------------------------------
(***************************************************************************)
(* Attacks.  The step attacks of a piece `dr' rows and `dc' columns away   *)
(* from its target, for a side that moves `forward'.                       *)
(***************************************************************************)
StepPieceAttacks(t, dr, dc, forward) ==
    \/ t = "pawn" /\ dr = forward /\ dc = 0
    \/ t = "knight" /\ dr = 2 * forward /\ dc \in {-1, 1}
    \/ t = "silver" /\ \/ dr = forward /\ dc \in -1..1
                       \/ dr = -forward /\ dc \in {-1, 1}
    \/ t \in GoldLike /\ \/ dr = forward /\ dc \in -1..1
                         \/ dr = 0 /\ dc \in {-1, 1}
                         \/ dr = -forward /\ dc = 0
    \/ t = "king" /\ dr \in -1..1 /\ dc \in -1..1 /\ (dr # 0 \/ dc # 0)
    \/ t = "horse" /\ Abs(dr) + Abs(dc) = 1
    \/ t = "dragon" /\ Abs(dr) = 1 /\ Abs(dc) = 1

\* The types that attack `target' from `s' by a step: one probe's piece_mask.
ProbeMask(attacker, target, s) ==
    {t \in Types : StepPieceAttacks(t, RowOf(target) - RowOf(s),
                                    ColOf(target) - ColOf(s), Forward(attacker))}

ProbeLimit == 10                    \* the length of one row of step_attack_probes

\* step_attack_probes: for each attacker and target the squares around the
\* target a step attack can come from.  A row of the table holds ProbeLimit
\* probes and silently drops the others.
StepAttackProbes ==
    [at \in Colors \X Squares |->
        LET attacker == at[1]
            target == at[2]
            near == {s \in Squares \ {target} :
                        /\ Abs(RowOf(s) - RowOf(target)) <= 2
                        /\ Abs(ColOf(s) - ColOf(target)) <= 2
                        /\ ProbeMask(attacker, target, s) # {}}
        IN  {[square |-> s, mask |-> ProbeMask(attacker, target, s)] :
                s \in {n \in near : Cardinality({b \in near : b < n}) < ProbeLimit}}]

\* The eight directions of the rays that leave a target.
Directions == {d \in (-1..1) \X (-1..1) : d # <<0, 0>>}
Diagonal(d) == d[1] # 0 /\ d[2] # 0

\* attack_rays: the squares met from s in direction d, nearest first.
AttackRays ==
    [at \in Squares \X Directions |->
        LET s == at[1]
            d == at[2]
            length == Cardinality({n \in 1..8 :
                          OnBoard(RowOf(s) + n * d[1], ColOf(s) + n * d[2])})
        IN  [n \in 1..length |->
                SquareAt(RowOf(s) + n * d[1], ColOf(s) + n * d[2])]]

\* attack_ray_masks: the types of the attacker that slide along the ray d back
\* to the square it leaves.
RayMask(attacker, d) ==
    IF Diagonal(d) THEN {"bishop", "horse"}
    ELSE {"rook", "dragon"} \cup
         (IF d[2] = 0 /\ d[1] = -Forward(attacker) THEN {"lance"} ELSE {})

\* The indices of the occupied squares of a ray.
OccupiedOn(board, ray) == {n \in DOMAIN ray : board[ray[n]] # Empty}
Nearest(indices) == CHOOSE n \in indices : \A m \in indices : n <= m

StepSquareAttacked(board, target, attacker) ==
    \E probe \in StepAttackProbes[attacker, target] :
        /\ board[probe.square].color = attacker
        /\ board[probe.square].type \in probe.mask

SquareAttacked(board, target, attacker) ==
    \/ StepSquareAttacked(board, target, attacker)
    \/ \E d \in Directions :
          LET ray  == AttackRays[target, d]
              seen == OccupiedOn(board, ray)
          IN  /\ seen # {}
              /\ LET first == board[ray[Nearest(seen)]]
                 IN  first.color = attacker /\ first.type \in RayMask(attacker, d)

Sign(n) == IF n > 0 THEN 1 ELSE IF n < 0 THEN -1 ELSE 0

\* shogi_piece_attacks_square: the geometry of one piece, without the tables.
PieceAttacksSquare(board, from, to) ==
    LET piece   == board[from]
        dr      == RowOf(to) - RowOf(from)
        dc      == ColOf(to) - ColOf(from)
        forward == Forward(piece.color)
        slides  == \/ Abs(dr) = Abs(dc) /\ piece.type \in {"bishop", "horse"}
                   \/ (dr = 0 \/ dc = 0) /\ piece.type \in {"rook", "dragon"}
                   \/ dc = 0 /\ dr * forward > 0 /\ piece.type = "lance"
        distance == IF Abs(dr) > Abs(dc) THEN Abs(dr) ELSE Abs(dc)
    IN  /\ from # to
        /\ piece # Empty
        /\ \/ StepPieceAttacks(piece.type, dr, dc, forward)
           \/ /\ slides
              /\ \A n \in 1..(distance - 1) :
                    board[SquareAt(RowOf(from) + n * Sign(dr),
                                   ColOf(from) + n * Sign(dc))] = Empty

-----------------------------------------------------------------------------
(***************************************************************************)
(* A position p has a board, the hands, the side to move and the cached    *)
(* squares of the kings (ShogiLine adds the hash and the history).         *)
(***************************************************************************)
KingSquares(board, c) == {s \in Squares : board[s] = Piece(c, "king")}

\* find_king: the cached square when it is right, else a scan of the board.
FindKing(p, c) ==
    LET kings == KingSquares(p.board, c) IN
    IF p.king[c] \in kings THEN p.king[c]
    ELSE IF kings = {} THEN NoSquare ELSE Nearest(kings)

IsInCheck(p, c) ==
    LET king == FindKing(p, c)
    IN  king # NoSquare /\ SquareAttacked(p.board, king, Opponent(c))

\* same_king_ray: `to' is on the same side of the king as `from', on one line.
SameKingRay(king, from, to) ==
    LET dr == RowOf(from) - RowOf(king)    dc == ColOf(from) - ColOf(king)
        tr == RowOf(to) - RowOf(king)      tc == ColOf(to) - ColOf(king)
    IN  /\ CASE dr = 0 -> tr = 0
             [] dr # 0 /\ dc = 0 -> tc = 0
             [] OTHER -> Abs(dr) = Abs(dc) /\ Abs(tr) = Abs(tc) /\ dr * tc = dc * tr
        /\ dr * tr + dc * tc > 0

\* The square pinned to the king along d, as a set of at most one square: the
\* first piece of the ray is the mover's and the second an attacker that slides.
PinnedOn(board, king, mover, d) ==
    LET ray  == AttackRays[king, d]
        seen == OccupiedOn(board, ray)
        n1   == Nearest(seen)
        n2   == Nearest(seen \ {n1})
    IN  IF /\ Cardinality(seen) >= 2
           /\ board[ray[n1]].color = mover
           /\ board[ray[n2]].color = Opponent(mover)
           /\ board[ray[n2]].type \in RayMask(Opponent(mover), d)
        THEN {ray[n1]} ELSE {}

\* king_safety_prepare: computed once for a position, before its moves are
\* filtered.
KingSafety(p, mover) ==
    LET king == FindKing(p, mover) IN
    IF king = NoSquare
    THEN [valid |-> FALSE, king |-> king, in_check |-> FALSE, pinned |-> {}]
    ELSE [valid |-> TRUE, king |-> king,
          in_check |-> SquareAttacked(p.board, king, Opponent(mover)),
          pinned |-> UNION {PinnedOn(p.board, king, mover, d) : d \in Directions}]

-----------------------------------------------------------------------------
(***************************************************************************)
(* Pseudo-legal moves: how the pieces go, whatever becomes of the king.    *)
(***************************************************************************)
Moves == [from : Squares \cup {NoSquare}, to : Squares,
          piece : Pieces \cup {Empty}, promote : BOOLEAN,
          drop : HandTypes \cup {"empty"}]

\* The steps and the slides generate_pseudo_for_color gives each type.
StepsOf(t, f) ==
    CASE t = "pawn"   -> {<<f, 0>>}
      [] t = "knight" -> {<<2 * f, -1>>, <<2 * f, 1>>}
      [] t = "silver" -> {<<f, -1>>, <<f, 0>>, <<f, 1>>, <<-f, -1>>, <<-f, 1>>}
      [] t \in GoldLike -> {<<f, -1>>, <<f, 0>>, <<f, 1>>, <<0, -1>>, <<0, 1>>, <<-f, 0>>}
      [] t = "king"   -> Directions
      [] t = "horse"  -> {d \in Directions : ~Diagonal(d)}
      [] t = "dragon" -> {d \in Directions : Diagonal(d)}
      [] OTHER -> {}
SlidesOf(t, f) ==
    CASE t = "lance" -> {<<f, 0>>}
      [] t \in {"bishop", "horse"} -> {d \in Directions : Diagonal(d)}
      [] t \in {"rook", "dragon"}  -> {d \in Directions : ~Diagonal(d)}
      [] OTHER -> {}

\* A piece may land on an empty square or take an enemy piece, never a king.
MayLand(board, c, to) ==
    board[to] = Empty \/ (board[to].color # c /\ board[to].type # "king")

StepTargets(board, from) ==
    LET c == board[from].color
        steps == StepsOf(board[from].type, Forward(c))
    IN  {SquareAt(RowOf(from) + d[1], ColOf(from) + d[2]) :
            d \in {e \in steps : OnBoard(RowOf(from) + e[1], ColOf(from) + e[2])}}

\* A slide passes over empty squares and ends on the first occupied one.
SlideTargets(board, from) ==
    UNION {LET ray == AttackRays[from, d]
               seen == OccupiedOn(board, ray)
               last == IF seen = {} THEN Len(ray) ELSE Nearest(seen)
           IN  {ray[n] : n \in 1..last} :
           d \in SlidesOf(board[from].type, Forward(board[from].color))}

\* add_normal_move: the promotions offered with a move.
PromotionChoices(piece, from, to) ==
    LET possible == /\ piece.type \in Promotable
                    /\ \/ PromotionZone(piece.color, RowOf(from))
                       \/ PromotionZone(piece.color, RowOf(to))
    IN  IF ForcedPromotion(piece.color, piece.type, RowOf(to)) THEN {TRUE}
        ELSE IF possible THEN BOOLEAN ELSE {FALSE}

PseudoBoardMoves(board, c) ==
    UNION {UNION {{[from |-> from, to |-> to, piece |-> board[from],
                    promote |-> choice, drop |-> "empty"] :
                      choice \in PromotionChoices(board[from], from, to)} :
                  to \in {t \in StepTargets(board, from) \cup SlideTargets(board, from) :
                             MayLand(board, c, t)}} :
           from \in {s \in Squares : board[s].color = c}}

\* add_pseudo_drops: two pawns on a file and pieces that could never move are
\* excluded here; the pawn drop that mates is left to the legal generator.
PseudoDrops(p, c) ==
    LET pawnFiles == {ColOf(s) : s \in {q \in Squares : p.board[q] = Piece(c, "pawn")}}
        dead(t, row) == \/ t \in {"pawn", "lance", "knight"} /\ RanksLeft(c, row) = 0
                        \/ t = "knight" /\ RanksLeft(c, row) = 1
    IN  {[from |-> NoSquare, to |-> d[1], piece |-> Empty, promote |-> FALSE, drop |-> d[2]] :
            d \in {e \in {s \in Squares : p.board[s] = Empty}
                        \X {t \in HandTypes : p.hand[c][t] # 0} :
                      /\ ~dead(e[2], RowOf(e[1]))
                      /\ ~(e[2] = "pawn" /\ ColOf(e[1]) \in pawnFiles)}}

GeneratePseudo(p, c) == PseudoBoardMoves(p.board, c) \cup PseudoDrops(p, c)

-----------------------------------------------------------------------------
(***************************************************************************)
(* Legal moves.  The generator plays a candidate on the position itself    *)
(* (board, hand, king cache and side only), looks at it and takes it back. *)
(***************************************************************************)
IsDrop(m) == m.from = NoSquare

\* The piece a move leaves on its target.
Landed(board, c, m) ==
    IF IsDrop(m) THEN Piece(c, m.drop)
    ELSE IF m.promote THEN Piece(c, PromotedType(board[m.from].type))
    ELSE board[m.from]

MakeLegalProbe(p, m) ==
    LET c == p.side
        landed == Landed(p.board, c, m)
        hand == p.hand[c]
        taken == UnpromotedType(p.board[m.to].type)
    IN  [p EXCEPT
           !.board = IF IsDrop(m) THEN [@ EXCEPT ![m.to] = landed]
                     ELSE [@ EXCEPT ![m.from] = Empty, ![m.to] = landed],
           !.hand[c] = IF IsDrop(m) THEN [hand EXCEPT ![m.drop] = hand[m.drop] - 1]
                       ELSE IF p.board[m.to] = Empty THEN hand
                       ELSE [hand EXCEPT ![taken] = hand[taken] + 1],
           !.king[c] = IF landed.type = "king" THEN m.to ELSE @,
           !.side = Opponent(c)]

\* What the probe remembers; "none" is hand_index UINT8_MAX.
LegalProbeUndo(p, m) ==
    LET c == p.side
        captured == IF IsDrop(m) THEN Empty ELSE p.board[m.to]
        index == IF IsDrop(m) THEN m.drop
                 ELSE IF captured = Empty THEN "none" ELSE UnpromotedType(captured.type)
    IN  [move |-> m, color |-> c, captured |-> captured, king |-> p.king[c],
         index |-> index, before |-> IF index = "none" THEN 0 ELSE p.hand[c][index]]

UnmakeLegalProbe(p, u) ==
    [p EXCEPT
       !.side = u.color,
       !.king[u.color] = u.king,
       !.board = IF IsDrop(u.move) THEN [@ EXCEPT ![u.move.to] = Empty]
                 ELSE [@ EXCEPT ![u.move.from] = u.move.piece, ![u.move.to] = u.captured],
       !.hand[u.color] = IF u.index = "none" THEN @ ELSE [@ EXCEPT ![u.index] = u.before]]

\* Mutant: evasions accepted unseen.
Bug_NoCheckProbe(p, safety, m) ==
    \/ ~safety.valid \/ IsDrop(m)
    \/ p.board[m.from].type = "king"
    \/ m.from \in safety.pinned /\ ~SameKingRay(safety.king, m.from, m.to)

\* Whether the shortcut of the generator does not apply to a move.
NeedsProbe(p, safety, m) ==
    \/ ~safety.valid \/ safety.in_check \/ IsDrop(m)
    \/ p.board[m.from].type = "king"
    \/ m.from \in safety.pinned /\ ~SameKingRay(safety.king, m.from, m.to)

\* The candidates that do not leave the own king attacked.
ExposureFree(p) ==
    LET safety == KingSafety(p, p.side) IN
    {m \in GeneratePseudo(p, p.side) :
        NeedsProbe(p, safety, m) => ~IsInCheck(MakeLegalProbe(p, m), p.side)}

\* A pawn dropped with check, seen in the position q after it.
PawnDropChecks(m, q) == IsDrop(m) /\ m.drop = "pawn" /\ IsInCheck(q, q.side)

\* The generator's call of itself for the replies to a pawn drop with check.
\* The call would look in turn at a reply that is again a pawn drop with check;
\* there is none if the king was not in check before the drop, as it is not
\* after any legal move: the pawn attacks by a step, and no drop comes between
\* (NoDropAnswersAPawn in Shogi_proofs).
NoReply(q) == ExposureFree(q) = {}

\* generate_legal_mut_internal
GenerateLegal(p) ==
    {m \in ExposureFree(p) :
        LET q == MakeLegalProbe(p, m) IN PawnDropChecks(m, q) => ~NoReply(q)}

-----------------------------------------------------------------------------
(***************************************************************************)
(* Declaration by an entering king.                                        *)
(***************************************************************************)
CampOf(p, c) == {s \in Squares : /\ p.board[s].color = c
                                 /\ p.board[s].type # "king"
                                 /\ PromotionZone(c, RowOf(s))}
IsMajor(t) == t \in {"bishop", "rook", "horse", "dragon"}
DeclarationPoints(p, c) ==
    LET camp == CampOf(p, c)
        majors == Cardinality({s \in camp : IsMajor(p.board[s].type)})
        h == p.hand[c]
    IN  4 * majors + Cardinality(camp)
        + h["pawn"] + h["lance"] + h["knight"] + h["silver"] + h["gold"]
        + 5 * (h["bishop"] + h["rook"])
IsDeclarationWin(p, c) ==
    LET king == FindKing(p, c)
    IN  /\ king # NoSquare
        /\ PromotionZone(c, RowOf(king))
        /\ ~IsInCheck(p, c)
        /\ Cardinality(CampOf(p, c)) >= 10
        /\ DeclarationPoints(p, c) >= (IF c = Black THEN 28 ELSE 27)
=============================================================================
