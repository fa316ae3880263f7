---------------------------- MODULE Shogi_proofs ----------------------------
(***************************************************************************)
(* Moves, lines of moves, and the evaluator state that follows them.       *)
(*                                                                         *)
(* 1. ShogiMake: what making and unmaking a move do to any position and    *)
(*    for any move: the fast path is the trusted path, unmaking restores,  *)
(*    the hash and the king cache stay right.  Only the guards of the code *)
(*    are assumed.                                                         *)
(* 2. ShogiLine: a position that lives through a game and through the      *)
(*    searches on it keeps its hash, its king cache and its way back,      *)
(*    whatever the openings, the moves and the limits.  The inductive      *)
(*    invariant says it of every position of the line searched: taking a   *)
(*    move back is sound because the position it leads to was sound when   *)
(*    it was left.  A second invariant says which of the referee's notes   *)
(*    each position of the line was written at: the repetition verdict     *)
(*    follows from it.                                                     *)
(* 3. NnueState: the sum kept up by deltas is the sum computed afresh.  A  *)
(*    move shifts exactly the features the code shifts; positions of one   *)
(*    hash have one sum, so the caches may answer; and the invariant says  *)
(*    of each level of each state which position of the line it is of.     *)
(* 4. ShogiLaw: the generator's moves are the lawful ones.  Its tables of  *)
(*    rays, steps and probes are the geometry of the pieces, so its attack *)
(*    queries are right; the moves it accepts without a probe leave the    *)
(*    king safe, because a piece that stands between the king and a slider *)
(*    is among the pinned and a pinned piece that keeps to its line still  *)
(*    stands between; and it refuses the pawn drops that mate.  This holds *)
(*    of any board with one king a side, hence along every game.           *)
(***************************************************************************)
EXTENDS NnueState, ShogiLaw, SequenceTheorems, FiniteSetTheorems, WellFoundedInduction, TLAPS

-----------------------------------------------------------------------------
(***************************************************************************)
(* 1.  ShogiMake: one move.                                                *)
(***************************************************************************)
\* The geometry of the board is not needed here.
LEMMA PieceFacts ==
    /\ Empty \notin Pieces
    /\ \A t \in Types : PromotedType(t) \in Types
    /\ \A t \in Types \ {"king"} : UnpromotedType(t) \in HandTypes
    /\ \A t \in Types : PromotedType(t) = "king" <=> t = "king"
    /\ \A t \in HandTypes : t \in Types /\ t # "king"
    /\ \A c \in Colors : Opponent(c) \in Colors /\ Opponent(c) # c
  BY DEF Empty, Pieces, Types, PromotedType, UnpromotedType, HandTypes, GoldLike,
         Colors, Opponent, Black, White

\* What the guards say of a board move and of a drop.
LEMMA StepFacts ==
  ASSUME NEW p \in Positions, NEW m, CanMake(p, m), ~IsDrop(m)
  PROVE  /\ m.from \in Squares /\ m.to \in Squares /\ m.from # m.to
         /\ p.board[m.from] \in Pieces
         /\ p.board[m.from].color = p.side
         /\ p.board[m.to] # Empty =>
               /\ p.board[m.to] \in Pieces
               /\ p.board[m.to].color = Opponent(p.side)
               /\ p.board[m.to].type # "king"
               /\ UnpromotedType(p.board[m.to].type) \in HandTypes
               /\ p.hand[p.side][UnpromotedType(p.board[m.to].type)] \in 0..(MaxInHand - 1)
  <1>1. m.from \in Squares /\ m.to \in Squares /\ p.board[m.from].color = p.side
    BY DEF CanMake, CanStep
  <1>2. /\ p.side \in Colors /\ p.board \in [Squares -> Pieces \cup {Empty}]
        /\ p.hand \in [Colors -> [HandTypes -> 0..MaxInHand]]
    BY DEF Positions, Boards, Hands
  <1>3. p.board[m.from] # Empty
    BY <1>1, <1>2 DEF Empty, Colors, Black, White
  <1>4. p.board[m.from] \in Pieces
    BY <1>1, <1>2, <1>3
  <1>5. CanCapture(p, p.board[m.to])
    BY DEF CanMake, CanStep
  <1>6. ASSUME p.board[m.to] # Empty
        PROVE  /\ p.board[m.to] \in Pieces
               /\ p.board[m.to].color = Opponent(p.side)
               /\ p.board[m.to].type # "king"
               /\ UnpromotedType(p.board[m.to].type) \in HandTypes
               /\ p.hand[p.side][UnpromotedType(p.board[m.to].type)] \in 0..(MaxInHand - 1)
    <2>1. p.board[m.to] \in Pieces
      BY <1>1, <1>2, <1>6
    <2>2. /\ p.board[m.to].color = Opponent(p.side)
          /\ p.board[m.to].type # "king"
          /\ p.hand[p.side][UnpromotedType(p.board[m.to].type)] < MaxInHand
      BY <1>5, <1>6 DEF CanCapture
    <2>3. UnpromotedType(p.board[m.to].type) \in HandTypes
      BY <2>1, <2>2, PieceFacts DEF Pieces
    <2>4. p.hand[p.side][UnpromotedType(p.board[m.to].type)] \in 0..MaxInHand
      BY <1>2, <2>3
    <2> QED
      BY <2>1, <2>2, <2>3, <2>4, LimitsAssumption DEF LimitsAssumption
  <1>7. m.from # m.to
    <2> SUFFICES ASSUME m.from = m.to PROVE FALSE
      OBVIOUS
    <2>1. p.board[m.to].color = Opponent(p.side)
      BY <1>3, <1>6
    <2> QED
      BY <2>1, <1>1, <1>2, PieceFacts
  <1> QED
    BY <1>1, <1>4, <1>6, <1>7

LEMMA DropFacts ==
  ASSUME NEW p \in Positions, NEW m, CanMake(p, m), IsDrop(m)
  PROVE  /\ m.to \in Squares /\ p.board[m.to] = Empty
         /\ m.drop \in HandTypes /\ ~m.promote
         /\ p.hand[p.side][m.drop] \in 1..MaxInHand
         /\ Piece(p.side, m.drop) \in Pieces
  <1>1. p.side \in Colors
    BY DEF Positions
  <1>2. /\ m.to \in Squares /\ p.board[m.to] = Empty
        /\ m.drop \in HandTypes /\ ~m.promote
        /\ p.hand[p.side][m.drop] \in 1..MaxInHand
    BY DEF CanMake, CanDrop
  <1> QED
    BY <1>1, <1>2, PieceFacts DEF Piece, Pieces

-----------------------------------------------------------------------------
(***************************************************************************)
(* The two ways to make a move, written twice in the code, accept the same *)
(* moves, remember the same and lead to the same position.                 *)
(***************************************************************************)
THEOREM FastIsTrusted ==
  ASSUME NEW p \in Positions, NEW m
  PROVE  /\ CanMakeFast(p, m) <=> CanMake(p, m)
         /\ CanMake(p, m) => /\ UndoFast(p, m) = Undo(p, m)
                             /\ \A b \in BOOLEAN : MakeMoveFast(p, m, b) = MakeMove(p, m, b)
  <1>1. CanMakeFast(p, m) <=> CanMake(p, m)
    BY DEF CanMakeFast, CanMake, CanDrop, CanStep, CanCapture
  <1>2. UndoFast(p, m) = Undo(p, m)
    BY DEF UndoFast, Undo
  <1>3. ASSUME CanMake(p, m), NEW b \in BOOLEAN
        PROVE  MakeMoveFast(p, m, b) = MakeMove(p, m, b)
    <2> DEFINE u == UndoFast(p, m)
               landed == IF ~IsDrop(m) /\ m.promote THEN Piece(p.side, PromotedType(u.moving.type))
                         ELSE u.moving
               board == IF IsDrop(m) THEN [p.board EXCEPT ![m.to] = landed]
                        ELSE [p.board EXCEPT ![m.from] = Empty, ![m.to] = landed]
               hand == IF u.touched
                       THEN [p.hand EXCEPT ![p.side][u.index] =
                                IF IsDrop(m) THEN u.before - 1 ELSE u.before + 1]
                       ELSE p.hand
               king == IF landed.type = "king" THEN [p.king EXCEPT ![p.side] = m.to] ELSE p.king
               turned == Xor(p.hash, {SideKey})
               lifted == IF IsDrop(m) THEN Xor(turned, Recount(p.side, u.index, u.before, u.before - 1))
                         ELSE IF u.captured = Empty
                         THEN Xor(turned, {BoardKey(m.from, u.moving)})
                         ELSE Xor(Xor(Xor(turned, {BoardKey(m.from, u.moving)}),
                                      {BoardKey(m.to, u.captured)}),
                                  Recount(p.side, u.index, u.before, u.before + 1))
               hash == Xor(lifted, {BoardKey(m.to, landed)})
    <2>1. landed = Landed(p.board, p.side, m)
      <3>1. CASE IsDrop(m)
        BY <3>1, <1>3, DropFacts DEF UndoFast, Landed
      <3>2. CASE ~IsDrop(m)
        BY <3>2 DEF UndoFast, Landed
      <3> QED BY <3>1, <3>2
    <2>2. board = BoardAfter(p, m)
      BY <2>1 DEF BoardAfter
    <2>3. king = KingAfter(p, m)
      BY <2>1 DEF KingAfter
    <2>4. u.touched <=> (IsDrop(m) \/ p.board[m.to] # Empty)
      BY DEF UndoFast
    <2>5. CASE IsDrop(m)
      <3>1. u.index = m.drop /\ u.before = p.hand[p.side][m.drop] /\ u.touched
        BY <2>5 DEF UndoFast
      <3>2. hand = HandAfter(p, m)
        BY <2>5, <3>1 DEF HandAfter
      <3>3. hash = HashAfter(p, m)
        BY <2>5, <2>1, <3>1 DEF HashAfter
      <3> HIDE DEF landed, board, hand, king, hash, lifted, turned, u
      <3>4. MakeMoveFast(p, m, b)
            = Recorded([p EXCEPT !.board = board, !.hand = hand, !.king = king, !.hash = hash,
                                 !.side = Opponent(p.side), !.number = @ + 1], p.side, b)
        BY DEF MakeMoveFast, landed, board, hand, king, hash, lifted, turned, u
      <3> QED
        BY <3>4, <3>2, <3>3, <2>2, <2>3 DEF MakeMove
    <2>6. CASE ~IsDrop(m)
      <3>1. /\ u.moving = p.board[m.from] /\ u.captured = p.board[m.to]
            /\ u.index = UnpromotedType(p.board[m.to].type)
            /\ p.board[m.to] # Empty =>
                  u.before = p.hand[p.side][UnpromotedType(p.board[m.to].type)]
        BY <2>6 DEF UndoFast
      <3>2. hand = HandAfter(p, m)
        BY <2>6, <2>4, <3>1 DEF HandAfter
      <3>3. hash = HashAfter(p, m)
        BY <2>6, <2>1, <3>1 DEF HashAfter
      <3> HIDE DEF landed, board, hand, king, hash, lifted, turned, u
      <3>4. MakeMoveFast(p, m, b)
            = Recorded([p EXCEPT !.board = board, !.hand = hand, !.king = king, !.hash = hash,
                                 !.side = Opponent(p.side), !.number = @ + 1], p.side, b)
        BY DEF MakeMoveFast, landed, board, hand, king, hash, lifted, turned, u
      <3> QED
        BY <3>4, <3>2, <3>3, <2>2, <2>3 DEF MakeMove
    <2> QED
      BY <2>5, <2>6
  <1> QED
    BY <1>1, <1>2, <1>3


-----------------------------------------------------------------------------
(***************************************************************************)
(* Making a move keeps a position within its types.                        *)
(***************************************************************************)
LEMMA BoardAfterTyped ==
  ASSUME NEW p \in Positions, NEW m, CanMake(p, m)
  PROVE  /\ BoardAfter(p, m) \in Boards
         /\ Landed(p.board, p.side, m) \in Pieces
  <1>0. p.board \in Boards /\ p.side \in Colors
    BY DEF Positions
  <1>1. Landed(p.board, p.side, m) \in Pieces
    <2>1. CASE IsDrop(m)
      BY <2>1, DropFacts DEF Landed
    <2>2. CASE ~IsDrop(m) /\ m.promote
      BY <2>2, <1>0, StepFacts, PieceFacts DEF Landed, Piece, Pieces
    <2>3. CASE ~IsDrop(m) /\ ~m.promote
      BY <2>3, StepFacts DEF Landed
    <2> QED BY <2>1, <2>2, <2>3
  <1>2. BoardAfter(p, m) \in Boards
    BY <1>0, <1>1, StepFacts, DropFacts DEF BoardAfter, Boards
  <1> QED
    BY <1>1, <1>2

LEMMA HandAfterTyped ==
  ASSUME NEW p \in Positions, NEW m, CanMake(p, m)
  PROVE  HandAfter(p, m) \in Hands
  <1>0. p.hand \in [Colors -> [HandTypes -> 0..MaxInHand]] /\ p.side \in Colors
    BY DEF Positions, Hands
  <1>1. MaxInHand \in Nat
    BY LimitsAssumption DEF LimitsAssumption
  <1>2. ASSUME NEW t \in HandTypes, NEW n \in 0..MaxInHand
        PROVE  [p.hand EXCEPT ![p.side][t] = n] \in Hands
    BY <1>0 DEF Hands
  <1>3. CASE IsDrop(m)
    <2>1. p.hand[p.side][m.drop] - 1 \in 0..MaxInHand /\ m.drop \in HandTypes
      BY <1>3, <1>1, DropFacts
    <2> QED
      BY <2>1, <1>2, <1>3 DEF HandAfter
  <1>4. CASE ~IsDrop(m) /\ p.board[m.to] # Empty
    <2>1. /\ p.hand[p.side][UnpromotedType(p.board[m.to].type)] + 1 \in 0..MaxInHand
          /\ UnpromotedType(p.board[m.to].type) \in HandTypes
      BY <1>4, <1>1, StepFacts
    <2> QED
      BY <2>1, <1>2, <1>4 DEF HandAfter
  <1>5. CASE ~IsDrop(m) /\ p.board[m.to] = Empty
    BY <1>5, <1>0 DEF HandAfter, Hands
  <1> QED
    BY <1>3, <1>4, <1>5

LEMMA XorTyped ==
  ASSUME NEW S, NEW A \in SUBSET S, NEW B \in SUBSET S
  PROVE  Xor(A, B) \in SUBSET S
  BY DEF Xor

LEMMA KeysTyped ==
  /\ \A s \in Squares, piece \in Pieces : {BoardKey(s, piece)} \in SUBSET Keys
  /\ \A c \in Colors, t \in HandTypes, n \in 0..MaxInHand : {HandKey(c, t, n)} \in SUBSET Keys
  /\ {SideKey} \in SUBSET Keys
  BY DEF Keys

LEMMA HashAfterTyped ==
  ASSUME NEW p \in Positions, NEW m, CanMake(p, m)
  PROVE  HashAfter(p, m) \in SUBSET Keys
  <1> DEFINE c == p.side
             captured == p.board[m.to]
             t == UnpromotedType(captured.type)
             turned == Xor(p.hash, {SideKey})
             lifted == IF IsDrop(m)
                       THEN Xor(turned, Recount(c, m.drop, p.hand[c][m.drop],
                                                p.hand[c][m.drop] - 1))
                       ELSE Xor(turned, {BoardKey(m.from, p.board[m.from])})
             taken == IF IsDrop(m) \/ captured = Empty THEN lifted
                      ELSE Xor(Xor(lifted, {BoardKey(m.to, captured)}),
                               Recount(c, t, p.hand[c][t], p.hand[c][t] + 1))
  <1>0. c \in Colors /\ p.hash \in SUBSET Keys
    BY DEF Positions
  <1>1. MaxInHand \in Nat
    BY LimitsAssumption DEF LimitsAssumption
  <1>2. \A u \in HandTypes, n, k \in 0..MaxInHand : Recount(c, u, n, k) \in SUBSET Keys
    BY <1>0, KeysTyped, XorTyped DEF Recount
  <1>3. turned \in SUBSET Keys
    BY <1>0, KeysTyped, XorTyped
  <1>4. Xor(taken, {BoardKey(m.to, Landed(p.board, c, m))}) \in SUBSET Keys
    <2>1. /\ m.to \in Squares
          /\ {BoardKey(m.to, Landed(p.board, c, m))} \in SUBSET Keys
      BY BoardAfterTyped, KeysTyped DEF CanMake
    <2>2. CASE IsDrop(m)
      <3>1. /\ m.drop \in HandTypes
            /\ p.hand[c][m.drop] \in 0..MaxInHand
            /\ p.hand[c][m.drop] - 1 \in 0..MaxInHand
        BY <2>2, <1>1, DropFacts
      <3>2. Recount(c, m.drop, p.hand[c][m.drop], p.hand[c][m.drop] - 1) \in SUBSET Keys
        BY <3>1, <1>2
      <3>3. taken = Xor(turned, Recount(c, m.drop, p.hand[c][m.drop], p.hand[c][m.drop] - 1))
        BY <2>2
      <3> HIDE DEF taken, turned
      <3> QED
        BY <3>2, <3>3, <1>3, <2>1, XorTyped
    <2>3. CASE ~IsDrop(m)
      <3>1. {BoardKey(m.from, p.board[m.from])} \in SUBSET Keys
        BY <2>3, StepFacts, KeysTyped
      <3>2. Xor(turned, {BoardKey(m.from, p.board[m.from])}) \in SUBSET Keys
        BY <3>1, <1>3, XorTyped
      <3>3. CASE captured = Empty
        <4>1. taken = Xor(turned, {BoardKey(m.from, p.board[m.from])})
          BY <2>3, <3>3
        <4> HIDE DEF taken, turned
        <4> QED
          BY <4>1, <3>2, <2>1, XorTyped
      <3>4. CASE captured # Empty
        <4>1. /\ captured \in Pieces /\ t \in HandTypes
              /\ p.hand[c][t] \in 0..MaxInHand /\ p.hand[c][t] + 1 \in 0..MaxInHand
          BY <2>3, <3>4, <1>1, StepFacts
        <4>2. /\ {BoardKey(m.to, captured)} \in SUBSET Keys
              /\ Recount(c, t, p.hand[c][t], p.hand[c][t] + 1) \in SUBSET Keys
          BY <4>1, <2>1, <1>2, KeysTyped
        <4>3. taken = Xor(Xor(Xor(turned, {BoardKey(m.from, p.board[m.from])}),
                              {BoardKey(m.to, captured)}),
                          Recount(c, t, p.hand[c][t], p.hand[c][t] + 1))
          BY <2>3, <3>4
        <4> DEFINE A == Xor(turned, {BoardKey(m.from, p.board[m.from])})
                   B == {BoardKey(m.to, captured)}
                   C == Recount(c, t, p.hand[c][t], p.hand[c][t] + 1)
        <4>4. A \in SUBSET Keys /\ B \in SUBSET Keys /\ C \in SUBSET Keys /\ taken = Xor(Xor(A, B), C)
          BY <3>2, <4>2, <4>3
        <4> HIDE DEF taken, turned, captured, t, A, B, C
        <4>5. Xor(A, B) \in SUBSET Keys
          BY <4>4, XorTyped
        <4>6. taken \in SUBSET Keys
          BY <4>4, <4>5, XorTyped
        <4> QED
          BY <4>6, <2>1, XorTyped
      <3> QED BY <3>3, <3>4
    <2> QED BY <2>2, <2>3
  <1> QED
    BY <1>4 DEF HashAfter

LEMMA RecordedTyped ==
  ASSUME NEW q \in Positions, NEW mover \in Colors, NEW b \in BOOLEAN
  PROVE  Recorded(q, mover, b) \in Positions
  <1> DEFINE e == [hash |-> q.hash, mover |-> mover, check |-> b /\ IsInCheck(q, q.side)]
  <1>1. e \in HistoryEntries
    BY DEF Positions, HistoryEntries
  <1>2. CASE Len(q.history) < MaxHistory
    <2>1. q.history \in Seq(HistoryEntries) /\ Len(q.history) \in 1..MaxHistory
      BY DEF Positions
    <2> HIDE DEF e
    <2>2. /\ Append(q.history, e) \in Seq(HistoryEntries)
          /\ Len(Append(q.history, e)) = Len(q.history) + 1
      BY <1>1, <2>1
    <2>3. Len(Append(q.history, e)) \in 1..MaxHistory
      BY <1>2, <2>1, <2>2, LimitsAssumption DEF LimitsAssumption
    <2>4. [q EXCEPT !.history = Append(@, e)] \in Positions
      BY <2>2, <2>3 DEF Positions
    <2> QED
      BY <2>4, <1>2 DEF Recorded, e
  <1>3. CASE ~(Len(q.history) < MaxHistory)
    BY <1>3 DEF Recorded
  <1> QED
    BY <1>2, <1>3


\* Recording a move changes nothing but the history, and that only at its end.
LEMMA RecordedFields ==
  ASSUME NEW q \in Positions, NEW mover \in Colors, NEW b \in BOOLEAN
  PROVE  LET r == Recorded(q, mover, b) IN
         /\ r.board = q.board /\ r.hand = q.hand /\ r.side = q.side
         /\ r.number = q.number /\ r.hash = q.hash /\ r.king = q.king
         /\ Len(r.history) >= Len(q.history)
         /\ \A i \in 1..Len(q.history) : r.history[i] = q.history[i]
  <1> DEFINE e == [hash |-> q.hash, mover |-> mover, check |-> b /\ IsInCheck(q, q.side)]
             r == Recorded(q, mover, b)
  <1>0. q.history \in Seq(HistoryEntries)
    BY DEF Positions
  <1>1. CASE Len(q.history) < MaxHistory
    <2>1. r = [q EXCEPT !.history = Append(@, e)]
      BY <1>1 DEF Recorded
    <2> HIDE DEF e, r
    <2>2. /\ r.board = q.board /\ r.hand = q.hand /\ r.side = q.side
          /\ r.number = q.number /\ r.hash = q.hash /\ r.king = q.king
          /\ r.history = Append(q.history, e)
      BY <2>1 DEF Positions
    <2>3. /\ Len(Append(q.history, e)) = Len(q.history) + 1
          /\ \A i \in 1..Len(q.history) : Append(q.history, e)[i] = q.history[i]
      BY <1>0
    <2>4. Len(q.history) \in Nat
      BY <1>0
    <2>5. /\ Len(r.history) >= Len(q.history)
          /\ \A i \in 1..Len(q.history) : r.history[i] = q.history[i]
      BY <2>2, <2>3, <2>4
    <2> QED
      BY <2>2, <2>5 DEF r
  <1>2. CASE ~(Len(q.history) < MaxHistory)
    BY <1>0, <1>2 DEF Recorded
  <1> QED
    BY <1>1, <1>2

\* The move made, before it is recorded.
Moved(p, m) == [p EXCEPT !.board = BoardAfter(p, m), !.hand = HandAfter(p, m),
                         !.king = KingAfter(p, m), !.hash = HashAfter(p, m),
                         !.side = Opponent(p.side), !.number = @ + 1]

LEMMA MovedTyped ==
  ASSUME NEW p \in Positions, NEW m, CanMake(p, m)
  PROVE  Moved(p, m) \in Positions
  <1>1. /\ BoardAfter(p, m) \in Boards /\ HandAfter(p, m) \in Hands
        /\ HashAfter(p, m) \in SUBSET Keys
    BY BoardAfterTyped, HandAfterTyped, HashAfterTyped
  <1>2. KingAfter(p, m) \in [Colors -> Squares \cup {NoSquare}]
    BY DEF KingAfter, CanMake, Positions
  <1>3. p.number + 1 \in 1..MaxMoveNumber
    <2>1. p.number \in 1..MaxMoveNumber /\ p.number # MaxMoveNumber /\ MaxMoveNumber \in Nat
      BY LimitsAssumption DEF LimitsAssumption, CanMake, Exhausted, Positions
    <2> QED
      BY <2>1
  <1>4. Opponent(p.side) \in Colors
    BY PieceFacts DEF Positions
  <1> QED
    BY <1>1, <1>2, <1>3, <1>4 DEF Moved, Positions

LEMMA MovedFields ==
  ASSUME NEW p \in Positions, NEW m
  PROVE  /\ Moved(p, m).board = BoardAfter(p, m) /\ Moved(p, m).hand = HandAfter(p, m)
         /\ Moved(p, m).king = KingAfter(p, m) /\ Moved(p, m).hash = HashAfter(p, m)
         /\ Moved(p, m).side = Opponent(p.side) /\ Moved(p, m).history = p.history
  BY DEF Moved, Positions

\* The trusted path keeps a position within its types.
LEMMA MakeMoveTyped ==
  ASSUME NEW p \in Positions, NEW m, CanMake(p, m), NEW b \in BOOLEAN
  PROVE  MakeMove(p, m, b) \in Positions
  <1>1. MakeMove(p, m, b) = Recorded(Moved(p, m), p.side, b)
    BY DEF MakeMove, Moved
  <1> QED
    <2>1. p.side \in Colors
      BY DEF Positions
    <2> QED
      BY <2>1, <1>1, MovedTyped, RecordedTyped

LEMMA MakeMoveFields ==
  ASSUME NEW p \in Positions, NEW m, CanMake(p, m), NEW b \in BOOLEAN
  PROVE  LET q == MakeMove(p, m, b) IN
         /\ q.board = BoardAfter(p, m) /\ q.hand = HandAfter(p, m)
         /\ q.king = KingAfter(p, m) /\ q.hash = HashAfter(p, m)
         /\ q.side = Opponent(p.side)
         /\ Len(q.history) >= Len(p.history)
         /\ \A i \in 1..Len(p.history) : q.history[i] = p.history[i]
  <1>1. MakeMove(p, m, b) = Recorded(Moved(p, m), p.side, b)
    BY DEF MakeMove, Moved
  <1>2. p.side \in Colors
    BY DEF Positions
  <1> QED
    BY <1>1, <1>2, MovedTyped, MovedFields, RecordedFields

-----------------------------------------------------------------------------
(***************************************************************************)
(* shogi_unmake_move brings back exactly the position the move was made    *)
(* on: board, hands, side, number, hash, king cache and history.           *)
(***************************************************************************)
THEOREM UnmakeRestores ==
  ASSUME NEW p \in Positions, NEW m, CanMake(p, m), NEW b \in BOOLEAN
  PROVE  UnmakeMove(MakeMove(p, m, b), Undo(p, m)) = p
  <1> DEFINE q == MakeMove(p, m, b)
             u == Undo(p, m)
             r == UnmakeMove(q, u)
             n == Len(p.history)
  <1>0. /\ p.history \in Seq(HistoryEntries) /\ n \in 1..MaxHistory /\ n \in Nat
        /\ p.board \in Boards /\ p.hand \in Hands /\ p.side \in Colors
    BY DEF Positions
  <1>1. /\ q \in Positions
        /\ q.board = BoardAfter(p, m) /\ q.hand = HandAfter(p, m)
        /\ Len(q.history) >= n
        /\ \A i \in 1..n : q.history[i] = p.history[i]
    BY MakeMoveTyped, MakeMoveFields
  <1> HIDE DEF q
  <1>2. /\ u.move = m /\ u.color = p.side /\ u.number = p.number /\ u.hash = p.hash
        /\ u.king = p.king /\ u.length = n
        /\ u.mover = p.history[n].mover /\ u.check = p.history[n].check
    BY DEF Undo
  <1> DEFINE board == IF IsDrop(m) THEN [q.board EXCEPT ![m.to] = Empty]
                      ELSE [q.board EXCEPT ![m.from] = u.moving, ![m.to] = u.captured]
             hand == IF u.touched THEN [q.hand EXCEPT ![p.side][u.index] = u.before] ELSE q.hand
             history == [SubSeq(q.history, 1, n) EXCEPT
                           ![n] = [@ EXCEPT !.mover = u.mover, !.check = u.check]]
  <1>3. board = p.board
    <2>1. CASE IsDrop(m)
      <3>1. p.board[m.to] = Empty /\ m.to \in Squares
        BY <2>1, DropFacts
      <3> QED
        BY <3>1, <2>1, <1>0, <1>1 DEF BoardAfter, Boards
    <2>2. CASE ~IsDrop(m)
      <3>1. m.from \in Squares /\ m.to \in Squares /\ m.from # m.to
        BY <2>2, StepFacts
      <3>2. u.moving = p.board[m.from] /\ u.captured = p.board[m.to]
        BY <2>2 DEF Undo
      <3> QED
        BY <3>1, <3>2, <2>2, <1>0, <1>1 DEF BoardAfter, Boards
    <2> QED BY <2>1, <2>2
  <1>4. hand = p.hand
    <2>1. CASE IsDrop(m)
      <3>1. u.touched /\ u.index = m.drop /\ u.before = p.hand[p.side][m.drop]
        BY <2>1 DEF Undo
      <3>2. m.drop \in HandTypes
        BY <2>1, DropFacts
      <3> QED
        BY <3>1, <3>2, <2>1, <1>0, <1>1 DEF HandAfter, Hands
    <2>2. CASE ~IsDrop(m) /\ p.board[m.to] # Empty
      <3>1. /\ u.touched /\ u.index = UnpromotedType(p.board[m.to].type)
            /\ u.before = p.hand[p.side][UnpromotedType(p.board[m.to].type)]
        BY <2>2 DEF Undo
      <3> DEFINE t == UnpromotedType(p.board[m.to].type)
      <3>2. t \in HandTypes
        BY <2>2, StepFacts
      <3>3. q.hand = [p.hand EXCEPT ![p.side][t] = p.hand[p.side][t] + 1]
        BY <2>2, <1>1 DEF HandAfter
      <3>4. hand = [q.hand EXCEPT ![p.side][t] = p.hand[p.side][t]]
        BY <3>1
      <3> HIDE DEF t, hand, u
      <3>5. [q.hand EXCEPT ![p.side][t] = p.hand[p.side][t]] = p.hand
        <4>1. p.hand \in Hands /\ p.side \in Colors
          BY <1>0
        <4> QED
          BY <4>1, <3>2, <3>3 DEF Hands
      <3> QED
        BY <3>4, <3>5
    <2>3. CASE ~IsDrop(m) /\ p.board[m.to] = Empty
      BY <2>3, <1>1 DEF HandAfter, Undo
    <2> QED BY <2>1, <2>2, <2>3
  <1>5. history = p.history
    <2>0. q.history \in Seq(HistoryEntries) /\ Len(q.history) \in Nat
      BY <1>1 DEF Positions
    <2>1. /\ SubSeq(q.history, 1, n) \in Seq(HistoryEntries)
          /\ Len(SubSeq(q.history, 1, n)) = n
          /\ \A i \in 1..n : SubSeq(q.history, 1, n)[i] = q.history[i]
      BY <1>0, <1>1, <2>0
    <2>2. SubSeq(q.history, 1, n) = p.history
      BY <2>1, <1>0, <1>1, SeqEqual
    <2>3. p.history[n] \in HistoryEntries
      BY <1>0
    <2>4. [p.history[n] EXCEPT !.mover = u.mover, !.check = u.check] = p.history[n]
      BY <2>3, <1>2 DEF HistoryEntries
    <2>5. history = [p.history EXCEPT ![n] = p.history[n]]
      BY <2>2, <2>4
    <2>6. p.history \in [1..n -> HistoryEntries]
      BY <1>0
    <2> HIDE DEF history, n
    <2> QED
      BY <2>5, <2>6
  <1>6. r = [q EXCEPT !.board = board, !.hand = hand, !.side = p.side, !.number = p.number,
                      !.hash = p.hash, !.king = p.king, !.history = history]
    <2>1. BoardBefore(q, u) = board /\ HandBefore(q, u) = hand /\ HistoryBefore(q, u) = history
      <3> HIDE DEF u
      <3> QED BY <1>2 DEF BoardBefore, HandBefore, HistoryBefore
    <2> HIDE DEF board, hand, history, u
    <2> QED
      BY <2>1, <1>2 DEF UnmakeMove
  <1> HIDE DEF board, hand, history, r, u
  <1>7. r = [board |-> p.board, hand |-> p.hand, side |-> p.side, number |-> p.number,
             hash |-> p.hash, king |-> p.king, history |-> p.history]
    BY <1>6, <1>3, <1>4, <1>5, <1>1 DEF Positions
  <1>8. p = [board |-> p.board, hand |-> p.hand, side |-> p.side, number |-> p.number,
             hash |-> p.hash, king |-> p.king, history |-> p.history]
    BY DEF Positions
  <1> QED
    BY <1>7, <1>8 DEF r, q, u


\* The legality probe of the generator changes the caller's position and puts
\* it back: for a move as the generator builds it, with its piece filled in,
\* unmaking the probe gives the position field by field.
THEOREM ProbeLeavesNoTrace ==
  ASSUME NEW p \in Positions, NEW m, CanMake(p, m),
         IsDrop(m) \/ m.piece = p.board[m.from]
  PROVE  UnmakeLegalProbe(MakeLegalProbe(p, m), LegalProbeUndo(p, m)) = p
  <1> DEFINE q == MakeLegalProbe(p, m)
             u == LegalProbeUndo(p, m)
             c == p.side
             board == IF IsDrop(m) THEN [q.board EXCEPT ![m.to] = Empty]
                      ELSE [q.board EXCEPT ![m.from] = m.piece, ![m.to] = u.captured]
             hand == IF u.index = "none" THEN q.hand[c]
                     ELSE [q.hand[c] EXCEPT ![u.index] = u.before]
  <1>0. /\ p.board \in Boards /\ p.hand \in Hands /\ c \in Colors
        /\ p.king \in [Colors -> Squares \cup {NoSquare}]
        /\ "none" \notin HandTypes
    BY DEF Positions, HandTypes
  <1>1. /\ q = [p EXCEPT !.board = q.board, !.hand = q.hand, !.king = q.king, !.side = q.side]
        /\ q.king = [p.king EXCEPT ![c] = q.king[c]]
        /\ q.hand = [p.hand EXCEPT ![c] = q.hand[c]]
    BY <1>0 DEF MakeLegalProbe, Positions, Hands
  <1>9. q.hand = [p.hand EXCEPT ![c] =
                    IF IsDrop(m) THEN [p.hand[c] EXCEPT ![m.drop] = p.hand[c][m.drop] - 1]
                    ELSE IF p.board[m.to] = Empty THEN p.hand[c]
                    ELSE [p.hand[c] EXCEPT ![UnpromotedType(p.board[m.to].type)] =
                            p.hand[c][UnpromotedType(p.board[m.to].type)] + 1]]
    BY DEF MakeLegalProbe, Positions
  <1>2. board = p.board
    <2>1. CASE IsDrop(m)
      <3>1. p.board[m.to] = Empty /\ m.to \in Squares
        BY <2>1, DropFacts
      <3>2. q.board = [p.board EXCEPT ![m.to] = Landed(p.board, c, m)]
        BY <2>1 DEF MakeLegalProbe, Positions
      <3> QED
        BY <3>1, <3>2, <2>1, <1>0 DEF Boards
    <2>2. CASE ~IsDrop(m)
      <3>1. m.from \in Squares /\ m.to \in Squares /\ m.from # m.to
        BY <2>2, StepFacts
      <3>2. q.board = [p.board EXCEPT ![m.from] = Empty, ![m.to] = Landed(p.board, c, m)]
        BY <2>2 DEF MakeLegalProbe, Positions
      <3>3. u.captured = p.board[m.to]
        BY <2>2 DEF LegalProbeUndo
      <3> QED
        BY <3>1, <3>2, <3>3, <2>2, <1>0 DEF Boards
    <2> QED BY <2>1, <2>2
  <1>3. hand = p.hand[c]
    <2>0. p.hand[c] \in [HandTypes -> 0..MaxInHand]
      BY <1>0 DEF Hands
    <2>1. CASE IsDrop(m)
      <3>1. m.drop \in HandTypes
        BY <2>1, DropFacts
      <3>2. u.index = m.drop /\ u.before = p.hand[c][m.drop]
        BY <2>1, <3>1, <1>0 DEF LegalProbeUndo
      <3>3. q.hand[c] = [p.hand[c] EXCEPT ![m.drop] = p.hand[c][m.drop] - 1]
        <4>1. q.hand = [p.hand EXCEPT ![c] = [p.hand[c] EXCEPT ![m.drop] = p.hand[c][m.drop] - 1]]
          BY <2>1, <1>9
        <4> HIDE DEF q
        <4> QED
          BY <4>1, <1>0 DEF Hands
      <3> QED
        BY <3>1, <3>2, <3>3, <2>0, <1>0
    <2>2. CASE ~IsDrop(m) /\ p.board[m.to] # Empty
      <3> DEFINE t == UnpromotedType(p.board[m.to].type)
      <3>1. t \in HandTypes
        BY <2>2, StepFacts
      <3>2. u.index = t /\ u.before = p.hand[c][t]
        BY <2>2, <3>1, <1>0 DEF LegalProbeUndo
      <3>3. q.hand[c] = [p.hand[c] EXCEPT ![t] = p.hand[c][t] + 1]
        <4>1. q.hand = [p.hand EXCEPT ![c] = [p.hand[c] EXCEPT ![t] = p.hand[c][t] + 1]]
          BY <2>2, <1>9
        <4> HIDE DEF q
        <4> QED
          BY <4>1, <1>0 DEF Hands
      <3> HIDE DEF t
      <3> QED
        BY <3>1, <3>2, <3>3, <2>0, <1>0
    <2>3. CASE ~IsDrop(m) /\ p.board[m.to] = Empty
      <3>1. u.index = "none"
        BY <2>3 DEF LegalProbeUndo
      <3>2. q.hand[c] = p.hand[c]
        BY <2>3, <1>0 DEF MakeLegalProbe, Positions, Hands
      <3> QED
        BY <3>1, <3>2
    <2> QED BY <2>1, <2>2, <2>3
  <1>4. UnmakeLegalProbe(q, u) =
          [q EXCEPT !.side = c, !.king = [q.king EXCEPT ![c] = p.king[c]],
                    !.board = board, !.hand = [q.hand EXCEPT ![c] = hand]]
    <2>1. u.move = m /\ u.color = c /\ u.king = p.king[c]
      BY DEF LegalProbeUndo
    <2> HIDE DEF q, u
    <2> QED
      BY <2>1, <1>1 DEF UnmakeLegalProbe
  <1>5. /\ [q.king EXCEPT ![c] = p.king[c]] = p.king
        /\ [q.hand EXCEPT ![c] = p.hand[c]] = p.hand
    <2> HIDE DEF q
    <2> QED
      BY <1>0, <1>1 DEF Hands
  <1>6. UnmakeLegalProbe(q, u) =
          [q EXCEPT !.side = c, !.king = p.king, !.board = p.board, !.hand = p.hand]
    <2> HIDE DEF q, u, board, hand
    <2> QED
      BY <1>2, <1>3, <1>4, <1>5
  <1>7. [q EXCEPT !.side = c, !.king = p.king, !.board = p.board, !.hand = p.hand]
        = [p EXCEPT !.side = c, !.king = p.king, !.board = p.board, !.hand = p.hand]
    <2> HIDE DEF q
    <2> QED
      BY <1>1 DEF Positions
  <1>8. [p EXCEPT !.side = c, !.king = p.king, !.board = p.board, !.hand = p.hand] = p
    BY DEF Positions
  <1> QED
    BY <1>6, <1>7, <1>8

-----------------------------------------------------------------------------
(***************************************************************************)
(* The incremental hash.  Two sets of Zobrist numbers are equal when they  *)
(* agree on the numbers of the board, of the hands and of the side.        *)
(***************************************************************************)
LEMMA KeysAreDistinct ==
  /\ \A s, q \in Squares, x, y \in Pieces : BoardKey(s, x) = BoardKey(q, y) => s = q /\ x = y
  /\ \A c, d, t, u, n, k : HandKey(c, t, n) = HandKey(d, u, k) => c = d /\ t = u /\ n = k
  /\ \A s, x, c, t, n : BoardKey(s, x) # HandKey(c, t, n)
  /\ \A s, x : BoardKey(s, x) # SideKey
  /\ \A c, t, n : HandKey(c, t, n) # SideKey
  BY DEF BoardKey, HandKey, SideKey, Pieces

LEMMA HashMembers ==
  ASSUME NEW b \in Boards, NEW h \in Hands, NEW side \in Colors
  PROVE  /\ PositionHash(b, h, side) \in SUBSET Keys
         /\ \A s \in Squares, x \in Pieces : BoardKey(s, x) \in PositionHash(b, h, side) <=> b[s] = x
         /\ \A c \in Colors, t \in HandTypes, n \in 0..MaxInHand :
               HandKey(c, t, n) \in PositionHash(b, h, side) <=> h[c][t] = n
         /\ SideKey \in PositionHash(b, h, side) <=> side = White
  <1>1. /\ \A s \in Squares : b[s] \in Pieces \cup {Empty}
        /\ \A c \in Colors, t \in HandTypes : h[c][t] \in 0..MaxInHand
        /\ Empty \notin Pieces
    BY PieceFacts DEF Boards, Hands
  <1>2. PositionHash(b, h, side) \in SUBSET Keys
    BY <1>1 DEF PositionHash, Keys
  <1>3. ASSUME NEW s \in Squares, NEW x \in Pieces
        PROVE  BoardKey(s, x) \in PositionHash(b, h, side) <=> b[s] = x
    BY <1>1, KeysAreDistinct DEF PositionHash
  <1>4. ASSUME NEW c \in Colors, NEW t \in HandTypes, NEW n \in 0..MaxInHand
        PROVE  HandKey(c, t, n) \in PositionHash(b, h, side) <=> h[c][t] = n
    BY <1>1, KeysAreDistinct DEF PositionHash
  <1>5. SideKey \in PositionHash(b, h, side) <=> side = White
    BY KeysAreDistinct DEF PositionHash
  <1> QED
    BY <1>2, <1>3, <1>4, <1>5

LEMMA SameHash ==
  ASSUME NEW A \in SUBSET Keys, NEW B \in SUBSET Keys,
         \A s \in Squares, x \in Pieces : BoardKey(s, x) \in A <=> BoardKey(s, x) \in B,
         \A c \in Colors, t \in HandTypes, n \in 0..MaxInHand :
            HandKey(c, t, n) \in A <=> HandKey(c, t, n) \in B,
         SideKey \in A <=> SideKey \in B
  PROVE  A = B
  <1>1. \A k \in Keys : k \in A <=> k \in B
    BY DEF Keys
  <1> QED
    BY <1>1

LEMMA XorMember ==
  \A A, B, k : k \in Xor(A, B) <=> ~(k \in A <=> k \in B)
  BY DEF Xor

\* shogi_make_move keeps the hash of the position the hash of its board, hands
\* and side, whatever the move.
THEOREM HashFollowsTheMove ==
  ASSUME NEW p \in Positions, NEW m, CanMake(p, m), HashIsRight(p)
  PROVE  HashAfter(p, m)
         = PositionHash(BoardAfter(p, m), HandAfter(p, m), Opponent(p.side))
  <1> DEFINE c == p.side
             captured == p.board[m.to]
             t == UnpromotedType(captured.type)
             landed == Landed(p.board, c, m)
             H == HashAfter(p, m)
             N == PositionHash(BoardAfter(p, m), HandAfter(p, m), Opponent(p.side))
  <1>0. /\ p.board \in Boards /\ p.hand \in Hands /\ c \in Colors /\ Opponent(c) \in Colors
        /\ p.hash = PositionHash(p.board, p.hand, c)
        /\ (Opponent(c) = White) <=> (c # White)
        /\ \A s \in Squares : p.board[s] \in Pieces \cup {Empty}
        /\ p.board \in [Squares -> Pieces \cup {Empty}]
        /\ p.hand \in [Colors -> [HandTypes -> 0..MaxInHand]]
    BY PieceFacts DEF Positions, HashIsRight, Boards, Hands, Colors, Opponent, Black, White
  <1>1. /\ BoardAfter(p, m) \in Boards /\ HandAfter(p, m) \in Hands /\ landed \in Pieces
        /\ H \in SUBSET Keys /\ m.to \in Squares
    BY BoardAfterTyped, HandAfterTyped, HashAfterTyped DEF CanMake
  <1>2. /\ N \in SUBSET Keys
        /\ \A s \in Squares, x \in Pieces : BoardKey(s, x) \in N <=> BoardAfter(p, m)[s] = x
        /\ \A d \in Colors, u \in HandTypes, n \in 0..MaxInHand :
              HandKey(d, u, n) \in N <=> HandAfter(p, m)[d][u] = n
        /\ SideKey \in N <=> Opponent(c) = White
    BY <1>0, <1>1, HashMembers
  <1>3. /\ \A s \in Squares, x \in Pieces : BoardKey(s, x) \in p.hash <=> p.board[s] = x
        /\ \A d \in Colors, u \in HandTypes, n \in 0..MaxInHand :
              HandKey(d, u, n) \in p.hash <=> p.hand[d][u] = n
        /\ SideKey \in p.hash <=> c = White
    BY <1>0, HashMembers
  <1>4. Empty \notin Pieces
    BY PieceFacts
  <1> HIDE DEF N, H, landed
  <1>5. CASE IsDrop(m)
    <2> DEFINE n == p.hand[c][m.drop]
    <2>1. /\ captured = Empty /\ m.drop \in HandTypes /\ n \in 1..MaxInHand
          /\ n \in 0..MaxInHand /\ n - 1 \in 0..MaxInHand /\ n # n - 1
      BY <1>5, DropFacts, LimitsAssumption DEF LimitsAssumption
    <2>2. H = Xor(Xor(Xor(p.hash, {SideKey}),
                      Xor({HandKey(c, m.drop, n)}, {HandKey(c, m.drop, n - 1)})),
                  {BoardKey(m.to, landed)})
      BY <1>5 DEF H, landed, HashAfter, Recount
    <2>3. BoardAfter(p, m) = [p.board EXCEPT ![m.to] = landed]
      BY <1>5 DEF BoardAfter, landed
    <2>4. HandAfter(p, m) = [p.hand EXCEPT ![c][m.drop] = n - 1]
      BY <1>5 DEF HandAfter
    <2> HIDE DEF n
    <2>5. ASSUME NEW s \in Squares, NEW x \in Pieces
          PROVE  BoardKey(s, x) \in H <=> BoardKey(s, x) \in N
      <3>1. BoardKey(s, x) \in H <=> ~(p.board[s] = x <=> (s = m.to /\ x = landed))
        BY <2>2, <1>1, <1>3, XorMember, KeysAreDistinct
      <3>2. BoardAfter(p, m)[s] = IF s = m.to THEN landed ELSE p.board[s]
        BY <2>3, <1>0
      <3> QED
        BY <3>1, <3>2, <1>2, <2>1, <1>4
    <2>6. ASSUME NEW d \in Colors, NEW u \in HandTypes, NEW k \in 0..MaxInHand
          PROVE  HandKey(d, u, k) \in H <=> HandKey(d, u, k) \in N
      <3>1. HandKey(d, u, k) \in H
            <=> ~(p.hand[d][u] = k <=> (d = c /\ u = m.drop /\ (k = n \/ k = n - 1)))
        BY <2>1, <2>2, <1>3, XorMember, KeysAreDistinct
      <3>2. HandAfter(p, m)[d][u] = IF d = c /\ u = m.drop THEN n - 1 ELSE p.hand[d][u]
        BY <2>1, <2>4, <1>0
      <3> QED
        BY <3>1, <3>2, <1>2, <2>1 DEF n
    <2>7. SideKey \in H <=> SideKey \in N
      BY <2>2, <1>0, <1>2, <1>3, XorMember, KeysAreDistinct
    <2>8. H = N
      BY <2>5, <2>6, <2>7, <1>1, <1>2, SameHash
    <2> QED
      BY <2>8 DEF H, N
  <1>6. CASE ~IsDrop(m) /\ captured = Empty
    <2> DEFINE moving == p.board[m.from]
    <2>1. m.from \in Squares /\ m.from # m.to /\ moving \in Pieces
      BY <1>6, StepFacts
    <2>2. H = Xor(Xor(Xor(p.hash, {SideKey}), {BoardKey(m.from, moving)}),
                  {BoardKey(m.to, landed)})
      BY <1>6 DEF H, landed, HashAfter
    <2>3. BoardAfter(p, m) = [p.board EXCEPT ![m.from] = Empty, ![m.to] = landed]
      BY <1>6 DEF BoardAfter, landed
    <2>4. HandAfter(p, m) = p.hand
      BY <1>6 DEF HandAfter
    <2>5. ASSUME NEW s \in Squares, NEW x \in Pieces
          PROVE  BoardKey(s, x) \in H <=> BoardKey(s, x) \in N
      <3>1. BoardKey(s, x) \in H
            <=> ~(~(p.board[s] = x <=> (s = m.from /\ x = moving))
                  <=> (s = m.to /\ x = landed))
        BY <2>1, <2>2, <1>1, <1>3, XorMember, KeysAreDistinct
      <3>2. BoardAfter(p, m)[s] = IF s = m.to THEN landed
                                  ELSE IF s = m.from THEN Empty ELSE p.board[s]
        BY <2>1, <2>3, <1>0, <1>1
      <3> QED
        BY <3>1, <3>2, <1>2, <2>1, <1>4, <1>6
    <2>6. ASSUME NEW d \in Colors, NEW u \in HandTypes, NEW k \in 0..MaxInHand
          PROVE  HandKey(d, u, k) \in H <=> HandKey(d, u, k) \in N
      BY <2>2, <2>4, <1>2, <1>3, XorMember, KeysAreDistinct
    <2>7. SideKey \in H <=> SideKey \in N
      BY <2>2, <1>0, <1>2, <1>3, XorMember, KeysAreDistinct
    <2>8. H = N
      BY <2>5, <2>6, <2>7, <1>1, <1>2, SameHash
    <2> QED
      BY <2>8 DEF H, N
  <1>7. CASE ~IsDrop(m) /\ captured # Empty
    <2> DEFINE moving == p.board[m.from]
               n == p.hand[c][t]
    <2>1. /\ m.from \in Squares /\ m.from # m.to /\ moving \in Pieces
          /\ captured \in Pieces /\ t \in HandTypes
          /\ n \in 0..(MaxInHand - 1)
      BY <1>7, StepFacts
    <2>2. n \in 0..MaxInHand /\ n + 1 \in 0..MaxInHand /\ n # n + 1
      BY <2>1, LimitsAssumption DEF LimitsAssumption
    <2>3. H = Xor(Xor(Xor(Xor(Xor(p.hash, {SideKey}), {BoardKey(m.from, moving)}),
                          {BoardKey(m.to, captured)}),
                      Xor({HandKey(c, t, n)}, {HandKey(c, t, n + 1)})),
                  {BoardKey(m.to, landed)})
      BY <1>7 DEF H, landed, HashAfter, Recount
    <2>4. BoardAfter(p, m) = [p.board EXCEPT ![m.from] = Empty, ![m.to] = landed]
      BY <1>7 DEF BoardAfter, landed
    <2>5. HandAfter(p, m) = [p.hand EXCEPT ![c][t] = n + 1]
      BY <1>7 DEF HandAfter
    <2>6. landed # captured
      <3>1. captured.color = Opponent(c) /\ moving.color = c
        BY <1>7, StepFacts
      <3>2. landed.color = c
        BY <3>1, <1>7 DEF landed, Landed, Piece
      <3> QED
        BY <3>1, <3>2, <1>0, PieceFacts
    <2> HIDE DEF n, t, moving
    <2>7. ASSUME NEW s \in Squares, NEW x \in Pieces
          PROVE  BoardKey(s, x) \in H <=> BoardKey(s, x) \in N
      <3>1. BoardKey(s, x) \in H
            <=> ~(~(~(p.board[s] = x <=> (s = m.from /\ x = moving))
                    <=> (s = m.to /\ x = captured))
                  <=> (s = m.to /\ x = landed))
        BY <2>1, <2>3, <1>1, <1>3, XorMember, KeysAreDistinct
      <3>2. BoardAfter(p, m)[s] = IF s = m.to THEN landed
                                  ELSE IF s = m.from THEN Empty ELSE p.board[s]
        BY <2>1, <2>4, <1>0, <1>1
      <3> QED
        BY <3>1, <3>2, <1>2, <2>1, <1>4, <2>6 DEF moving
    <2>8. ASSUME NEW d \in Colors, NEW u \in HandTypes, NEW k \in 0..MaxInHand
          PROVE  HandKey(d, u, k) \in H <=> HandKey(d, u, k) \in N
      <3>1. HandKey(d, u, k) \in H
            <=> ~(p.hand[d][u] = k <=> (d = c /\ u = t /\ (k = n \/ k = n + 1)))
        BY <2>1, <2>2, <2>3, <1>3, XorMember, KeysAreDistinct
      <3>2. HandAfter(p, m)[d][u] = IF d = c /\ u = t THEN n + 1 ELSE p.hand[d][u]
        BY <2>1, <2>5, <1>0
      <3> QED
        BY <3>1, <3>2, <1>2, <2>2 DEF n
    <2>9. SideKey \in H <=> SideKey \in N
      BY <2>3, <1>0, <1>2, <1>3, XorMember, KeysAreDistinct
    <2>10. H = N
      BY <2>7, <2>8, <2>9, <1>1, <1>2, SameHash
    <2> QED
      BY <2>10 DEF H, N
  <1> QED
    BY <1>5, <1>6, <1>7

-----------------------------------------------------------------------------
(***************************************************************************)
(* 2.  ShogiLine: a game and its searches.                                 *)
(***************************************************************************)
\* A position whose derived fields are what the board, hands and side say.
Sound(p) == p \in Positions /\ HashIsRight(p) /\ KingsAreCached(p)

UndosAreRecords == \E S : undos \in Seq(S)
LineIsSound == \A i \in 1..Len(line) : Sound(line[i])

IInv == TypeOK /\ UndosAreRecords /\ UndosRewind /\ LineIsSound

-----------------------------------------------------------------------------
(***************************************************************************)
(* Soundness of one position.                                              *)
(***************************************************************************)
\* shogi_position_from_sfen and reset_history start from a sound position.
LEMMA OpeningIsSound ==
  ASSUME NEW o \in Openings
  PROVE  Sound(NewPosition(o.board, o.hand, o.side, o.number))
  <1> DEFINE p == NewPosition(o.board, o.hand, o.side, o.number)
             hash == PositionHash(o.board, o.hand, o.side)
             e == [hash |-> hash, mover |-> NoMover, check |-> FALSE]
             king == [c \in Colors |-> IF KingSquares(o.board, c) = {} THEN NoSquare
                                       ELSE Nearest(KingSquares(o.board, c))]
  <1>1. /\ o.board \in Boards /\ o.hand \in Hands /\ o.side \in Colors
        /\ o.number \in 1..MaxMoveNumber
        /\ \A c \in Colors : \E s \in Squares : KingSquares(o.board, c) = {s}
    BY OpeningsAssumption DEF OpeningsAssumption
  <1>2. hash \in SUBSET Keys
    BY <1>1, HashMembers
  <1>3. \A s \in Squares : Nearest({s}) = s
    BY DEF Nearest, Squares
  <1>4. \A c \in Colors : king[c] \in Squares /\ KingSquares(o.board, c) = {king[c]}
    <2> SUFFICES ASSUME NEW c \in Colors
                 PROVE  king[c] \in Squares /\ KingSquares(o.board, c) = {king[c]}
      OBVIOUS
    <2>1. PICK s \in Squares : KingSquares(o.board, c) = {s}
      BY <1>1
    <2>2. king[c] = Nearest({s})
      BY <2>1
    <2> QED
      BY <2>1, <2>2, <1>3
  <1>5. e \in HistoryEntries
    BY <1>2 DEF HistoryEntries
  <1> HIDE DEF e, hash
  <1>6. <<e>> \in Seq(HistoryEntries) /\ Len(<<e>>) = 1
    BY <1>5
  <1>7. p = [board |-> o.board, hand |-> o.hand, side |-> o.side, number |-> o.number,
             hash |-> hash, king |-> king, history |-> <<e>>]
    BY DEF NewPosition, hash, e
  <1>8. king \in [Colors -> Squares \cup {NoSquare}]
    BY <1>4
  <1> HIDE DEF king, p
  <1>9. p \in Positions
    <2>1. 1 \in 1..MaxHistory
      BY LimitsAssumption DEF LimitsAssumption
    <2>2. p.history = <<e>>
      BY <1>7
    <2>3. p \in [board : Boards, hand : Hands, side : Colors, number : 1..MaxMoveNumber,
                 hash : SUBSET Keys, king : [Colors -> Squares \cup {NoSquare}],
                 history : Seq(HistoryEntries)]
      <3> DEFINE one == <<e>>
      <3> one \in Seq(HistoryEntries)
        BY <1>6
      <3> p = [board |-> o.board, hand |-> o.hand, side |-> o.side, number |-> o.number,
               hash |-> hash, king |-> king, history |-> one]
        BY <1>7
      <3> HIDE DEF one
      <3> QED BY <1>1, <1>2, <1>8, <2>1
    <2> QED
      BY <2>1, <2>2, <2>3, <1>6 DEF Positions
  <1>10. HashIsRight(p)
    BY <1>7 DEF HashIsRight, hash
  <1>11. KingsAreCached(p)
    BY <1>4, <1>7 DEF KingsAreCached
  <1> QED
    BY <1>9, <1>10, <1>11 DEF Sound, p

\* A legal or pseudo-legal move leaves one king of each side, where the cache
\* says.
LEMMA KingFollowsTheMove ==
  ASSUME NEW p \in Positions, NEW m, CanMake(p, m), KingsAreCached(p)
  PROVE  \A c \in Colors : KingSquares(BoardAfter(p, m), c) = {KingAfter(p, m)[c]}
  <1> DEFINE landed == Landed(p.board, p.side, m)
  <1>0. /\ p.board \in [Squares -> Pieces \cup {Empty}] /\ p.side \in Colors
        /\ p.king \in [Colors -> Squares \cup {NoSquare}]
    BY DEF Positions, Boards
  <1> SUFFICES ASSUME NEW c \in Colors
               PROVE  KingSquares(BoardAfter(p, m), c) = {KingAfter(p, m)[c]}
    OBVIOUS
  <1> DEFINE K == Piece(c, "king")
  <1>1. /\ p.king[c] \in Squares
        /\ \A s \in Squares : p.board[s] = K <=> s = p.king[c]
    BY DEF KingsAreCached, KingSquares
  <1>2. K # Empty /\ K.color = c /\ K.type = "king"
    BY DEF Empty, Piece, Colors, Black, White
  <1>3. CASE IsDrop(m)
    <2>1. /\ m.to \in Squares /\ p.board[m.to] = Empty /\ m.drop \in HandTypes
          /\ landed = Piece(p.side, m.drop)
      BY <1>3, DropFacts DEF Landed
    <2>2. landed.type # "king"
      BY <2>1, PieceFacts DEF Piece
    <2>3. BoardAfter(p, m) = [p.board EXCEPT ![m.to] = landed]
      BY <1>3 DEF BoardAfter
    <2>4. KingAfter(p, m) = p.king
      BY <2>2 DEF KingAfter
    <2> HIDE DEF landed, K
    <2>5. \A s \in Squares : BoardAfter(p, m)[s] = K <=> s = p.king[c]
      BY <2>1, <2>2, <2>3, <1>0, <1>1, <1>2
    <2> QED
      BY <2>4, <2>5, <1>1 DEF KingSquares, K
  <1>4. CASE ~IsDrop(m)
    <2>1. /\ m.from \in Squares /\ m.to \in Squares /\ m.from # m.to
          /\ p.board[m.from] \in Pieces /\ p.board[m.from].color = p.side
          /\ p.board[m.to] # Empty => p.board[m.to].type # "king"
      BY <1>4, StepFacts
    <2>2. /\ landed.color = p.side
          /\ landed.type = "king" <=> p.board[m.from].type = "king"
      BY <1>4, <2>1, PieceFacts DEF Landed, Piece, Pieces
    <2>3. landed \in Pieces
      BY BoardAfterTyped
    <2>4. BoardAfter(p, m) = [p.board EXCEPT ![m.from] = Empty, ![m.to] = landed]
      BY <1>4 DEF BoardAfter
    <2>5. \A x \in Pieces : x = K <=> x.color = c /\ x.type = "king"
      BY DEF Pieces, Piece
    <2>6. p.board[m.to] # K
      BY <2>1, <1>2
    <2>7. KingAfter(p, m) = IF landed.type = "king" THEN [p.king EXCEPT ![p.side] = m.to]
                            ELSE p.king
      BY DEF KingAfter
    <2> HIDE DEF landed, K
    <2>8. \A s \in Squares : BoardAfter(p, m)[s] =
             IF s = m.to THEN landed ELSE IF s = m.from THEN Empty ELSE p.board[s]
      BY <2>1, <2>4, <1>0
    <2>9. CASE landed.type = "king" /\ p.side = c
      <3>1. landed = K /\ p.board[m.from] = K /\ KingAfter(p, m)[c] = m.to
        BY <2>9, <2>1, <2>2, <2>3, <2>5, <2>7, <1>0
      <3>2. \A s \in Squares : BoardAfter(p, m)[s] = K <=> s = m.to
        BY <3>1, <2>1, <2>8, <1>1, <1>2
      <3> QED
        BY <3>1, <3>2, <2>1 DEF KingSquares, K
    <2>10. CASE ~(landed.type = "king" /\ p.side = c)
      <3>1. landed # K /\ p.board[m.from] # K /\ KingAfter(p, m)[c] = p.king[c]
        BY <2>10, <2>1, <2>2, <2>3, <2>5, <2>7, <1>0
      <3>2. \A s \in Squares : BoardAfter(p, m)[s] = K <=> s = p.king[c]
        BY <3>1, <2>1, <2>6, <2>8, <1>1, <1>2
      <3> QED
        BY <3>1, <3>2, <1>1 DEF KingSquares, K
    <2> QED BY <2>9, <2>10
  <1> QED BY <1>3, <1>4

\* shogi_make_move leads from a sound position to a sound one.
LEMMA MoveIsSound ==
  ASSUME NEW p, Sound(p), NEW m, CanMake(p, m), NEW b \in BOOLEAN
  PROVE  Sound(MakeMove(p, m, b))
  <1> DEFINE q == MakeMove(p, m, b)
  <1>0. p \in Positions /\ HashIsRight(p) /\ KingsAreCached(p)
    BY DEF Sound
  <1>1. q \in Positions
    BY <1>0, MakeMoveTyped
  <1>2. /\ q.board = BoardAfter(p, m) /\ q.hand = HandAfter(p, m)
        /\ q.king = KingAfter(p, m) /\ q.hash = HashAfter(p, m)
        /\ q.side = Opponent(p.side)
    BY <1>0, MakeMoveFields
  <1> HIDE DEF q
  <1>3. HashIsRight(q)
    BY <1>0, <1>2, HashFollowsTheMove DEF HashIsRight
  <1>4. KingsAreCached(q)
    BY <1>0, <1>2, KingFollowsTheMove DEF KingsAreCached
  <1> QED
    BY <1>1, <1>3, <1>4 DEF Sound, q

\* shogi_search_null_move leads to a sound position, and back.
LEMMA NullMoveIsSound ==
  ASSUME NEW p, Sound(p)
  PROVE  Sound(NullMove(p)) /\ NullMove(NullMove(p)) = p
  <1> DEFINE q == NullMove(p)
  <1>0. p \in Positions /\ HashIsRight(p) /\ KingsAreCached(p)
    BY DEF Sound
  <1>1. /\ p.board \in Boards /\ p.hand \in Hands /\ p.side \in Colors
        /\ p.hash \in SUBSET Keys
        /\ Opponent(p.side) \in Colors /\ Opponent(Opponent(p.side)) = p.side
        /\ (Opponent(p.side) = White) <=> (p.side # White)
    BY <1>0 DEF Positions, Colors, Opponent, Black, White
  <1>2. Xor(p.hash, {SideKey}) \in SUBSET Keys /\ Xor(Xor(p.hash, {SideKey}), {SideKey}) = p.hash
    BY <1>1, KeysTyped DEF Xor
  <1>3. /\ q.board = p.board /\ q.hand = p.hand /\ q.side = Opponent(p.side)
        /\ q.king = p.king /\ q.hash = Xor(p.hash, {SideKey})
    BY <1>0 DEF NullMove, Positions
  <1>4. q \in Positions
    BY <1>0, <1>1, <1>2 DEF NullMove, Positions
  <1>5. NullMove(q) = p
    BY <1>0, <1>1, <1>2 DEF NullMove, Positions
  <1>6. Xor(p.hash, {SideKey}) = PositionHash(p.board, p.hand, Opponent(p.side))
    <2> DEFINE A == Xor(p.hash, {SideKey})
               B == PositionHash(p.board, p.hand, Opponent(p.side))
    <2>0. p.hash = PositionHash(p.board, p.hand, p.side)
      BY <1>0 DEF HashIsRight
    <2>1. A \in SUBSET Keys /\ B \in SUBSET Keys
      BY <1>1, <1>2, HashMembers
    <2>2. \A s \in Squares, x \in Pieces : BoardKey(s, x) \in A <=> BoardKey(s, x) \in B
      BY <1>1, <2>0, HashMembers, XorMember, KeysAreDistinct
    <2>3. \A c \in Colors, t \in HandTypes, n \in 0..MaxInHand :
             HandKey(c, t, n) \in A <=> HandKey(c, t, n) \in B
      BY <1>1, <2>0, HashMembers, XorMember, KeysAreDistinct
    <2>4. SideKey \in A <=> SideKey \in B
      BY <1>1, <2>0, HashMembers, XorMember
    <2> HIDE DEF A, B
    <2>5. A = B
      BY <2>1, <2>2, <2>3, <2>4, SameHash
    <2> QED
      BY <2>5 DEF A, B
  <1> HIDE DEF q
  <1>7. HashIsRight(q) /\ KingsAreCached(q)
    BY <1>0, <1>3, <1>6 DEF HashIsRight, KingsAreCached
  <1> QED
    BY <1>4, <1>5, <1>7 DEF Sound, q

-----------------------------------------------------------------------------
(***************************************************************************)
(* The step that preserves the invariant.                                  *)
(***************************************************************************)
LEMMA StartsSound == Init => IInv
  <1> SUFFICES ASSUME Init PROVE IInv
    OBVIOUS
  <1>1. PICK o \in Openings : pos = NewPosition(o.board, o.hand, o.side, o.number)
    BY DEF Init
  <1>2. Sound(pos)
    BY <1>1, OpeningIsSound
  <1>3. undos = <<>> /\ line = <<pos>> /\ bookkeeping \in BOOLEAN
    BY DEF Init
  <1>4. pos \in Positions
    BY <1>2 DEF Sound
  <1>5. TypeOK
    BY <1>3, <1>4 DEF TypeOK
  <1>6. UndosAreRecords
    BY <1>3 DEF UndosAreRecords
  <1>7. UndosRewind
    BY <1>3 DEF UndosRewind
  <1>8. LineIsSound
    BY <1>2, <1>3 DEF LineIsSound
  <1> QED
    BY <1>5, <1>6, <1>7, <1>8 DEF IInv

\* What the invariant says of the end of the line.
LEMMA EndOfLine ==
  ASSUME IInv
  PROVE  /\ Sound(pos) /\ pos \in Positions
         /\ Len(undos) \in Nat /\ Len(line) = Len(undos) + 1
         /\ line \in Seq(Positions) /\ line[Len(line)] = pos
         /\ DOMAIN undos = 1..Len(undos)
  <1>1. PICK S : undos \in Seq(S)
    BY DEF IInv, UndosAreRecords
  <1>2. Len(undos) \in Nat /\ DOMAIN undos = 1..Len(undos)
    BY <1>1
  <1>3. line \in Seq(Positions) /\ Len(line) = Len(undos) + 1 /\ line[Len(line)] = pos
    BY DEF IInv, TypeOK, UndosRewind
  <1>4. Sound(line[Len(line)])
    BY <1>2, <1>3 DEF IInv, LineIsSound
  <1> QED
    BY <1>2, <1>3, <1>4 DEF Sound

\* One step down: to a sound position from which the new record leads back.
LEMMA DownTheLine ==
  ASSUME IInv, NEW q, Sound(q), NEW u, u.kind \in {"move", "null"}, Before(q, u) = pos,
         pos' = q, undos' = Append(undos, u), line' = Append(line, q),
         bookkeeping' = bookkeeping
  PROVE  IInv'
  <1> DEFINE n == Len(undos)
  <1>1. /\ n \in Nat /\ Len(line) = n + 1 /\ line \in Seq(Positions)
        /\ line[n + 1] = pos /\ DOMAIN undos = 1..n
    BY EndOfLine
  <1>2. q \in Positions
    BY DEF Sound
  <1>3. PICK S : undos \in Seq(S)
    BY DEF IInv, UndosAreRecords
  <1>4. /\ undos' \in Seq(S \cup {u}) /\ Len(undos') = n + 1 /\ DOMAIN undos' = 1..(n + 1)
        /\ undos'[n + 1] = u /\ \A i \in 1..n : undos'[i] = undos[i]
    BY <1>3, <1>1
  <1>5. /\ line' \in Seq(Positions) /\ Len(line') = n + 2 /\ line'[n + 2] = q
        /\ \A i \in 1..(n + 1) : line'[i] = line[i]
    BY <1>1, <1>2
  <1>6. TypeOK'
    <2>1. \A i \in 1..n : undos[i].kind \in {"move", "null"}
      BY <1>1 DEF IInv, TypeOK
    <2>2. \A i \in 1..(n + 1) : undos'[i].kind \in {"move", "null"}
      BY <1>1, <1>4, <2>1
    <2> HIDE DEF n
    <2> QED
      BY <1>1, <1>2, <1>4, <1>5, <2>2 DEF IInv, TypeOK
  <1>7. UndosAreRecords'
    BY <1>4 DEF UndosAreRecords
  <1>8. UndosRewind'
    <2>1. \A i \in 1..n : Before(line[i + 1], undos[i]) = line[i]
      BY <1>1 DEF IInv, UndosRewind
    <2> HIDE DEF n
    <2>2. ASSUME NEW i \in 1..(n + 1) PROVE Before(line'[i + 1], undos'[i]) = line'[i]
      <3>1. CASE i = n + 1
        BY <3>1, <1>1, <1>4, <1>5
      <3>2. CASE i \in 1..n
        <4>1. i + 1 \in 1..(n + 1) /\ i \in 1..(n + 1)
          BY <3>2, <1>1
        <4> QED
          BY <4>1, <3>2, <2>1, <1>4, <1>5
      <3> QED BY <3>1, <3>2, <1>1
    <2> QED
      BY <2>2, <1>1, <1>4, <1>5 DEF UndosRewind, Before
  <1>9. LineIsSound'
    <2>1. \A i \in 1..(n + 1) : Sound(line[i])
      BY <1>1 DEF IInv, LineIsSound
    <2> HIDE DEF n
    <2>2. \A i \in 1..(n + 2) : Sound(line'[i])
      BY <2>1, <1>1, <1>5
    <2> QED
      BY <2>2, <1>5 DEF LineIsSound, Sound, HashIsRight, KingsAreCached
  <1> QED
    BY <1>6, <1>7, <1>8, <1>9 DEF IInv

LEMMA GamePreserves ==
  ASSUME IInv, NEW m, GameMove(m)
  PROVE  IInv'
  <1>1. /\ undos = <<>> /\ CanMake(pos, m) /\ pos' = MakeMove(pos, m, TRUE)
        /\ line' = <<pos'>> /\ undos' = undos /\ bookkeeping' = bookkeeping
    BY DEF GameMove, Play
  <1>2. Sound(pos')
    BY <1>1, EndOfLine, MoveIsSound
  <1>3. pos' \in Positions
    BY <1>2 DEF Sound
  <1>4. line' \in Seq(Positions) /\ Len(line') = 1 /\ line'[1] = pos'
    <2>1. \A x \in Positions : LET s == <<x>> IN s \in Seq(Positions) /\ Len(s) = 1 /\ s[1] = x
      OBVIOUS
    <2> QED
      BY <2>1, <1>1, <1>3
  <1>5. undos' = <<>> /\ Len(undos') = 0 /\ DOMAIN undos' = {}
    BY <1>1
  <1>6. bookkeeping' \in BOOLEAN
    BY <1>1 DEF IInv, TypeOK
  <1>9. TypeOK'
    BY <1>3, <1>4, <1>5, <1>6 DEF TypeOK
  <1>7. UndosAreRecords' /\ UndosRewind'
    BY <1>1, <1>4, <1>5 DEF UndosAreRecords, UndosRewind
  <1>8. LineIsSound'
    BY <1>2, <1>4 DEF LineIsSound, Sound, HashIsRight, KingsAreCached
  <1> QED
    BY <1>7, <1>8, <1>9 DEF IInv

LEMMA SearchPreserves ==
  ASSUME IInv, NEW m, SearchMove(m)
  PROVE  IInv'
  <1> DEFINE q == MakeMoveFast(pos, m, bookkeeping)
             u == MoveUndo(UndoFast(pos, m))
  <1>1. /\ CanMakeFast(pos, m) /\ pos' = q /\ undos' = Append(undos, u)
        /\ line' = Append(line, pos') /\ bookkeeping' = bookkeeping
    BY DEF SearchMove
  <1>2. Sound(pos) /\ pos \in Positions /\ bookkeeping \in BOOLEAN
    BY EndOfLine DEF IInv, TypeOK
  <1>3. /\ CanMake(pos, m) /\ UndoFast(pos, m) = Undo(pos, m)
        /\ q = MakeMove(pos, m, bookkeeping)
    BY <1>1, <1>2, FastIsTrusted
  <1>4. Sound(q)
    BY <1>2, <1>3, MoveIsSound
  <1>5. u.kind = "move" /\ u.undo = Undo(pos, m)
    BY <1>3 DEF MoveUndo
  <1>6. Before(q, u) = pos
    <2>1. UnmakeMove(MakeMove(pos, m, bookkeeping), Undo(pos, m)) = pos
      BY <1>2, <1>3, UnmakeRestores
    <2> HIDE DEF q, u
    <2> QED
      BY <2>1, <1>3, <1>5 DEF Before
  <1> HIDE DEF q, u
  <1> QED
    BY <1>1, <1>4, <1>5, <1>6, DownTheLine

LEMMA NullPreserves ==
  ASSUME IInv, SearchNullMove
  PROVE  IInv'
  <1> DEFINE q == NullMove(pos)
             u == NullUndo
  <1>1. /\ pos' = q /\ undos' = Append(undos, u) /\ line' = Append(line, q)
        /\ bookkeeping' = bookkeeping
    BY DEF SearchNullMove
  <1>2. Sound(q) /\ NullMove(q) = pos
    BY EndOfLine, NullMoveIsSound
  <1>3. u.kind = "null"
    BY DEF NullUndo
  <1>4. Before(q, u) = pos
    BY <1>2, <1>3 DEF Before
  <1> HIDE DEF q, u
  <1> QED
    BY <1>1, <1>2, <1>3, <1>4, DownTheLine

LEMMA UnmakePreserves ==
  ASSUME IInv, Unmake
  PROVE  IInv'
  <1> DEFINE n == Len(undos)
             top == undos[n]
  <1>1. /\ n \in Nat /\ Len(line) = n + 1 /\ line \in Seq(Positions)
        /\ line[n + 1] = pos /\ DOMAIN undos = 1..n
    BY EndOfLine
  <1>2. PICK S : undos \in Seq(S)
    BY DEF IInv, UndosAreRecords
  <1>3. n >= 1 /\ bookkeeping' = bookkeeping
    BY <1>1, <1>2 DEF Unmake
  <1>4. pos' = Before(pos, top)
    BY DEF Unmake, Before
  <1>5. \A i \in 1..n : Before(line[i + 1], undos[i]) = line[i]
    BY <1>1 DEF IInv, UndosRewind
  <1>6. pos' = line[n]
    BY <1>1, <1>3, <1>4, <1>5
  <1>7. /\ undos' \in Seq(S) /\ Len(undos') = n - 1 /\ DOMAIN undos' = 1..(n - 1)
        /\ \A i \in 1..(n - 1) : undos'[i] = undos[i]
    <2>1. undos' = SubSeq(undos, 1, n - 1)
      BY DEF Unmake
    <2> QED
      BY <2>1, <1>1, <1>2, <1>3
  <1>8. /\ line' \in Seq(Positions) /\ Len(line') = n
        /\ \A i \in 1..n : line'[i] = line[i]
    <2>1. line' = SubSeq(line, 1, (n + 1) - 1)
      BY <1>1 DEF Unmake
    <2> HIDE DEF n
    <2>2. line' = SubSeq(line, 1, n)
      BY <2>1, <1>1
    <2> QED
      BY <2>2, <1>1, <1>3
  <1>9. \A i \in 1..n : undos[i].kind \in {"move", "null"}
    BY <1>1 DEF IInv, TypeOK
  <1>10. \A i \in 1..(n + 1) : Sound(line[i])
    BY <1>1 DEF IInv, LineIsSound
  <1>11. bookkeeping \in BOOLEAN
    BY DEF IInv, TypeOK
  <1> HIDE DEF n, top
  <1>12. TypeOK'
    <2>1. pos' \in Positions
      BY <1>1, <1>3, <1>6, <1>10 DEF Sound
    <2>2. \A i \in 1..(n - 1) : undos'[i].kind \in {"move", "null"}
      BY <1>1, <1>7, <1>9
    <2> QED
      BY <2>1, <2>2, <1>1, <1>3, <1>7, <1>8, <1>11 DEF TypeOK
  <1>13. UndosAreRecords'
    BY <1>7 DEF UndosAreRecords
  <1>14. UndosRewind'
    <2>1. line'[n] = pos'
      BY <1>1, <1>3, <1>6, <1>8
    <2>2. ASSUME NEW i \in 1..(n - 1) PROVE Before(line'[i + 1], undos'[i]) = line'[i]
      <3>1. i \in 1..n /\ i + 1 \in 1..n
        BY <1>1
      <3> QED
        BY <3>1, <1>5, <1>7, <1>8
    <2> QED
      BY <2>1, <2>2, <1>7, <1>8 DEF UndosRewind, Before
  <1>15. LineIsSound'
    <2>1. \A i \in 1..n : Sound(line'[i])
      BY <1>1, <1>8, <1>10
    <2> QED
      BY <2>1, <1>8 DEF LineIsSound, Sound, HashIsRight, KingsAreCached
  <1> QED
    BY <1>12, <1>13, <1>14, <1>15 DEF IInv

LEMMA StepPreserves == IInv /\ [Next]_vars => IInv'
  <1> SUFFICES ASSUME IInv, [Next]_vars PROVE IInv'
    OBVIOUS
  <1>1. ASSUME NEW m, GameMove(m) PROVE IInv'
    BY <1>1, GamePreserves
  <1>2. ASSUME NEW m, SearchMove(m) PROVE IInv'
    BY <1>2, SearchPreserves
  <1>3. CASE SearchNullMove
    BY <1>3, NullPreserves
  <1>4. CASE Unmake
    BY <1>4, UnmakePreserves
  <1>5. CASE SetBookkeeping
    BY <1>5 DEF SetBookkeeping, IInv, TypeOK, UndosAreRecords, UndosRewind, LineIsSound,
                Before, Sound, HashIsRight, KingsAreCached
  <1>6. CASE UNCHANGED vars
    BY <1>6 DEF vars, IInv, TypeOK, UndosAreRecords, UndosRewind, LineIsSound,
                Before, Sound, HashIsRight, KingsAreCached
  <1> QED
    BY <1>1, <1>2, <1>3, <1>4, <1>5, <1>6 DEF Next

LEMMA Invariance == Spec => []IInv
  <1>1. Init => IInv
    BY StartsSound
  <1>2. IInv /\ [Next]_vars => IInv'
    BY StepPreserves
  <1> QED
    BY <1>1, <1>2, PTL DEF Spec

\* No counter of a position outgrows its array or its type, in the game or in
\* a search, however long they are.
THEOREM TypesAreKept == Spec => []TypeOK
  <1>1. IInv => TypeOK
    BY DEF IInv
  <1> QED
    BY <1>1, Invariance, PTL

\* The incremental hash is the hash of the position, after any game, descent,
\* null move and return.
THEOREM HashIsKept == Spec => []HashIsPosition
  <1>1. IInv => HashIsPosition
    BY EndOfLine DEF Sound, HashIsPosition
  <1> QED
    BY <1>1, Invariance, PTL

\* The cached king squares are right at all times.
THEOREM KingsAreKept == Spec => []KingCacheIsRight
  <1>1. IInv => KingCacheIsRight
    BY EndOfLine DEF Sound, KingCacheIsRight
  <1> QED
    BY <1>1, Invariance, PTL

\* A search comes back, move by move, through the very positions it went down.
THEOREM SearchesRewind == Spec => []UndosRewind
  <1>1. IInv => UndosRewind
    BY DEF IInv
  <1> QED
    BY <1>1, Invariance, PTL

\* On any position and for any attempt the two ways to make a move are one.
THEOREM PathsAgree == Spec => []FastPathIsTrusted
  <1>1. IInv => FastPathIsTrusted
    <2> SUFFICES ASSUME IInv PROVE FastPathIsTrusted
      OBVIOUS
    <2>1. pos \in Positions
      BY EndOfLine
    <2> QED
      BY <2>1, FastIsTrusted DEF FastPathIsTrusted
  <1> QED
    BY <1>1, Invariance, PTL

-----------------------------------------------------------------------------
(***************************************************************************)
(* The repetition verdict.  The history of every position of the line is   *)
(* the beginning of the referee's notes, as long as the notes or as long   *)
(* as the array; what it may lack is a check given in a search without     *)
(* bookkeeping.                                                            *)
(***************************************************************************)
Notes == [board : Boards, hand : Hands, side : Colors, mover : Colors \cup {NoMover},
          check : BOOLEAN]
NoteHash(note) == PositionHash(note.board, note.hand, note.side)
SamePosition(a, b) == a.board = b.board /\ a.hand = b.hand /\ a.side = b.side

\* The history h is the beginning of the first n notes, and the checks of the
\* notes of `exact' are in it.
Noted(h, notes, n, exact) ==
    /\ Len(h) = IF n <= MaxHistory THEN n ELSE MaxHistory
    /\ \A i \in 1..Len(h) :
          /\ h[i].hash = NoteHash(notes[i]) /\ h[i].mover = notes[i].mover
          /\ h[i].check => notes[i].check
          /\ i \in exact /\ notes[i].check => h[i].check

\* The checks recorded: those of the game, and those of a search that records them.
Exact(root, recorded) == {i \in Nat : i <= root \/ recorded}

\* d[k] is the number of notes there were at the k-th position of the line.
Depths(d, ln, us, notes, recorded) ==
    /\ \A k \in 1..Len(us) : d[k + 1] = IF us[k].kind = "null" THEN d[k] ELSE d[k] + 1
    /\ \A j, k \in 1..Len(ln) : j <= k => d[j] <= d[k]
    /\ \A k \in 1..Len(ln) : Noted(ln[k].history, notes, d[k], Exact(d[1], recorded))
    /\ SamePosition(ln[1], notes[d[1]])
    /\ \A k \in 1..Len(us) : us[k].kind = "move" => SamePosition(ln[k + 1], notes[d[k + 1]])

Kept(ln, us, notes, recorded) ==
    /\ notes \in Seq(Notes) /\ Len(notes) >= 1
    /\ \E d \in [1..Len(ln) -> 1..Len(notes)] :
          d[Len(ln)] = Len(notes) /\ Depths(d, ln, us, notes, recorded)

HistoryInv == Kept(line, undos, past, bookkeeping)

HInv == IInv /\ HistoryInv

\* Two positions of one hash are one position.
LEMMA HashTellsPositions ==
  ASSUME NEW a, NEW b, a.board \in Boards, a.hand \in Hands, a.side \in Colors,
         b.board \in Boards, b.hand \in Hands, b.side \in Colors
  PROVE  NoteHash(a) = NoteHash(b) <=> SamePosition(a, b)
  <1>1. ASSUME SamePosition(a, b) PROVE NoteHash(a) = NoteHash(b)
    BY <1>1 DEF SamePosition, NoteHash
  <1>2. ASSUME NoteHash(a) = NoteHash(b) PROVE SamePosition(a, b)
    <2>1. \A s \in Squares, x \in Pieces : a.board[s] = x <=> b.board[s] = x
      BY <1>2, HashMembers DEF NoteHash
    <2>2. \A c \in Colors, t \in HandTypes, n \in 0..MaxInHand : a.hand[c][t] = n <=> b.hand[c][t] = n
      BY <1>2, HashMembers DEF NoteHash
    <2>3. a.side = White <=> b.side = White
      BY <1>2, HashMembers DEF NoteHash
    <2>4. a.board = b.board
      <3>1. \A s \in Squares : a.board[s] = b.board[s]
        BY <2>1 DEF Boards
      <3> QED
        BY <3>1 DEF Boards
    <2>5. a.hand = b.hand
      <3>1. \A c \in Colors : \A t \in HandTypes : a.hand[c][t] = b.hand[c][t]
        BY <2>2 DEF Hands
      <3>2. \A c \in Colors : a.hand[c] = b.hand[c]
        BY <3>1 DEF Hands
      <3> QED
        BY <3>2 DEF Hands
    <2>6. a.side = b.side
      BY <2>3 DEF Colors
    <2> QED
      BY <2>4, <2>5, <2>6 DEF SamePosition
  <1> QED
    BY <1>1, <1>2

\* Notes that agree up to n are as good as the notes.
LEMMA NotedByPrefix ==
  ASSUME NEW h, NEW notes, NEW other, NEW n \in Nat, NEW E, NEW F,
         Noted(h, notes, n, E), \A i \in 1..n : other[i] = notes[i],
         \A i \in 1..n : i \in F => i \in E
  PROVE  Noted(h, other, n, F)
  <1> DEFINE k == Len(h)
  <1>1. k = IF n <= MaxHistory THEN n ELSE MaxHistory
    BY DEF Noted
  <1>2. MaxHistory \in Nat
    BY LimitsAssumption DEF LimitsAssumption
  <1> HIDE DEF k
  <1>3. \A i \in 1..k : i \in 1..n
    BY <1>1, <1>2
  <1> QED
    BY <1>1, <1>3 DEF Noted, k

\* A move made is noted in the history as the referee notes it, but for the
\* check when that is not to be recorded.
LEMMA MoveIsNoted ==
  ASSUME NEW p, Sound(p), NEW m, CanMake(p, m), NEW b \in BOOLEAN,
         NEW notes \in Seq(Notes), NEW E, NEW F, Len(notes) >= 1,
         Noted(p.history, notes, Len(notes), E),
         \A i \in 1..Len(notes) : i \in F => i \in E,
         (Len(notes) + 1) \in F => b
  PROVE  LET q == MakeMove(p, m, b)
             note == Record(q, p.side, IsInCheck(q, q.side))
         IN  /\ note \in Notes /\ SamePosition(q, note)
             /\ Noted(q.history, Append(notes, note), Len(notes) + 1, F)
  <1> DEFINE q == MakeMove(p, m, b)
             r == Moved(p, m)
             note == Record(q, p.side, IsInCheck(q, q.side))
             more == Append(notes, note)
             e == [hash |-> r.hash, mover |-> p.side, check |-> b /\ IsInCheck(r, r.side)]
             n == Len(notes)
  <1>1. p \in Positions /\ p.side \in Colors /\ q \in Positions /\ r \in Positions /\ Sound(q)
    BY MakeMoveTyped, MovedTyped, MoveIsSound DEF Sound, Positions
  <1>2. q = Recorded(r, p.side, b)
    BY DEF MakeMove, Moved
  <1>3. /\ q.board = r.board /\ q.hand = r.hand /\ q.side = r.side /\ q.hash = r.hash
        /\ q.king = r.king /\ r.history = p.history
    BY <1>1, <1>2, RecordedFields, MovedFields
  <1>4. IsInCheck(q, q.side) = IsInCheck(r, r.side) /\ IsInCheck(r, r.side) \in BOOLEAN
    <2> HIDE DEF q, r
    <2> QED
      BY <1>3 DEF IsInCheck, FindKing
  <1>5. note \in Notes /\ SamePosition(q, note) /\ note.mover = p.side
        /\ note.check = IsInCheck(r, r.side) /\ NoteHash(note) = r.hash
    <2>1. /\ q.board \in Boards /\ q.hand \in Hands /\ q.side \in Colors
          /\ q.hash = PositionHash(q.board, q.hand, q.side)
      BY <1>1 DEF Sound, Positions, HashIsRight
    <2> HIDE DEF q, r
    <2> QED
      BY <1>1, <1>3, <1>4, <2>1 DEF Record, Notes, SamePosition, NoteHash
  <1>6. n \in Nat /\ more \in Seq(Notes) /\ Len(more) = n + 1 /\ more[n + 1] = note
        /\ \A i \in 1..n : more[i] = notes[i]
    <2> HIDE DEF note
    <2> QED
      BY <1>5
  <1>7. /\ e.hash = NoteHash(note) /\ e.mover = note.mover /\ (e.check => note.check)
        /\ (b /\ note.check => e.check)
    BY <1>5
  <1>8. /\ MaxHistory \in Nat /\ MaxHistory >= 1 /\ p.history \in Seq(HistoryEntries)
        /\ Len(p.history) \in Nat
    BY <1>1, LimitsAssumption DEF LimitsAssumption, Positions
  <1>9. Noted(p.history, more, n, F)
    BY <1>6, NotedByPrefix
  <1> DEFINE k == Len(p.history)
  <1>10. k = IF n <= MaxHistory THEN n ELSE MaxHistory
    BY <1>9 DEF Noted
  <1>11. CASE n < MaxHistory
    <2>1. k = n
      BY <1>10, <1>11, <1>8, <1>6
    <2>2. q.history = Append(p.history, e)
      <3>1. q = [r EXCEPT !.history = Append(@, e)]
        BY <1>2, <1>3, <1>11, <2>1 DEF Recorded
      <3> HIDE DEF q, r, e
      <3> QED
        BY <3>1, <1>1, <1>3 DEF Positions
    <2>3. /\ Len(Append(p.history, e)) = k + 1 /\ Append(p.history, e)[k + 1] = e
          /\ \A i \in 1..k : Append(p.history, e)[i] = p.history[i]
      <3> HIDE DEF e
      <3> QED
        BY <1>8
    <2>4. /\ Len(q.history) = n + 1 /\ q.history[n + 1] = e
          /\ \A i \in 1..n : q.history[i] = p.history[i]
      BY <2>1, <2>2, <2>3
    <2>5. Noted(q.history, more, n + 1, F)
      <3> DEFINE h == q.history
      <3>1. \A i \in 1..n : /\ h[i].hash = NoteHash(more[i]) /\ h[i].mover = more[i].mover
                            /\ h[i].check => more[i].check
                            /\ i \in F /\ more[i].check => h[i].check
        BY <1>9, <2>1, <2>4 DEF Noted
      <3>2. /\ h[n + 1].hash = NoteHash(more[n + 1]) /\ h[n + 1].mover = more[n + 1].mover
            /\ h[n + 1].check => more[n + 1].check
            /\ n + 1 \in F /\ more[n + 1].check => h[n + 1].check
        <4> HIDE DEF q, e, note, more
        <4> QED
          BY <1>6, <1>7, <2>4
      <3>3. Len(h) = IF n + 1 <= MaxHistory THEN n + 1 ELSE MaxHistory
        <4> HIDE DEF n, q
        <4> QED
          BY <2>4, <1>6, <1>8, <1>11
      <3> HIDE DEF h, n, more, q
      <3>4. \A i \in 1..(n + 1) : i \in 1..n \/ i = n + 1
        BY <1>6
      <3>5. Len(h) = n + 1
        BY <2>4 DEF h
      <3> QED
        BY <3>1, <3>2, <3>3, <3>4, <3>5 DEF Noted, h
    <2> QED
      BY <1>5, <2>5
  <1>12. CASE ~(n < MaxHistory)
    <2>1. k = MaxHistory
      <3> HIDE DEF n, k
      <3> QED
        BY <1>10, <1>12, <1>8, <1>6
    <2>2. q.history = p.history
      BY <1>2, <1>3, <2>1, <1>8 DEF Recorded
    <2>3. MaxHistory = IF n + 1 <= MaxHistory THEN n + 1 ELSE MaxHistory
      <3> HIDE DEF n
      <3> QED
        BY <1>12, <1>6, <1>8
    <2>4. Noted(q.history, more, n + 1, F)
      <3> HIDE DEF n, more, q
      <3> QED
        BY <1>9, <2>1, <2>2, <2>3 DEF Noted, k
    <2> QED
      BY <1>5, <2>4
  <1> QED
    BY <1>11, <1>12, <1>6, <1>8

LEMMA HistoryStarts == Init => HistoryInv
  <1> SUFFICES ASSUME Init PROVE HistoryInv
    OBVIOUS
  <1>1. PICK o \in Openings : pos = NewPosition(o.board, o.hand, o.side, o.number)
    BY DEF Init
  <1> DEFINE note == Record(pos, NoMover, FALSE)
             e == [hash |-> pos.hash, mover |-> NoMover, check |-> FALSE]
  <1>2. Sound(pos)
    BY <1>1, OpeningIsSound
  <1>3. /\ pos \in Positions /\ pos.board \in Boards /\ pos.hand \in Hands /\ pos.side \in Colors
        /\ pos.hash = PositionHash(pos.board, pos.hand, pos.side)
    BY <1>2 DEF Sound, Positions, HashIsRight
  <1>4. pos.history = <<e>>
    BY <1>1 DEF NewPosition
  <1>5. note \in Notes /\ note.mover = NoMover /\ note.check = FALSE /\ NoteHash(note) = pos.hash
        /\ SamePosition(pos, note)
    BY <1>3 DEF Record, Notes, NoteHash, SamePosition
  <1>6. undos = <<>> /\ line = <<pos>> /\ past = <<note>>
    BY DEF Init
  <1> HIDE DEF note
  <1>7. /\ Len(undos) = 0 /\ Len(line) = 1 /\ line[1] = pos
        /\ past \in Seq(Notes) /\ Len(past) = 1 /\ past[1] = note
    BY <1>5, <1>6
  <1>8. Len(pos.history) = 1 /\ pos.history[1] = e
    BY <1>4
  <1>9. MaxHistory \in Nat /\ MaxHistory >= 1
    BY LimitsAssumption DEF LimitsAssumption
  <1> DEFINE d == [k \in 1..Len(line) |-> 1]
  <1>10. d \in [1..Len(line) -> 1..Len(past)] /\ d[Len(line)] = Len(past) /\ d[1] = 1
    BY <1>7
  <1>11. Noted(pos.history, past, 1, Exact(d[1], bookkeeping))
    BY <1>5, <1>7, <1>8, <1>9 DEF Noted
  <1>12. Depths(d, line, undos, past, bookkeeping)
    BY <1>5, <1>7, <1>10, <1>11 DEF Depths
  <1> QED
    BY <1>7, <1>10, <1>12 DEF HistoryInv, Kept

\* The line, the undo records and the notes, with their map.
Mapped(d, ln, us, notes, b) ==
    /\ ln \in Seq(Positions) /\ (\E S : us \in Seq(S)) /\ Len(ln) = Len(us) + 1
    /\ \A k \in 1..Len(us) : us[k].kind \in {"move", "null"}
    /\ notes \in Seq(Notes) /\ Len(notes) >= 1
    /\ d \in [1..Len(ln) -> 1..Len(notes)] /\ d[Len(ln)] = Len(notes)
    /\ Depths(d, ln, us, notes, b)

\* What a step down the line to q, with the record u, does to the notes.
StepNoted(d, q, u, notes, more, b) ==
    /\ q \in Positions /\ u.kind \in {"move", "null"} /\ more \in Seq(Notes)
    /\ \A i \in 1..Len(notes) : more[i] = notes[i]
    /\ Len(more) = IF u.kind = "null" THEN Len(notes) ELSE Len(notes) + 1
    /\ Noted(q.history, more, Len(more), Exact(d[1], b))
    /\ u.kind = "move" => SamePosition(q, more[Len(more)])

\* One step down the line, by a move of the search or by a null move.
LEMMA HistoryDown ==
  ASSUME NEW ln, NEW us, NEW notes, NEW b, NEW d, Mapped(d, ln, us, notes, b),
         NEW q, NEW u, NEW more, StepNoted(d, q, u, notes, more, b)
  PROVE  Kept(Append(ln, q), Append(us, u), more, b)
  <1>h. PICK S : us \in Seq(S)
    BY DEF Mapped
  <1>i. /\ ln \in Seq(Positions) /\ Len(ln) = Len(us) + 1
        /\ notes \in Seq(Notes) /\ Len(notes) >= 1
        /\ d \in [1..Len(ln) -> 1..Len(notes)] /\ d[Len(ln)] = Len(notes)
        /\ Depths(d, ln, us, notes, b)
    BY DEF Mapped
  <1>j. /\ q \in Positions /\ u.kind \in {"move", "null"} /\ more \in Seq(Notes)
        /\ \A i \in 1..Len(notes) : more[i] = notes[i]
        /\ Len(more) = IF u.kind = "null" THEN Len(notes) ELSE Len(notes) + 1
        /\ Noted(q.history, more, Len(more), Exact(d[1], b))
        /\ (u.kind = "move" => SamePosition(q, more[Len(more)]))
    BY DEF StepNoted
  <1> DEFINE n == Len(us)
             z == Len(notes)
             y == Len(more)
             w == Append(ln, q)
             v == Append(us, u)
             f == [k \in 1..(n + 2) |-> IF k = n + 2 THEN y ELSE d[k]]
  <1>1. /\ n \in Nat /\ Len(ln) = n + 1 /\ z \in Nat /\ z >= 1 /\ y \in Nat
        /\ y = IF u.kind = "null" THEN z ELSE z + 1
    BY <1>h, <1>i, <1>j
  <1>2. /\ Len(w) = n + 2 /\ w[n + 2] = q /\ \A k \in 1..(n + 1) : w[k] = ln[k]
        /\ Len(v) = n + 1 /\ v[n + 1] = u /\ \A k \in 1..n : v[k] = us[k]
    BY <1>h, <1>i, <1>j
  <1>3. d \in [1..(n + 1) -> 1..z] /\ d[n + 1] = z
    BY <1>1, <1>i
  <1>4. /\ \A k \in 1..n : d[k + 1] = IF us[k].kind = "null" THEN d[k] ELSE d[k] + 1
        /\ \A j, k \in 1..(n + 1) : j <= k => d[j] <= d[k]
        /\ \A k \in 1..(n + 1) : Noted(ln[k].history, notes, d[k], Exact(d[1], b))
        /\ SamePosition(ln[1], notes[d[1]])
        /\ \A k \in 1..n : us[k].kind = "move" => SamePosition(ln[k + 1], notes[d[k + 1]])
    BY <1>1, <1>i DEF Depths
  <1>a. z <= y /\ \A i \in 1..z : more[i] = notes[i]
    BY <1>1, <1>j
  <1>b. Noted(q.history, more, y, Exact(d[1], b)) /\ (u.kind = "move" => SamePosition(q, more[y]))
    BY <1>j
  <1> HIDE DEF n, z, y, w, v
  <1>5. \A k \in 1..(n + 1) : k \in 1..(n + 2) /\ k # n + 2
    BY <1>1
  <1>6. /\ 1 \in 1..(n + 1) /\ n + 1 \in 1..(n + 1) /\ n + 2 \in 1..(n + 2)
        /\ \A k \in 1..n : k \in 1..(n + 1) /\ k + 1 \in 1..(n + 1)
        /\ \A k \in 1..(n + 2) : k = n + 2 \/ k \in 1..(n + 1)
        /\ \A k \in 1..(n + 1) : k = n + 1 \/ k \in 1..n
        /\ (n + 1) + 1 = n + 2
    BY <1>1
  <1>7. /\ f[n + 2] = y /\ \A k \in 1..(n + 1) : f[k] = d[k]
    BY <1>5, <1>6
  <1>8. \A k \in 1..(n + 1) : d[k] \in 1..z /\ d[k] \in 1..y /\ d[k] <= y /\ d[k] \in Nat
    BY <1>1, <1>3, <1>a
  <1>9. f \in [1..(n + 2) -> 1..y]
    <2>1. y \in 1..y
      BY <1>1
    <2> QED
      BY <2>1, <1>8, <1>6
  <1> HIDE DEF f
  <1>10. ASSUME NEW k \in 1..(n + 1)
         PROVE  f[k + 1] = IF v[k].kind = "null" THEN f[k] ELSE f[k] + 1
    <2>1. CASE k \in 1..n
      BY <2>1, <1>2, <1>4, <1>6, <1>7
    <2>2. CASE k = n + 1
      BY <2>2, <1>1, <1>2, <1>3, <1>6, <1>7
    <2> QED
      BY <2>1, <2>2, <1>6
  <1>11. ASSUME NEW j \in 1..(n + 2), NEW k \in 1..(n + 2), j <= k PROVE f[j] <= f[k]
    <2>1. CASE k = n + 2
      <3>1. f[j] \in 1..y
        BY <1>9
      <3> QED
        BY <3>1, <2>1, <1>7, <1>1
    <2>2. CASE k # n + 2
      <3>1. k \in 1..(n + 1) /\ j \in 1..(n + 1)
        BY <2>2, <1>11, <1>1
      <3> QED
        BY <3>1, <1>4, <1>7, <1>11
    <2> QED
      BY <2>1, <2>2
  <1>12. ASSUME NEW k \in 1..(n + 2) PROVE Noted(w[k].history, more, f[k], Exact(f[1], b))
    <2>1. f[1] = d[1]
      BY <1>6, <1>7
    <2>2. CASE k = n + 2
      BY <2>1, <2>2, <1>2, <1>7, <1>b
    <2>3. CASE k \in 1..(n + 1)
      <3>1. /\ Noted(ln[k].history, notes, d[k], Exact(d[1], b)) /\ d[k] \in Nat
            /\ \A i \in 1..d[k] : more[i] = notes[i]
        BY <2>3, <1>1, <1>4, <1>8, <1>a
      <3>2. Noted(ln[k].history, more, d[k], Exact(d[1], b))
        BY <3>1, NotedByPrefix
      <3> QED
        BY <3>2, <2>1, <2>3, <1>2, <1>7
    <2> QED
      BY <2>2, <2>3, <1>6
  <1>13. SamePosition(w[1], more[f[1]])
    BY <1>2, <1>4, <1>6, <1>7, <1>8, <1>a
  <1>14. ASSUME NEW k \in 1..(n + 1), v[k].kind = "move" PROVE SamePosition(w[k + 1], more[f[k + 1]])
    <2>1. CASE k = n + 1
      BY <2>1, <1>14, <1>2, <1>6, <1>7, <1>b
    <2>2. CASE k \in 1..n
      <3>1. k + 1 \in 1..(n + 1) /\ us[k].kind = "move"
        BY <2>2, <1>14, <1>2, <1>6
      <3>2. SamePosition(ln[k + 1], notes[d[k + 1]])
        BY <2>2, <3>1, <1>4
      <3>3. w[k + 1] = ln[k + 1] /\ f[k + 1] = d[k + 1] /\ more[d[k + 1]] = notes[d[k + 1]]
        BY <3>1, <1>2, <1>7, <1>8, <1>a
      <3> QED
        BY <3>2, <3>3
    <2> QED
      BY <2>1, <2>2, <1>6
  <1>15. Depths(f, w, v, more, b)
    BY <1>2, <1>10, <1>11, <1>12, <1>13, <1>14 DEF Depths
  <1>16. /\ more \in Seq(Notes) /\ Len(more) >= 1 /\ f[Len(w)] = Len(more)
         /\ f \in [1..Len(w) -> 1..Len(more)] /\ Depths(f, w, v, more, b)
    <2>1. y = Len(more) /\ y >= 1
      BY <1>1 DEF y
    <2> QED
      BY <2>1, <1>j, <1>2, <1>6, <1>7, <1>9, <1>15
  <1> QED
    BY <1>16 DEF w, v, Kept

LEMMA FrontProperties ==
  ASSUME NEW S, NEW s \in Seq(S), NEW n \in 0..Len(s)
  PROVE  /\ SubSeq(s, 1, n) \in Seq(S) /\ Len(SubSeq(s, 1, n)) = n
         /\ \A i \in 1..n : SubSeq(s, 1, n)[i] = s[i]
  OBVIOUS

\* One step back up the line: a move taken back takes the last note with it.
LEMMA HistoryUp ==
  ASSUME NEW ln, NEW us, NEW notes, NEW b, NEW d, Mapped(d, ln, us, notes, b), us # <<>>,
         NEW fewer,
         fewer = IF us[Len(us)].kind = "null" THEN notes ELSE SubSeq(notes, 1, Len(notes) - 1)
  PROVE  Kept(SubSeq(ln, 1, Len(ln) - 1), SubSeq(us, 1, Len(us) - 1), fewer, b)
  <1>h. PICK S : us \in Seq(S)
    BY DEF Mapped
  <1>i. /\ ln \in Seq(Positions) /\ Len(ln) = Len(us) + 1
        /\ \A k \in 1..Len(us) : us[k].kind \in {"move", "null"}
        /\ notes \in Seq(Notes) /\ Len(notes) >= 1
        /\ d \in [1..Len(ln) -> 1..Len(notes)] /\ d[Len(ln)] = Len(notes)
        /\ Depths(d, ln, us, notes, b)
    BY DEF Mapped
  <1> DEFINE n == Len(us)
             z == Len(notes)
             up == SubSeq(ln, 1, Len(ln) - 1)
             v == SubSeq(us, 1, Len(us) - 1)
             f == [k \in 1..n |-> d[k]]
  <1>1. n \in Nat /\ n >= 1 /\ Len(ln) = n + 1 /\ z \in Nat /\ z >= 1
    BY <1>h, <1>i
  <1>2. /\ Len(up) = n /\ \A k \in 1..n : up[k] = ln[k]
        /\ Len(v) = n - 1 /\ \A k \in 1..(n - 1) : v[k] = us[k]
    <2>1. up = SubSeq(ln, 1, (n + 1) - 1) /\ v = SubSeq(us, 1, n - 1)
      BY <1>1
    <2>2. Len(us) = n
      OBVIOUS
    <2> HIDE DEF n, up, v
    <2>3. (n + 1) - 1 = n /\ n \in 0..Len(ln) /\ n - 1 \in 0..Len(us)
      BY <1>1, <2>2
    <2> QED
      BY <2>1, <2>3, <1>h, <1>i, FrontProperties
  <1>3. d \in [1..(n + 1) -> 1..z] /\ d[n + 1] = z /\ us[n].kind \in {"move", "null"}
    BY <1>1, <1>i
  <1>4. /\ \A k \in 1..n : d[k + 1] = IF us[k].kind = "null" THEN d[k] ELSE d[k] + 1
        /\ \A j, k \in 1..(n + 1) : j <= k => d[j] <= d[k]
        /\ \A k \in 1..(n + 1) : Noted(ln[k].history, notes, d[k], Exact(d[1], b))
        /\ SamePosition(ln[1], notes[d[1]])
        /\ \A k \in 1..n : us[k].kind = "move" => SamePosition(ln[k + 1], notes[d[k + 1]])
    BY <1>1, <1>i DEF Depths
  <1>5. fewer = IF us[n].kind = "null" THEN notes ELSE SubSeq(notes, 1, z - 1)
    OBVIOUS
  <1>6. /\ SubSeq(notes, 1, z - 1) \in Seq(Notes) /\ Len(SubSeq(notes, 1, z - 1)) = z - 1
        /\ \A i \in 1..(z - 1) : SubSeq(notes, 1, z - 1)[i] = notes[i]
    <2>1. Len(notes) = z
      OBVIOUS
    <2> HIDE DEF z
    <2>2. z - 1 \in 0..Len(notes)
      BY <1>1, <2>1
    <2> QED
      BY <2>2, <1>i, FrontProperties
  <1>7. notes \in Seq(Notes)
    BY <1>i
  <1> HIDE DEF n, z, up, v
  <1>8. /\ n \in 1..n /\ n \in 1..(n + 1) /\ 1 \in 1..n /\ 1 \in 1..(n + 1)
        /\ \A k \in 1..n : k \in 1..(n + 1) /\ k <= n
        /\ \A k \in 1..(n - 1) : k \in 1..n /\ k + 1 \in 1..n
    BY <1>1
  <1>9. fewer \in Seq(Notes) /\ Len(fewer) = d[n]
    <2>1. d[n] \in 1..z /\ z = IF us[n].kind = "null" THEN d[n] ELSE d[n] + 1
      BY <1>3, <1>4, <1>8
    <2>2. CASE us[n].kind = "null"
      <3>1. z = Len(notes)
        BY DEF z
      <3> QED
        BY <2>1, <2>2, <3>1, <1>5, <1>7
    <2>3. CASE us[n].kind = "move"
      <3>1. fewer = SubSeq(notes, 1, z - 1) /\ d[n] = z - 1
        BY <2>1, <2>3, <1>1, <1>5
      <3> QED
        BY <3>1, <1>6
    <2> QED
      BY <2>2, <2>3, <1>3
  <1>10. d[n] \in Nat /\ d[n] >= 1 /\ \A i \in 1..d[n] : fewer[i] = notes[i]
    <2>1. d[n] \in 1..z /\ z = IF us[n].kind = "null" THEN d[n] ELSE d[n] + 1
      BY <1>3, <1>4, <1>8
    <2>2. CASE us[n].kind = "null"
      BY <2>1, <2>2, <1>5, <1>1
    <2>3. CASE us[n].kind = "move"
      <3>1. fewer = SubSeq(notes, 1, z - 1) /\ d[n] = z - 1
        BY <2>1, <2>3, <1>1, <1>5
      <3> QED
        BY <2>1, <3>1, <1>1, <1>6
    <2> QED
      BY <2>2, <2>3, <1>3
  <1>11. \A k \in 1..n : f[k] = d[k]
    OBVIOUS
  <1>12. \A k \in 1..n : d[k] \in Nat /\ d[k] \in 1..d[n]
    BY <1>1, <1>3, <1>4, <1>8, <1>10
  <1>13. f \in [1..n -> 1..d[n]]
    BY <1>12
  <1> HIDE DEF f
  <1>14. ASSUME NEW k \in 1..(n - 1)
         PROVE  f[k + 1] = IF v[k].kind = "null" THEN f[k] ELSE f[k] + 1
    BY <1>2, <1>4, <1>8, <1>11
  <1>15. ASSUME NEW j \in 1..n, NEW k \in 1..n, j <= k PROVE f[j] <= f[k]
    BY <1>15, <1>4, <1>8, <1>11
  <1>16. ASSUME NEW k \in 1..n PROVE Noted(up[k].history, fewer, f[k], Exact(f[1], b))
    <2>1. /\ Noted(ln[k].history, notes, d[k], Exact(d[1], b)) /\ d[k] \in Nat
          /\ \A i \in 1..d[k] : fewer[i] = notes[i]
      <3>1. k \in 1..(n + 1) /\ d[k] \in Nat /\ d[k] \in 1..d[n]
        BY <1>8, <1>12
      <3>2. \A i \in 1..d[k] : i \in 1..d[n]
        BY <3>1, <1>10
      <3> QED
        BY <3>1, <3>2, <1>4, <1>10
    <2>2. Noted(ln[k].history, fewer, d[k], Exact(d[1], b))
      BY <2>1, NotedByPrefix
    <2> QED
      BY <2>2, <1>2, <1>8, <1>11
  <1>17. SamePosition(up[1], fewer[f[1]])
    <2>1. up[1] = ln[1] /\ f[1] = d[1] /\ fewer[d[1]] = notes[d[1]]
      BY <1>2, <1>8, <1>10, <1>11, <1>12
    <2> QED
      BY <2>1, <1>4
  <1>18. ASSUME NEW k \in 1..(n - 1), v[k].kind = "move" PROVE SamePosition(up[k + 1], fewer[f[k + 1]])
    <2>1. k + 1 \in 1..n /\ us[k].kind = "move"
      BY <1>18, <1>2, <1>8
    <2>2. SamePosition(ln[k + 1], notes[d[k + 1]])
      BY <2>1, <1>4, <1>8
    <2>3. up[k + 1] = ln[k + 1] /\ f[k + 1] = d[k + 1] /\ fewer[d[k + 1]] = notes[d[k + 1]]
      BY <2>1, <1>2, <1>10, <1>11, <1>12
    <2> QED
      BY <2>2, <2>3
  <1>19. Depths(f, up, v, fewer, b)
    BY <1>2, <1>14, <1>15, <1>16, <1>17, <1>18 DEF Depths
  <1>20. f[n] = Len(fewer) /\ Len(up) = n /\ f \in [1..n -> 1..Len(fewer)]
    BY <1>2, <1>8, <1>9, <1>11, <1>13
  <1> QED
    BY <1>9, <1>10, <1>19, <1>20 DEF up, v, Kept

\* The step that preserves the history: a move of the game starts a new line,
\* a move or a null move of the search goes down, Unmake comes back.
LEMMA HistoryStep == HInv /\ [Next]_vars => Kept(line', undos', past', bookkeeping')
  <1> SUFFICES ASSUME HInv, [Next]_vars PROVE Kept(line', undos', past', bookkeeping')
    OBVIOUS
  <1>1. /\ Sound(pos) /\ pos \in Positions /\ Len(undos) \in Nat /\ Len(line) = Len(undos) + 1
        /\ line \in Seq(Positions) /\ line[Len(line)] = pos /\ DOMAIN undos = 1..Len(undos)
    BY EndOfLine DEF HInv
  <1>2. PICK S : undos \in Seq(S)
    BY DEF HInv, IInv, UndosAreRecords
  <1>3. past \in Seq(Notes) /\ Len(past) >= 1 /\ Len(past) \in Nat
    BY DEF HInv, HistoryInv, Kept
  <1>4. PICK d \in [1..Len(line) -> 1..Len(past)] :
           d[Len(line)] = Len(past) /\ Depths(d, line, undos, past, bookkeeping)
    BY DEF HInv, HistoryInv, Kept
  <1>5. /\ Len(line) \in 1..Len(line) /\ 1 \in 1..Len(line) /\ d[1] \in 1..Len(past)
        /\ Noted(pos.history, past, Len(past), Exact(d[1], bookkeeping))
    <2> DEFINE n == Len(line)
    <2>1. n \in 1..n /\ 1 \in 1..n
      BY <1>1
    <2> QED
      BY <2>1, <1>1, <1>4 DEF Depths
  <1>6. bookkeeping \in BOOLEAN /\ \A i \in 1..Len(undos) : undos[i].kind \in {"move", "null"}
    BY <1>1 DEF HInv, IInv, TypeOK
  <1>m. Mapped(d, line, undos, past, bookkeeping)
    BY <1>1, <1>2, <1>3, <1>4, <1>6 DEF Mapped
  <1>7. ASSUME NEW m, GameMove(m) PROVE Kept(line', undos', past', bookkeeping')
    <2> DEFINE q == MakeMove(pos, m, TRUE)
               note == Record(q, pos.side, IsInCheck(q, q.side))
               more == Append(past, note)
               z == Len(past)
               f == [k \in {1} |-> z + 1]
    <2>1. /\ undos = <<>> /\ undos' = <<>> /\ CanMake(pos, m) /\ pos' = q /\ past' = more
          /\ line' = <<q>> /\ bookkeeping' = bookkeeping
      BY <1>7 DEF GameMove, Play
    <2>2. Len(undos) = 0 /\ Len(line) = 1 /\ d[1] = z
      BY <1>1, <1>4, <2>1
    <2>3. z \in Nat /\ z >= 1 /\ z + 1 \in 1..(z + 1)
      BY <1>3
    <2>4. \A i \in 1..z : i \in Exact(z + 1, bookkeeping) => i \in Exact(d[1], bookkeeping)
      <3> HIDE DEF z
      <3> QED
        BY <2>2, <2>3 DEF Exact
    <2>5. /\ note \in Notes /\ SamePosition(q, note)
          /\ Noted(q.history, more, z + 1, Exact(z + 1, bookkeeping))
      BY <1>1, <1>3, <1>5, <2>1, <2>4, MoveIsNoted
    <2>6. more \in Seq(Notes) /\ Len(more) = z + 1 /\ more[z + 1] = note
      <3> HIDE DEF note
      <3> QED
        BY <1>3, <2>5
    <2>7. Sound(q)
      BY <1>1, <2>1, MoveIsSound
    <2> HIDE DEF q, note, more, z
    <2>8. Len(line') = 1 /\ line'[1] = q /\ Len(undos') = 0
      BY <2>1
    <2>9. 1..1 = {1} /\ f[1] = z + 1 /\ f \in [1..1 -> 1..(z + 1)]
      BY <2>3
    <2> HIDE DEF f
    <2>10. Depths(f, line', undos', past', bookkeeping')
      <3>1. \A k \in 1..0 : FALSE
        OBVIOUS
      <3>2. \A j \in 1..1 : j = 1
        OBVIOUS
      <3>3. \A k \in 1..Len(undos') : FALSE
        BY <2>8
      <3>4. \A j, k \in 1..Len(line') : f[j] <= f[k]
        BY <2>3, <2>8, <2>9, <3>2
      <3>5. \A k \in 1..Len(line') : Noted(line'[k].history, past', f[k], Exact(f[1], bookkeeping'))
        BY <2>1, <2>5, <2>8, <2>9, <3>2
      <3>6. SamePosition(line'[1], past'[f[1]])
        BY <2>1, <2>5, <2>6, <2>8, <2>9
      <3> QED
        BY <3>3, <3>4, <3>5, <3>6 DEF Depths
    <2>11. /\ past' \in Seq(Notes) /\ Len(past') >= 1 /\ f[Len(line')] = Len(past')
           /\ f \in [1..Len(line') -> 1..Len(past')]
      BY <2>1, <2>3, <2>6, <2>8, <2>9
    <2> QED
      BY <2>10, <2>11 DEF Kept
  <1>8. ASSUME NEW m, SearchMove(m) PROVE Kept(line', undos', past', bookkeeping')
    <2> DEFINE q == MakeMove(pos, m, bookkeeping)
               note == Record(q, pos.side, IsInCheck(q, q.side))
               more == Append(past, note)
               u == MoveUndo(UndoFast(pos, m))
               z == Len(past)
    <2>1. /\ CanMakeFast(pos, m) /\ pos' = MakeMoveFast(pos, m, bookkeeping)
          /\ undos' = Append(undos, u) /\ bookkeeping' = bookkeeping
          /\ past' = Append(past, Record(pos', pos.side, IsInCheck(pos', pos'.side)))
          /\ line' = Append(line, pos')
      BY <1>8 DEF SearchMove
    <2>2. CanMake(pos, m) /\ pos' = q
      BY <1>1, <1>6, <2>1, FastIsTrusted
    <2>3. past' = more /\ line' = Append(line, q)
      BY <2>1, <2>2
    <2>4. z \in Nat /\ z >= 1 /\ d[1] \in 1..z
      BY <1>3, <1>5
    <2>5. (z + 1) \in Exact(d[1], bookkeeping) => bookkeeping
      <3> HIDE DEF z
      <3> QED
        BY <2>4 DEF Exact
    <2>6. /\ note \in Notes /\ SamePosition(q, note)
          /\ Noted(q.history, more, z + 1, Exact(d[1], bookkeeping))
      BY <1>1, <1>3, <1>5, <1>6, <2>2, <2>5, MoveIsNoted
    <2>7. more \in Seq(Notes) /\ Len(more) = z + 1 /\ more[z + 1] = note
          /\ \A i \in 1..z : more[i] = past[i]
      <3> HIDE DEF note
      <3> QED
        BY <1>3, <2>6
    <2>8. Sound(q) /\ q \in Positions /\ u.kind = "move"
      BY <1>1, <1>6, <2>2, MoveIsSound DEF Sound, MoveUndo
    <2> HIDE DEF q, note, more, u
    <2>9. Len(more) = IF u.kind = "null" THEN Len(past) ELSE Len(past) + 1
      BY <2>7, <2>8
    <2>10. /\ Noted(q.history, more, Len(more), Exact(d[1], bookkeeping))
           /\ (u.kind = "move" => SamePosition(q, more[Len(more)]))
      BY <2>6, <2>7
    <2>11. StepNoted(d, q, u, past, more, bookkeeping)
      BY <2>7, <2>8, <2>9, <2>10 DEF StepNoted
    <2>12. Kept(Append(line, q), Append(undos, u), more, bookkeeping)
      BY <1>m, <2>11, HistoryDown
    <2> QED
      BY <2>1, <2>3, <2>12
  <1>9. CASE SearchNullMove
    <2> DEFINE q == NullMove(pos)
               u == NullUndo
    <2>1. /\ undos' = Append(undos, u) /\ bookkeeping' = bookkeeping /\ past' = past
          /\ line' = Append(line, q)
      BY <1>9 DEF SearchNullMove
    <2>2. Sound(q) /\ q.history = pos.history /\ u.kind = "null"
      BY <1>1, NullMoveIsSound DEF NullMove, NullUndo, Positions
    <2>3. q \in Positions
      BY <2>2 DEF Sound
    <2> HIDE DEF q, u
    <2>4. StepNoted(d, q, u, past, past, bookkeeping)
      BY <1>3, <1>5, <2>2, <2>3 DEF StepNoted
    <2>5. Kept(Append(line, q), Append(undos, u), past, bookkeeping)
      BY <1>m, <2>4, HistoryDown
    <2> QED
      BY <2>1, <2>5
  <1>10. CASE Unmake
    <2>1. /\ undos # <<>> /\ undos' = SubSeq(undos, 1, Len(undos) - 1)
          /\ line' = SubSeq(line, 1, Len(line) - 1) /\ bookkeeping' = bookkeeping
          /\ past' = IF undos[Len(undos)].kind = "null" THEN past
                     ELSE SubSeq(past, 1, Len(past) - 1)
      BY <1>10 DEF Unmake
    <2>2. Kept(SubSeq(line, 1, Len(line) - 1), SubSeq(undos, 1, Len(undos) - 1), past', bookkeeping)
      BY <1>m, <2>1, HistoryUp
    <2> QED
      BY <2>1, <2>2
  <1>11. CASE SetBookkeeping
    <2>1. /\ undos = <<>> /\ undos' = undos /\ line' = line /\ past' = past
          /\ bookkeeping' = ~bookkeeping
      BY <1>11 DEF SetBookkeeping
    <2>2. Len(undos) = 0 /\ Len(line) = 1 /\ d[1] = Len(past)
      BY <1>1, <1>4, <2>1
    <2>3. Noted(pos.history, past, Len(past), Exact(d[1], ~bookkeeping))
      <3> DEFINE z == Len(past)
      <3>1. \A i \in 1..z : i \in Exact(d[1], ~bookkeeping) => i \in Exact(d[1], bookkeeping)
        <4>1. z \in Nat /\ d[1] = z
          BY <1>3, <2>2
        <4> HIDE DEF z
        <4> QED
          BY <4>1 DEF Exact
      <3> QED
        BY <3>1, <1>3, <1>5, NotedByPrefix
    <2>4. \A k \in 1..Len(line) : k = 1
      BY <2>2
    <2>5. line[1] = pos
      BY <1>1, <2>2
    <2>6. Depths(d, line, undos, past, ~bookkeeping)
      BY <1>4, <2>2, <2>3, <2>4, <2>5 DEF Depths
    <2> QED
      BY <1>3, <1>4, <2>1, <2>6 DEF Kept
  <1>12. CASE UNCHANGED vars
    BY <1>12 DEF vars, HInv, HistoryInv
  <1> QED
    BY <1>7, <1>8, <1>9, <1>10, <1>11, <1>12 DEF Next

LEMMA HistoryPreserved == HInv /\ [Next]_vars => HInv'
  <1> SUFFICES ASSUME HInv, [Next]_vars PROVE HInv'
    OBVIOUS
  <1>1. Kept(line', undos', past', bookkeeping')
    BY HistoryStep
  <1>2. HistoryInv'
    BY <1>1 DEF HistoryInv, Kept, Depths, Noted, NoteHash, SamePosition, Exact, Notes
  <1>3. IInv'
    BY StepPreserves DEF HInv
  <1> QED
    BY <1>2, <1>3 DEF HInv

LEMMA HistoryInvariance == Spec => []HInv
  <1>1. Init => HInv
    BY StartsSound, HistoryStarts DEF HInv
  <1>2. HInv /\ [Next]_vars => HInv'
    BY HistoryPreserved
  <1> QED
    BY <1>1, <1>2, PTL DEF Spec

\* The history of the present position: the referee's last note is of it, but
\* under a null move.
LEMMA PresentHistory ==
  ASSUME HInv, ~UnderNull
  PROVE  /\ Sound(pos) /\ past \in Seq(Notes) /\ Len(past) \in Nat /\ Len(past) >= 1
         /\ SamePosition(pos, Now)
         /\ \E E : /\ Noted(pos.history, past, Len(past), E)
                   /\ bookkeeping \/ undos = <<>> => \A i \in 1..Len(past) : i \in E
  <1>1. /\ Sound(pos) /\ Len(undos) \in Nat /\ Len(line) = Len(undos) + 1
        /\ line[Len(line)] = pos /\ DOMAIN undos = 1..Len(undos)
    BY EndOfLine DEF HInv
  <1>2. past \in Seq(Notes) /\ Len(past) >= 1 /\ Len(past) \in Nat
    BY DEF HInv, HistoryInv, Kept
  <1>3. PICK d \in [1..Len(line) -> 1..Len(past)] :
           d[Len(line)] = Len(past) /\ Depths(d, line, undos, past, bookkeeping)
    BY DEF HInv, HistoryInv, Kept
  <1>4. \A i \in 1..Len(undos) : undos[i].kind = "move"
    BY <1>1 DEF HInv, IInv, TypeOK, UnderNull
  <1> DEFINE n == Len(undos)
  <1>5. Len(line) = n + 1 /\ n \in Nat
    BY <1>1
  <1>6. undos = <<>> => n = 0
    OBVIOUS
  <1> HIDE DEF n
  <1>7. /\ n + 1 \in 1..Len(line) /\ 1 \in 1..Len(line) /\ d[1] \in Nat
        /\ Noted(pos.history, past, Len(past), Exact(d[1], bookkeeping))
    <2>1. n + 1 \in 1..(n + 1) /\ 1 \in 1..(n + 1)
      BY <1>5
    <2>2. d[1] \in 1..Len(past)
      BY <2>1, <1>5
    <2> QED
      BY <2>1, <2>2, <1>1, <1>2, <1>3, <1>5 DEF Depths
  <1>8. SamePosition(pos, Now)
    <2>1. CASE n = 0
      <3>1. SamePosition(line[1], past[d[1]])
        BY <1>3 DEF Depths
      <3>2. Len(line) = 1
        BY <2>1, <1>5
      <3>3. line[1] = pos /\ d[1] = Len(past)
        BY <3>2, <1>1, <1>3
      <3> QED
        BY <3>1, <3>3 DEF Now
    <2>2. CASE n # 0
      <3>1. n \in 1..n
        BY <2>2, <1>5
      <3>2. n \in 1..Len(undos)
        BY <3>1 DEF n
      <3>3. SamePosition(line[n + 1], past[d[n + 1]])
        BY <3>2, <1>3, <1>4 DEF Depths
      <3> QED
        BY <3>3, <1>1, <1>3, <1>5 DEF Now
    <2> QED
      BY <2>1, <2>2
  <1>9. ASSUME bookkeeping \/ undos = <<>>, NEW i \in 1..Len(past)
        PROVE  i \in Exact(d[1], bookkeeping)
    <2>1. i \in Nat
      BY <1>2
    <2>2. CASE bookkeeping
      BY <2>1, <2>2 DEF Exact
    <2>3. CASE undos = <<>>
      <3>1. d[1] = Len(past)
        BY <2>3, <1>3, <1>5, <1>6
      <3> DEFINE z == Len(past)
      <3>2. i \in 1..z /\ z \in Nat /\ d[1] = z
        BY <3>1, <1>2
      <3> HIDE DEF z
      <3> QED
        BY <3>2 DEF Exact
    <2> QED
      BY <1>9, <2>2, <2>3
  <1> QED
    BY <1>1, <1>2, <1>7, <1>8, <1>9

\* A set of natural numbers that is not empty has a least one.
LEMMA NearestIsThere ==
  ASSUME NEW S, S \subseteq Nat, S # {}
  PROVE  Nearest(S) \in S /\ \A m \in S : Nearest(S) <= m
  <1> DEFINE T == {1..n : n \in S}
  <1>1. T \subseteq FiniteSubsetsOf(Nat) /\ T # {}
    <2>1. \A n \in Nat : IsFiniteSet(1..n) /\ (1..n) \subseteq Nat
      BY FS_Interval
    <2> QED
      BY <2>1 DEF FiniteSubsetsOf
  <1>2. PICK x \in T : \A y \in T : ~(<<y, x>> \in StrictSubsetOrdering(Nat))
    <2>1. IsWellFoundedOn(StrictSubsetOrdering(Nat), FiniteSubsetsOf(Nat))
      BY FS_StrictSubsetOrderingWellFounded
    <2> HIDE DEF T
    <2> QED
      BY <1>1, <2>1, WFMin
  <1>3. PICK n \in S : x = 1..n
    OBVIOUS
  <1>4. ASSUME NEW m \in S PROVE n <= m
    <2>1. SUFFICES ASSUME ~(n <= m) PROVE FALSE
      OBVIOUS
    <2>2. m \in Nat /\ n \in Nat /\ m < n
      BY <2>1
    <2>3. <<1..m, 1..n>> \in StrictSubsetOrdering(Nat)
      <3>1. 1..m \subseteq 1..n /\ n \in 1..n /\ n \notin 1..m
        BY <2>2
      <3>2. 1..m # 1..n
        BY <3>1
      <3> QED
        BY <3>1, <3>2 DEF StrictSubsetOrdering
    <2> QED
      BY <1>2, <1>3, <2>3
  <1> QED
    BY <1>4 DEF Nearest

\* The verdict of the engine is the referee's, with the two exceptions stated:
\* for every opening, game, search and size of the history.
THEOREM VerdictsAreRight == Spec => []RepetitionVerdict
  <1>1. ASSUME HInv PROVE RepetitionVerdict
    <2> SUFFICES ASSUME ~UnderNull
                 PROVE  LET verdict == RepetitionResult(pos) IN
        IF Len(past) > MaxHistory
        THEN verdict # "none" => Sennichite # "none"
        ELSE \/ verdict = Sennichite
             \/ /\ ~bookkeeping /\ undos # <<>> /\ Sennichite # "none"
                /\ \/ verdict = "draw"
                   \/ \E c \in Colors : Perpetual(c) /\ verdict = WinnerOver(c)
      BY DEF RepetitionVerdict
    <2> DEFINE h == pos.history
               n == Len(past)
               A == Occurrences(pos)
               B == SameAsNow
    <2>1. /\ Sound(pos) /\ past \in Seq(Notes) /\ n \in Nat /\ n >= 1 /\ SamePosition(pos, Now)
      BY <1>1, PresentHistory
    <2>2. PICK E : /\ Noted(h, past, n, E)
                   /\ bookkeeping \/ undos = <<>> => \A i \in 1..n : i \in E
      BY <1>1, PresentHistory
    <2>3. h \in Seq(HistoryEntries) /\ pos.hash = NoteHash(pos)
          /\ pos.board \in Boards /\ pos.hand \in Hands /\ pos.side \in Colors
      BY <2>1 DEF Sound, Positions, HashIsRight, NoteHash
    <2>4. /\ Len(h) \in Nat /\ DOMAIN h = 1..Len(h) /\ DOMAIN past = 1..n
          /\ Len(h) = IF n <= MaxHistory THEN n ELSE MaxHistory
          /\ MaxHistory \in Nat /\ RepetitionCount \in Nat
      BY <2>1, <2>2, <2>3, LimitsAssumption DEF Noted, LimitsAssumption
    <2>5. \A i \in 1..n : past[i] \in Notes
      BY <2>1
    <2>6. ASSUME NEW i \in 1..n PROVE NoteHash(past[i]) = pos.hash <=> i \in B
      <3>1. SamePosition(past[i], pos) <=> SamePosition(past[i], Now)
        BY <2>1 DEF SamePosition
      <3>2. SamePosition(past[i], Now) <=> i \in B
        BY <2>4 DEF SamePosition, SameAsNow
      <3>3. NoteHash(past[i]) = NoteHash(pos) <=> SamePosition(past[i], pos)
        BY <2>3, <2>5, HashTellsPositions DEF Notes
      <3> QED
        BY <3>1, <3>2, <3>3, <2>3
    <2>7. B \subseteq 1..n /\ IsFiniteSet(B)
      <3>1. B \subseteq 1..n
        BY <2>4 DEF SameAsNow
      <3>2. IsFiniteSet(1..n)
        BY <2>1, FS_Interval
      <3> QED
        BY <3>1, <3>2, FS_Subset
    <2> HIDE DEF n, B
    <2>8. A \subseteq B
      <3>1. \A i \in 1..Len(h) : i \in 1..n
        BY <2>1, <2>4
      <3> QED
        BY <3>1, <2>2, <2>4, <2>6 DEF Occurrences, Noted
    <2>9. Cardinality(A) <= Cardinality(B) /\ Cardinality(A) \in Nat /\ Cardinality(B) \in Nat
      BY <2>7, <2>8, FS_Subset, FS_CardinalityType
    <2>10. CASE n > MaxHistory
      <3>1. ASSUME RepetitionResult(pos) # "none" PROVE Sennichite # "none"
        <4>1. ~(Cardinality(A) < RepetitionCount)
          BY <3>1 DEF RepetitionResult
        <4>2. ~(Cardinality(B) < RepetitionCount)
          <5> HIDE DEF A
          <5> QED
            BY <4>1, <2>4, <2>9
        <4> QED
          BY <4>2 DEF Sennichite, B
      <3> QED
        BY <3>1, <2>10 DEF n
    <2>11. CASE ~(n > MaxHistory)
      <3>1. Len(h) = n
        BY <2>11, <2>1, <2>4
      <3>2. A = B
        <4>1. \A i \in 1..n : i \in A <=> i \in B
          BY <3>1, <2>2, <2>4, <2>6 DEF Occurrences, Noted
        <4> QED
          BY <4>1, <2>7, <2>8
      <3> DEFINE start == Nearest(LastOnes(B))
      <3>3. \A i \in 1..n : /\ h[i].mover = past[i].mover /\ (h[i].check => past[i].check)
                            /\ (i \in E /\ past[i].check => h[i].check)
        BY <3>1, <2>2 DEF Noted
      <3>4. start \in 1..n
        <4>1. n \in B
          <5>1. n \in 1..n /\ past[n] = Now
            BY <2>1 DEF Now, n
          <5> QED
            BY <5>1, <2>4 DEF SameAsNow, B
        <4>2. {j \in B : j > n} = {}
          <5>1. n \in Nat /\ \A j \in B : j \in 1..n
            BY <2>1, <2>7
          <5>2. \A j \in 1..n : ~(j > n)
            BY <5>1
          <5> QED
            BY <5>1, <5>2
        <4>3. Cardinality({j \in B : j > n}) < RepetitionCount
          BY <4>2, FS_EmptySet, LimitsAssumption DEF LimitsAssumption
        <4>4. n \in LastOnes(B)
          BY <4>1, <4>3 DEF LastOnes
        <4>5. LastOnes(B) \subseteq 1..n /\ LastOnes(B) \subseteq Nat
          <5>1. LastOnes(B) \subseteq B
            BY DEF LastOnes
          <5>2. 1..n \subseteq Nat
            BY <2>1
          <5> QED
            BY <5>1, <5>2, <2>7
        <4> QED
          BY <4>4, <4>5, NearestIsThere
      <3> HIDE DEF start
      <3>5. \A i \in (start + 1)..n : i \in 1..n
        BY <2>1, <3>4
      <3>6. ASSUME NEW c, PerpetualSince(h, start, c) PROVE Perpetual(c)
        BY <3>1, <3>3, <3>5, <3>6 DEF PerpetualSince, Perpetual, start, n, B
      <3>7. ASSUME bookkeeping \/ undos = <<>>, NEW c, Perpetual(c) PROVE PerpetualSince(h, start, c)
        BY <2>2, <3>1, <3>3, <3>5, <3>7 DEF PerpetualSince, Perpetual, start, n, B
      <3> DEFINE verdict == RepetitionResult(pos)
      <3>8. verdict = IF Cardinality(B) < RepetitionCount THEN "none"
                      ELSE IF PerpetualSince(h, start, Black) THEN WinnerOver(Black)
                      ELSE IF PerpetualSince(h, start, White) THEN WinnerOver(White)
                      ELSE "draw"
        BY <3>2 DEF RepetitionResult, start
      <3>9. Sennichite = IF Cardinality(B) < RepetitionCount THEN "none"
                         ELSE IF Perpetual(Black) THEN WinnerOver(Black)
                         ELSE IF Perpetual(White) THEN WinnerOver(White) ELSE "draw"
        BY DEF Sennichite, B, WinnerOver, Black, White
      <3> HIDE DEF verdict
      <3>10. CASE bookkeeping \/ undos = <<>>
        <4>1. verdict = Sennichite
          BY <3>6, <3>7, <3>8, <3>9, <3>10
        <4> QED
          BY <4>1, <2>11 DEF n, verdict
      <3>11. CASE ~(bookkeeping \/ undos = <<>>)
        <4>1. ~bookkeeping /\ undos # <<>>
          BY <3>11 DEF HInv, IInv, TypeOK
        <4>2. \/ verdict = Sennichite
              \/ /\ Sennichite # "none"
                 /\ \/ verdict = "draw"
                    \/ \E c \in Colors : Perpetual(c) /\ verdict = WinnerOver(c)
          <5>1. Black \in Colors /\ White \in Colors
            BY DEF Colors
          <5>2. Sennichite = "none" => Cardinality(B) < RepetitionCount
            BY <3>9 DEF WinnerOver
          <5> QED
            BY <5>1, <5>2, <3>6, <3>8, <3>9
        <4> QED
          BY <4>1, <4>2, <2>11 DEF n, verdict
      <3> QED
        BY <3>10, <3>11
    <2> QED
      BY <2>10, <2>11
  <1> QED
    BY <1>1, HistoryInvariance, PTL

-----------------------------------------------------------------------------
(***************************************************************************)
(* 3.  NnueState: the evaluator state on the line.                         *)
(***************************************************************************)
-----------------------------------------------------------------------------
(***************************************************************************)
(* Sums.  The sum of a position counts each of its features once.          *)
(***************************************************************************)
Once(F) == [f \in F |-> 1]

LEMMA FreshCountsOnce ==
  ASSUME NEW p, NEW c
  PROVE  FreshSum(p, c) = Once(FeatureIds(p, c))
  <1> DEFINE F == FeatureIds(p, c)
  <1> HIDE DEF F
  <1>1. DOMAIN ZeroSum = {} /\ \A f : Count(ZeroSum, f) = 0
    BY DEF ZeroSum, Count
  <1>2. {g \in {} \cup F : Count(ZeroSum, g) + (IF g \in F THEN 1 ELSE 0) # 0} = F
    BY <1>1
  <1>3. AddRows(ZeroSum, F, 1) = [f \in F |-> Count(ZeroSum, f) + (IF f \in F THEN 1 ELSE 0)]
    BY <1>1, <1>2 DEF AddRows
  <1>4. \A f \in F : Count(ZeroSum, f) + (IF f \in F THEN 1 ELSE 0) = 1
    BY <1>1
  <1>5. AddRows(ZeroSum, F, 1) = Once(F)
    BY <1>3, <1>4 DEF Once
  <1> QED
    BY <1>5 DEF FreshSum, F

\* Rows that are in the sum can be taken away, rows that are not can be added.
LEMMA RowsLeave ==
  ASSUME NEW F, NEW R \in SUBSET F
  PROVE  AddRows(Once(F), R, -1) = Once(F \ R)
  <1>1. DOMAIN Once(F) = F /\ \A f \in F : Count(Once(F), f) = 1
    BY DEF Once, Count
  <1>2. {g \in F \cup R : Count(Once(F), g) + (IF g \in R THEN -1 ELSE 0) # 0} = F \ R
    BY <1>1
  <1>3. AddRows(Once(F), R, -1) = [f \in F \ R |-> Count(Once(F), f) + (IF f \in R THEN -1 ELSE 0)]
    BY <1>1, <1>2 DEF AddRows
  <1>4. \A f \in F \ R : Count(Once(F), f) + (IF f \in R THEN -1 ELSE 0) = 1
    BY <1>1
  <1> QED
    BY <1>3, <1>4 DEF Once

LEMMA RowsJoin ==
  ASSUME NEW F, NEW A, A \cap F = {}
  PROVE  AddRows(Once(F), A, 1) = Once(F \cup A)
  <1>1. /\ DOMAIN Once(F) = F /\ \A f \in F : Count(Once(F), f) = 1
        /\ \A f \in A : Count(Once(F), f) = 0
    BY DEF Once, Count
  <1>2. {g \in F \cup A : Count(Once(F), g) + (IF g \in A THEN 1 ELSE 0) # 0} = F \cup A
    BY <1>1
  <1>3. AddRows(Once(F), A, 1) = [f \in F \cup A |-> Count(Once(F), f) + (IF f \in A THEN 1 ELSE 0)]
    BY <1>1, <1>2 DEF AddRows
  <1>4. \A f \in F \cup A : Count(Once(F), f) + (IF f \in A THEN 1 ELSE 0) = 1
    BY <1>1
  <1> QED
    BY <1>3, <1>4 DEF Once

-----------------------------------------------------------------------------
(***************************************************************************)
(* Features.  Different things on a board or in a hand are different       *)
(* features, whichever side looks.                                         *)
(***************************************************************************)
LEMMA FeaturesAreDistinct ==
  ASSUME NEW c \in Colors, NEW k
  PROVE  /\ \A s, q \in Squares, x, y \in Pieces :
               BoardFeature(k, s, x, c) = BoardFeature(k, q, y, c) => s = q /\ x = y
         /\ \A o, d \in Colors : \A t, u : \A n, j \in 0..MaxInHand :
               HandFeature(o, t, n, c) = HandFeature(d, u, j, c) => o = d /\ t = u /\ n = j
         /\ \A s, x, o, t, n : BoardFeature(k, s, x, c) # HandFeature(o, t, n, c)
  <1>1. \A s, q \in Squares : Oriented(s, c) = Oriented(q, c) => s = q
    BY DEF Oriented, Squares, NoSquare
  <1>2. \A o, d \in Colors : Relative(o, c) = Relative(d, c) => o = d
    BY DEF Relative, Colors, Black, White
  <1>3. ASSUME NEW s \in Squares, NEW q \in Squares, NEW x \in Pieces, NEW y \in Pieces,
               BoardFeature(k, s, x, c) = BoardFeature(k, q, y, c)
        PROVE  s = q /\ x = y
    <2>1. /\ Relative(x.color, c) = Relative(y.color, c) /\ x.type = y.type
          /\ Oriented(s, c) = Oriented(q, c)
      BY <1>3 DEF BoardFeature
    <2>2. x.color = y.color /\ s = q
      BY <2>1, <1>1, <1>2 DEF Pieces
    <2> QED
      BY <2>1, <2>2 DEF Pieces
  <1>4. ASSUME NEW o \in Colors, NEW d \in Colors, NEW t, NEW u,
               NEW n \in 0..MaxInHand, NEW j \in 0..MaxInHand,
               HandFeature(o, t, n, c) = HandFeature(d, u, j, c)
        PROVE  o = d /\ t = u /\ n = j
    <2>1. ~(n > MaxInHand) /\ ~(j > MaxInHand)
      BY LimitsAssumption DEF LimitsAssumption
    <2>2. Relative(o, c) = Relative(d, c) /\ t = u /\ n = j
      BY <2>1, <1>4 DEF HandFeature
    <2> QED
      BY <2>2, <1>2
  <1>5. \A s, x, o, t, n : BoardFeature(k, s, x, c) # HandFeature(o, t, n, c)
    BY DEF BoardFeature, HandFeature
  <1> QED
    BY <1>3, <1>4, <1>5

\* The features there are when the king that looks is on k.
Features(k, c) ==
    {BoardFeature(k, s, x, c) : s \in Squares, x \in Pieces}
    \cup {HandFeature(o, t, n, c) : o \in Colors, t \in HandTypes, n \in 0..MaxInHand}

LEMMA FeatureMembers ==
  ASSUME NEW p, p.board \in Boards, p.hand \in Hands, KingsAreCached(p), NEW c \in Colors
  PROVE  LET k == p.king[c]
             F == FeatureIds(p, c)
         IN  /\ F \in SUBSET Features(k, c)
             /\ \A s \in Squares, x \in Pieces : BoardFeature(k, s, x, c) \in F <=> p.board[s] = x
             /\ \A o \in Colors, t \in HandTypes, n \in 0..MaxInHand :
                   HandFeature(o, t, n, c) \in F <=> p.hand[o][t] = n
  <1> DEFINE k == p.king[c]
             F == FeatureIds(p, c)
  <1>1. /\ \A s \in Squares : p.board[s] \in Pieces \cup {Empty}
        /\ \A o \in Colors, t \in HandTypes : p.hand[o][t] \in 0..MaxInHand
        /\ Empty \notin Pieces
    BY PieceFacts DEF Boards, Hands
  <1>2. k \in KingSquares(p.board, c)
    BY DEF KingsAreCached
  <1>3. F = {BoardFeature(k, s, p.board[s], c) : s \in {q \in Squares : p.board[q] # Empty}}
            \cup {HandFeature(o, t, p.hand[o][t], c) : o \in Colors, t \in HandTypes}
    BY <1>2 DEF FeatureIds
  <1> HIDE DEF k, F
  <1>4. F \in SUBSET Features(k, c)
    BY <1>1, <1>3 DEF Features
  <1>5. ASSUME NEW s \in Squares, NEW x \in Pieces
        PROVE  BoardFeature(k, s, x, c) \in F <=> p.board[s] = x
    BY <1>1, <1>3, FeaturesAreDistinct
  <1>6. ASSUME NEW o \in Colors, NEW t \in HandTypes, NEW n \in 0..MaxInHand
        PROVE  HandFeature(o, t, n, c) \in F <=> p.hand[o][t] = n
    BY <1>1, <1>3, FeaturesAreDistinct
  <1> QED
    BY <1>4, <1>5, <1>6 DEF k, F

LEMMA SameFeatures ==
  ASSUME NEW k, NEW c, NEW A \in SUBSET Features(k, c), NEW B \in SUBSET Features(k, c),
         \A s \in Squares, x \in Pieces :
            BoardFeature(k, s, x, c) \in A <=> BoardFeature(k, s, x, c) \in B,
         \A o \in Colors, t \in HandTypes, n \in 0..MaxInHand :
            HandFeature(o, t, n, c) \in A <=> HandFeature(o, t, n, c) \in B
  PROVE  A = B
  <1>1. \A f \in Features(k, c) : f \in A <=> f \in B
    BY DEF Features
  <1> QED
    BY <1>1

\* A move that does not move the king that looks takes features away that were
\* there and brings features that were not, and nothing else changes.
LEMMA MoveShiftsFeatures ==
  ASSUME NEW p, Sound(p), NEW m, CanMake(p, m), NEW b \in BOOLEAN, NEW c \in Colors,
         ~Rebuilds(Undo(p, m), c)
  PROVE  LET q == MakeMove(p, m, b)
             F == FeatureIds(p, c)
             R == Removed(q, Undo(p, m), c)
             A == Added(q, Undo(p, m), c)
         IN  /\ R \subseteq F /\ A \cap (F \ R) = {}
             /\ FeatureIds(q, c) = (F \ R) \cup A
  <1> DEFINE q == MakeMove(p, m, b)
             u == Undo(p, m)
             k == p.king[c]
             d == p.side
             F == FeatureIds(p, c)
             G == FeatureIds(q, c)
             R == Removed(q, u, c)
             A == Added(q, u, c)
             landed == Landed(p.board, p.side, m)
             BF(s, x) == BoardFeature(k, s, x, c)
             HF(o, t, n) == HandFeature(o, t, n, c)
  <1>0. /\ p \in Positions /\ KingsAreCached(p) /\ p.board \in Boards /\ p.hand \in Hands
        /\ d \in Colors /\ p.king \in [Colors -> Squares \cup {NoSquare}]
    BY DEF Sound, Positions
  <1>1. /\ Sound(q) /\ q.board = BoardAfter(p, m) /\ q.hand = HandAfter(p, m)
        /\ q.king = KingAfter(p, m)
    BY <1>0, MoveIsSound, MakeMoveFields
  <1>2. /\ BoardAfter(p, m) \in Boards /\ landed \in Pieces /\ HandAfter(p, m) \in Hands
        /\ m.to \in Squares
    BY <1>0, BoardAfterTyped, HandAfterTyped DEF CanMake
  <1>3. /\ F \in SUBSET Features(k, c)
        /\ \A s \in Squares, x \in Pieces : BF(s, x) \in F <=> p.board[s] = x
        /\ \A o \in Colors, t \in HandTypes, n \in 0..MaxInHand : HF(o, t, n) \in F <=> p.hand[o][t] = n
    BY <1>0, FeatureMembers
  <1>4. q.king[c] = k
    <2>1. CASE IsDrop(m)
      <3>1. landed.type = m.drop /\ m.drop # "king"
        BY <2>1, <1>0, DropFacts, PieceFacts DEF Landed, Piece
      <3> QED
        BY <3>1, <1>1 DEF KingAfter
    <2>2. CASE ~IsDrop(m)
      <3>1. /\ u.moving = p.board[m.from] /\ u.color = d /\ p.board[m.from] \in Pieces
            /\ landed.type = "king" <=> p.board[m.from].type = "king"
        BY <2>2, <1>0, StepFacts, PieceFacts DEF Undo, Landed, Piece, Pieces
      <3>2. landed.type = "king" => d # c
        BY <3>1, PieceFacts DEF Rebuilds
      <3> QED
        BY <3>2, <1>0, <1>1 DEF KingAfter
    <2> QED BY <2>1, <2>2
  <1>5. /\ G \in SUBSET Features(k, c)
        /\ \A s \in Squares, x \in Pieces : BF(s, x) \in G <=> BoardAfter(p, m)[s] = x
        /\ \A o \in Colors, t \in HandTypes, n \in 0..MaxInHand :
              HF(o, t, n) \in G <=> HandAfter(p, m)[o][t] = n
    <2>1. q.board \in Boards /\ q.hand \in Hands /\ KingsAreCached(q)
      BY <1>1, <1>2 DEF Sound
    <2> HIDE DEF q
    <2> QED
      BY <2>1, <1>1, <1>4, FeatureMembers
  <1>6. /\ \A s, z \in Squares, x, y \in Pieces : BF(s, x) = BF(z, y) => s = z /\ x = y
        /\ \A o, e \in Colors : \A t, v : \A n, j \in 0..MaxInHand :
              HF(o, t, n) = HF(e, v, j) => o = e /\ t = v /\ n = j
        /\ \A s, x, o, t, n : BF(s, x) # HF(o, t, n)
    BY FeaturesAreDistinct
  <1>7. /\ Empty \notin Pieces /\ p.board \in [Squares -> Pieces \cup {Empty}]
        /\ p.hand \in [Colors -> [HandTypes -> 0..MaxInHand]]
    BY <1>0, PieceFacts DEF Boards, Hands
  <1>8. /\ \A s \in Squares, x \in Pieces : BF(s, x) \in Features(k, c)
        /\ \A o \in Colors, t \in HandTypes, n \in 0..MaxInHand : HF(o, t, n) \in Features(k, c)
    BY DEF Features
  <1>20. SUFFICES R \subseteq F /\ A \cap (F \ R) = {} /\ G = (F \ R) \cup A
    OBVIOUS
  <1>9. CASE IsDrop(m)
    <2> DEFINE t == m.drop
               n == p.hand[d][t]
    <2>1. /\ p.board[m.to] = Empty /\ t \in HandTypes
          /\ n \in 0..MaxInHand /\ n - 1 \in 0..MaxInHand /\ n # n - 1
      BY <1>9, <1>0, DropFacts, LimitsAssumption DEF LimitsAssumption
    <2>2. BoardAfter(p, m) = [p.board EXCEPT ![m.to] = landed]
      BY <1>9 DEF BoardAfter
    <2>3. HandAfter(p, m) = [p.hand EXCEPT ![d][t] = n - 1]
      BY <1>9 DEF HandAfter
    <2>4. /\ \A s \in Squares : BoardAfter(p, m)[s] = IF s = m.to THEN landed ELSE p.board[s]
          /\ \A o \in Colors, v \in HandTypes :
                HandAfter(p, m)[o][v] = IF o = d /\ v = t THEN n - 1 ELSE p.hand[o][v]
      BY <2>1, <2>2, <2>3, <1>0, <1>2, <1>7
    <2>5. R = {HF(d, t, n)}
      BY <1>9 DEF Removed, Undo
    <2>6. A = {BF(m.to, landed), HF(d, t, n - 1)}
      <3>1. u.move = m /\ u.color = d /\ u.touched = TRUE /\ u.index = t
        BY <1>9 DEF Undo
      <3>2. q.board[m.to] = landed /\ q.hand[d][t] = n - 1 /\ q.king[c] = k
        BY <1>0, <1>1, <1>2, <1>4, <2>1, <2>4
      <3> HIDE DEF q, u, n, t, landed, k, d
      <3> QED
        BY <3>1, <3>2 DEF Added
    <2> HIDE DEF F, G, R, A, BF, HF, n, t, landed, k, d, u, q
    <2>7. R \subseteq F
      BY <2>1, <2>5, <1>0, <1>3 DEF n
    <2>8. A \cap (F \ R) = {}
      <3>1. BF(m.to, landed) \notin F
        BY <2>1, <1>2, <1>3, <1>7
      <3>2. HF(d, t, n - 1) \notin F
        BY <2>1, <1>0, <1>3 DEF n
      <3> QED BY <3>1, <3>2, <2>6
    <2>9. ASSUME NEW s \in Squares, NEW x \in Pieces
          PROVE  BF(s, x) \in G <=> BF(s, x) \in (F \ R) \cup A
      <3>1. BF(s, x) \in (F \ R) \cup A <=> p.board[s] = x \/ (s = m.to /\ x = landed)
        BY <2>5, <2>6, <1>2, <1>3, <1>6
      <3> QED
        BY <3>1, <2>1, <2>4, <1>2, <1>5, <1>7
    <2>10. ASSUME NEW o \in Colors, NEW v \in HandTypes, NEW j \in 0..MaxInHand
           PROVE  HF(o, v, j) \in G <=> HF(o, v, j) \in (F \ R) \cup A
      <3>1. HF(o, v, j) \in (F \ R) \cup A
            <=> \/ p.hand[o][v] = j /\ ~(o = d /\ v = t /\ j = n)
                \/ o = d /\ v = t /\ j = n - 1
        BY <2>1, <2>5, <2>6, <1>0, <1>3, <1>6
      <3> QED
        BY <3>1, <2>1, <2>4, <1>0, <1>5 DEF n
    <2>11. (F \ R) \cup A \in SUBSET Features(k, c)
      BY <1>0, <1>2, <1>3, <1>8, <2>1, <2>6
    <2>12. G = (F \ R) \cup A
      BY <2>9, <2>10, <2>11, <1>5, SameFeatures DEF BF, HF
    <2> QED
      BY <2>7, <2>8, <2>12
  <1>10. CASE ~IsDrop(m) /\ p.board[m.to] = Empty
    <2> DEFINE moving == p.board[m.from]
    <2>1. m.from \in Squares /\ m.from # m.to /\ moving \in Pieces
      BY <1>0, <1>10, StepFacts
    <2>2. BoardAfter(p, m) = [p.board EXCEPT ![m.from] = Empty, ![m.to] = landed]
      BY <1>10 DEF BoardAfter
    <2>3. HandAfter(p, m) = p.hand
      BY <1>10 DEF HandAfter
    <2>4. \A s \in Squares : BoardAfter(p, m)[s] =
             IF s = m.to THEN landed ELSE IF s = m.from THEN Empty ELSE p.board[s]
      BY <2>1, <2>2, <1>2, <1>7
    <2>5. R = {BF(m.from, moving)}
      BY <1>10, <1>4 DEF Removed, Undo
    <2>6. A = {BF(m.to, landed)}
      BY <1>10, <1>1, <1>2, <1>4, <2>4 DEF Added, Undo
    <2>15. p.board[m.from] = moving /\ p.board[m.to] = Empty
      BY <1>10
    <2> HIDE DEF F, G, R, A, BF, HF, landed, k, d, u, q, moving
    <2>7. R \subseteq F
      BY <2>1, <2>5, <2>15, <1>3
    <2>8. A \cap (F \ R) = {}
      BY <2>6, <2>15, <1>2, <1>3, <1>7
    <2>9. ASSUME NEW s \in Squares, NEW x \in Pieces
          PROVE  BF(s, x) \in G <=> BF(s, x) \in (F \ R) \cup A
      <3>1. BF(s, x) \in (F \ R) \cup A
            <=> (p.board[s] = x /\ ~(s = m.from /\ x = moving)) \/ (s = m.to /\ x = landed)
        BY <2>1, <2>5, <2>6, <1>2, <1>3, <1>6
      <3> QED
        BY <3>1, <2>1, <2>4, <2>15, <1>2, <1>5, <1>7
    <2>10. ASSUME NEW o \in Colors, NEW v \in HandTypes, NEW j \in 0..MaxInHand
           PROVE  HF(o, v, j) \in G <=> HF(o, v, j) \in (F \ R) \cup A
      BY <2>3, <2>5, <2>6, <1>3, <1>5, <1>6
    <2>11. (F \ R) \cup A \in SUBSET Features(k, c)
      BY <1>2, <1>3, <1>8, <2>6
    <2>12. G = (F \ R) \cup A
      BY <2>9, <2>10, <2>11, <1>5, SameFeatures DEF BF, HF
    <2> QED
      BY <2>7, <2>8, <2>12
  <1>11. CASE ~IsDrop(m) /\ p.board[m.to] # Empty
    <2> DEFINE moving == p.board[m.from]
               captured == p.board[m.to]
               t == UnpromotedType(captured.type)
               n == p.hand[d][t]
    <2>1. /\ m.from \in Squares /\ m.from # m.to /\ moving \in Pieces
          /\ captured \in Pieces /\ t \in HandTypes /\ n \in 0..(MaxInHand - 1)
          /\ captured.color = Opponent(d) /\ moving.color = d
      BY <1>0, <1>11, StepFacts
    <2>2. n \in 0..MaxInHand /\ n + 1 \in 0..MaxInHand /\ n # n + 1
      BY <2>1, LimitsAssumption DEF LimitsAssumption
    <2>3. landed # captured
      <3>1. landed.color = d
        BY <2>1, <1>11 DEF Landed, Piece
      <3> QED
        BY <3>1, <2>1, <1>0, PieceFacts
    <2>4. BoardAfter(p, m) = [p.board EXCEPT ![m.from] = Empty, ![m.to] = landed]
      BY <1>11 DEF BoardAfter
    <2>5. HandAfter(p, m) = [p.hand EXCEPT ![d][t] = n + 1]
      BY <1>11 DEF HandAfter
    <2>6. /\ \A s \in Squares : BoardAfter(p, m)[s] =
                IF s = m.to THEN landed ELSE IF s = m.from THEN Empty ELSE p.board[s]
          /\ \A o \in Colors, v \in HandTypes :
                HandAfter(p, m)[o][v] = IF o = d /\ v = t THEN n + 1 ELSE p.hand[o][v]
      <3>1. \A s \in Squares : BoardAfter(p, m)[s] =
               IF s = m.to THEN landed ELSE IF s = m.from THEN Empty ELSE p.board[s]
        BY <2>1, <2>4, <1>2, <1>7
      <3> HIDE DEF n, t, d
      <3>2. \A o \in Colors, v \in HandTypes :
               HandAfter(p, m)[o][v] = IF o = d /\ v = t THEN n + 1 ELSE p.hand[o][v]
        BY <2>1, <2>2, <2>5, <1>0, <1>7
      <3> QED BY <3>1, <3>2
    <2>7. R = {BF(m.from, moving), BF(m.to, captured), HF(d, t, n)}
      BY <1>11, <1>4 DEF Removed, Undo
    <2>8. A = {BF(m.to, landed), HF(d, t, n + 1)}
      <3>1. u.move = m /\ u.color = d /\ u.touched = TRUE /\ u.index = t
        BY <1>11 DEF Undo
      <3>2. q.board[m.to] = landed /\ q.hand[d][t] = n + 1 /\ q.king[c] = k
        BY <1>0, <1>1, <1>2, <1>4, <2>1, <2>6
      <3> HIDE DEF q, u, n, t, landed, k, d
      <3> QED
        BY <3>1, <3>2 DEF Added
    <2>15. p.board[m.from] = moving /\ p.board[m.to] = captured /\ p.hand[d][t] = n
      OBVIOUS
    <2> HIDE DEF F, G, R, A, BF, HF, landed, k, d, u, q, moving, captured, t, n
    <2>9. R \subseteq F
      BY <2>1, <2>2, <2>7, <2>15, <1>0, <1>2, <1>3
    <2>10. A \cap (F \ R) = {}
      <3>1. BF(m.to, landed) \notin F
        BY <2>3, <2>15, <1>2, <1>3
      <3>2. HF(d, t, n + 1) \notin F
        BY <2>1, <2>2, <2>15, <1>0, <1>3
      <3> QED BY <3>1, <3>2, <2>8
    <2>11. ASSUME NEW s \in Squares, NEW x \in Pieces
           PROVE  BF(s, x) \in G <=> BF(s, x) \in (F \ R) \cup A
      <3>1. BF(s, x) \in (F \ R) \cup A
            <=> \/ /\ p.board[s] = x
                   /\ ~(s = m.from /\ x = moving) /\ ~(s = m.to /\ x = captured)
                \/ s = m.to /\ x = landed
        BY <2>1, <2>7, <2>8, <1>2, <1>3, <1>6
      <3> QED
        BY <3>1, <2>1, <2>6, <2>15, <1>2, <1>5, <1>7
    <2>12. ASSUME NEW o \in Colors, NEW v \in HandTypes, NEW j \in 0..MaxInHand
           PROVE  HF(o, v, j) \in G <=> HF(o, v, j) \in (F \ R) \cup A
      <3>1. HF(o, v, j) \in (F \ R) \cup A
            <=> \/ p.hand[o][v] = j /\ ~(o = d /\ v = t /\ j = n)
                \/ o = d /\ v = t /\ j = n + 1
        BY <2>1, <2>2, <2>7, <2>8, <1>0, <1>3, <1>6
      <3> QED
        BY <3>1, <2>1, <2>2, <2>6, <2>15, <1>0, <1>5
    <2>13. (F \ R) \cup A \in SUBSET Features(k, c)
      BY <1>0, <1>2, <1>3, <1>8, <2>1, <2>2, <2>8
    <2>14. G = (F \ R) \cup A
      BY <2>11, <2>12, <2>13, <1>5, SameFeatures DEF BF, HF
    <2> QED
      BY <2>9, <2>10, <2>14
  <1> QED
    BY <1>9, <1>10, <1>11

\* nnue_state_make_callback follows the position, and its delta leads back.
LEMMA SumFollowsTheMove ==
  ASSUME NEW p, Sound(p), NEW m, CanMake(p, m), NEW b \in BOOLEAN, NEW c \in Colors,
         ~Rebuilds(Undo(p, m), c)
  PROVE  LET q == MakeMove(p, m, b)
             R == Removed(q, Undo(p, m), c)
             A == Added(q, Undo(p, m), c)
         IN  /\ AddRows(AddRows(FreshSum(p, c), R, -1), A, 1) = FreshSum(q, c)
             /\ SumBefore(FreshSum(q, c), Delta(R, A)) = FreshSum(p, c)
  <1> DEFINE q == MakeMove(p, m, b)
             F == FeatureIds(p, c)
             G == FeatureIds(q, c)
             R == Removed(q, Undo(p, m), c)
             A == Added(q, Undo(p, m), c)
  <1>1. R \subseteq F /\ A \cap (F \ R) = {} /\ G = (F \ R) \cup A
    BY MoveShiftsFeatures
  <1>2. FreshSum(p, c) = Once(F) /\ FreshSum(q, c) = Once(G)
    BY FreshCountsOnce
  <1> HIDE DEF q, F, G, R, A
  <1>3. AddRows(AddRows(Once(F), R, -1), A, 1) = Once(G)
    <2>1. AddRows(Once(F), R, -1) = Once(F \ R)
      BY <1>1, RowsLeave
    <2>2. AddRows(Once(F \ R), A, 1) = Once((F \ R) \cup A)
      BY <1>1, RowsJoin
    <2> QED
      BY <2>1, <2>2, <1>1
  <1>4. AddRows(AddRows(Once(G), A, -1), R, 1) = Once(F)
    <2>1. A \in SUBSET G /\ G \ A = F \ R /\ R \cap (F \ R) = {} /\ (F \ R) \cup R = F
      BY <1>1
    <2>2. AddRows(Once(G), A, -1) = Once(F \ R)
      BY <2>1, RowsLeave
    <2>3. AddRows(Once(F \ R), R, 1) = Once((F \ R) \cup R)
      BY <2>1, RowsJoin
    <2> QED
      BY <2>1, <2>2, <2>3
  <1>5. SumBefore(Once(G), Delta(R, A)) = AddRows(AddRows(Once(G), A, -1), R, 1)
    BY DEF SumBefore, Delta
  <1> QED
    BY <1>2, <1>3, <1>4, <1>5 DEF q, R, A

\* Two positions of one hash have one board and one pair of hands, so one sum.
LEMMA SameHashSameSum ==
  ASSUME NEW p, Sound(p), NEW q, Sound(q), p.hash = q.hash, NEW c \in Colors
  PROVE  FreshSum(p, c) = FreshSum(q, c)
  <1> DEFINE k == p.king[c]
             F == FeatureIds(p, c)
             G == FeatureIds(q, c)
  <1>1. /\ p.board \in Boards /\ p.hand \in Hands /\ p.side \in Colors /\ KingsAreCached(p)
        /\ q.board \in Boards /\ q.hand \in Hands /\ q.side \in Colors /\ KingsAreCached(q)
        /\ p.hash = PositionHash(p.board, p.hand, p.side)
        /\ q.hash = PositionHash(q.board, q.hand, q.side)
    BY DEF Sound, Positions, HashIsRight
  <1>2. /\ \A s \in Squares, x \in Pieces : p.board[s] = x <=> q.board[s] = x
        /\ \A o \in Colors, t \in HandTypes, n \in 0..MaxInHand : p.hand[o][t] = n <=> q.hand[o][t] = n
    <2> DEFINE H == PositionHash(p.board, p.hand, p.side)
    <2>1. /\ \A s \in Squares, x \in Pieces : BoardKey(s, x) \in H <=> p.board[s] = x
          /\ \A o \in Colors, t \in HandTypes, n \in 0..MaxInHand : HandKey(o, t, n) \in H <=> p.hand[o][t] = n
      BY <1>1, HashMembers
    <2>2. H = PositionHash(q.board, q.hand, q.side)
      BY <1>1
    <2> HIDE DEF H
    <2>3. /\ \A s \in Squares, x \in Pieces : BoardKey(s, x) \in H <=> q.board[s] = x
          /\ \A o \in Colors, t \in HandTypes, n \in 0..MaxInHand : HandKey(o, t, n) \in H <=> q.hand[o][t] = n
      BY <1>1, <2>2, HashMembers
    <2> QED
      BY <2>1, <2>3
  <1>3. q.king[c] = k
    <2>1. Piece(c, "king") \in Pieces
      BY DEF Piece, Pieces, Types
    <2>2. KingSquares(p.board, c) = {p.king[c]} /\ KingSquares(q.board, c) = {q.king[c]}
      BY <1>1 DEF KingsAreCached
    <2>3. KingSquares(p.board, c) = KingSquares(q.board, c)
      BY <1>2, <2>1 DEF KingSquares
    <2> QED
      BY <2>2, <2>3
  <1>4. /\ F \in SUBSET Features(k, c) /\ G \in SUBSET Features(k, c)
        /\ \A s \in Squares, x \in Pieces :
              /\ BoardFeature(k, s, x, c) \in F <=> p.board[s] = x
              /\ BoardFeature(k, s, x, c) \in G <=> q.board[s] = x
        /\ \A o \in Colors, t \in HandTypes, n \in 0..MaxInHand :
              /\ HandFeature(o, t, n, c) \in F <=> p.hand[o][t] = n
              /\ HandFeature(o, t, n, c) \in G <=> q.hand[o][t] = n
    BY <1>1, <1>3, FeatureMembers
  <1> HIDE DEF F, G, k
  <1>5. F = G
    <2>1. ASSUME NEW s \in Squares, NEW x \in Pieces
          PROVE  BoardFeature(k, s, x, c) \in F <=> BoardFeature(k, s, x, c) \in G
      <3>1. p.board[s] = x <=> q.board[s] = x
        BY <1>2
      <3>2. BoardFeature(k, s, x, c) \in F <=> p.board[s] = x
        BY <1>4
      <3>3. BoardFeature(k, s, x, c) \in G <=> q.board[s] = x
        BY <1>4
      <3> QED
        BY <3>1, <3>2, <3>3
    <2>2. ASSUME NEW o \in Colors, NEW t \in HandTypes, NEW n \in 0..MaxInHand
          PROVE  HandFeature(o, t, n, c) \in F <=> HandFeature(o, t, n, c) \in G
      <3>1. p.hand[o][t] = n <=> q.hand[o][t] = n
        BY <1>2
      <3>2. HandFeature(o, t, n, c) \in F <=> p.hand[o][t] = n
        BY <1>4
      <3>3. HandFeature(o, t, n, c) \in G <=> q.hand[o][t] = n
        BY <1>4
      <3> QED
        BY <3>1, <3>2, <3>3
    <2> QED
      BY <1>4, <2>1, <2>2, SameFeatures
  <1> QED
    BY <1>5, FreshCountsOnce DEF F, G

-----------------------------------------------------------------------------
(***************************************************************************)
(* One state on a line ln of positions: created at ln[from], now at        *)
(* ln[to].                                                                 *)
(***************************************************************************)
Typed(st, c) ==
    /\ st = [view |-> c, sum |-> st.sum, root |-> st.root, deltas |-> st.deltas, cache |-> st.cache]
    /\ \E S : st.deltas \in Seq(S)

\* What a cache knows is the sum of some position under that position's hash.
Knows(cache, c) ==
    \A e \in cache : \E q : Sound(q) /\ e.hash = q.hash /\ e.sum = FreshSum(q, c)

Rooted(st, from, ln, c) ==
    Typed(st, c) /\ Knows(st.cache, c) /\ st.root = FreshSum(ln[from], c)

Stacked(st, from, to, ln, c) ==
    /\ Rooted(st, from, ln, c)
    /\ Len(st.deltas) = to - from
    /\ st.sum = FreshSum(ln[to], c)
    /\ \A i \in 1..(to - from) :
          SumBefore(FreshSum(ln[from + i], c), st.deltas[i]) = FreshSum(ln[from + i - 1], c)

LEMMA CacheIsRight ==
  ASSUME NEW cache, NEW c \in Colors, Knows(cache, c), NEW p, Sound(p), NEW e \in cache,
         e.hash = p.hash
  PROVE  e.sum = FreshSum(p, c)
  <1>1. PICK q : Sound(q) /\ e.hash = q.hash /\ e.sum = FreshSum(q, c)
    BY DEF Knows
  <1> QED
    BY <1>1, SameHashSameSum

LEMMA CacheLearns ==
  ASSUME NEW cache, NEW c, Knows(cache, c), NEW p, Sound(p)
  PROVE  Knows(Keep(cache, [hash |-> p.hash, sum |-> FreshSum(p, c)]), c)
  <1> DEFINE e == [hash |-> p.hash, sum |-> FreshSum(p, c)]
  <1>1. e.hash = p.hash /\ e.sum = FreshSum(p, c)
    OBVIOUS
  <1> HIDE DEF e
  <1>2. \A x \in Keep(cache, e) : x \in cache \/ x = e
    BY DEF Keep
  <1>3. Knows(Keep(cache, e), c)
    BY <1>1, <1>2 DEF Knows
  <1> QED
    BY <1>3 DEF e

LEMMA CreatedStacks ==
  ASSUME NEW n \in Nat, NEW ln, NEW c
  PROVE  Stacked(Created(ln[n], c), n, n, ln, c)
  <1> DEFINE st == Created(ln[n], c)
  <1>1. /\ st = [view |-> c, sum |-> FreshSum(ln[n], c), root |-> FreshSum(ln[n], c),
                 deltas |-> <<>>, cache |-> {}]
    BY DEF Created
  <1> HIDE DEF st
  <1>2. st.sum = FreshSum(ln[n], c) /\ st.root = FreshSum(ln[n], c) /\ st.deltas = <<>> /\ st.cache = {}
    BY <1>1
  <1>3. Typed(st, c)
    BY <1>1, <1>2 DEF Typed
  <1>4. Knows(st.cache, c)
    BY <1>2 DEF Knows
  <1>5. Len(st.deltas) = 0 /\ n - n = 0 /\ 1..0 = {}
    BY <1>2
  <1>6. Stacked(st, n, n, ln, c)
    BY <1>2, <1>3, <1>4, <1>5 DEF Stacked, Rooted
  <1> QED
    BY <1>6 DEF st

LEMMA FrameStacks ==
  ASSUME NEW st, NEW from \in Nat, NEW to \in Nat, 1 <= from, from <= to, NEW c,
         NEW ln, Stacked(st, from, to, ln, c), NEW other, \A i \in 1..to : other[i] = ln[i]
  PROVE  Stacked(st, from, to, other, c)
  <1>1. other[from] = ln[from] /\ other[to] = ln[to]
    OBVIOUS
  <1>2. \A i \in 1..(to - from) : other[from + i] = ln[from + i] /\ other[from + i - 1] = ln[from + i - 1]
    OBVIOUS
  <1> QED
    BY <1>1, <1>2 DEF Stacked, Rooted

\* The fields of a state after an update.
LEMMA Refit ==
  ASSUME NEW st, NEW c, Typed(st, c), NEW x, NEW y
  PROVE  [st EXCEPT !.sum = x, !.deltas = y]
         = [view |-> c, sum |-> x, root |-> st.root, deltas |-> y, cache |-> st.cache]
  <1> DEFINE a == st.sum  r == st.root  e == st.deltas  k == st.cache
             new == [st EXCEPT !.sum = x, !.deltas = y]
  <1>1. st = [view |-> c, sum |-> a, root |-> r, deltas |-> e, cache |-> k]
    BY DEF Typed
  <1> HIDE DEF a, r, e, k
  <1>2. st \in [view : {c}, sum : {a}, root : {r}, deltas : {e}, cache : {k}]
    BY <1>1
  <1>3. new \in [view : {c}, sum : {x}, root : {r}, deltas : {y}, cache : {k}]
    BY <1>2
  <1> HIDE DEF new
  <1>4. new = [view |-> c, sum |-> x, root |-> r, deltas |-> y, cache |-> k]
    BY <1>3
  <1> QED
    BY <1>4 DEF r, k, new

LEMMA RefitWithCache ==
  ASSUME NEW st, NEW c, Typed(st, c), NEW x, NEW y, NEW z
  PROVE  [st EXCEPT !.sum = x, !.deltas = y, !.cache = z]
         = [view |-> c, sum |-> x, root |-> st.root, deltas |-> y, cache |-> z]
  <1> DEFINE a == st.sum  r == st.root  e == st.deltas  k == st.cache
             new == [st EXCEPT !.sum = x, !.deltas = y, !.cache = z]
  <1>1. st = [view |-> c, sum |-> a, root |-> r, deltas |-> e, cache |-> k]
    BY DEF Typed
  <1> HIDE DEF a, r, e, k
  <1>2. st \in [view : {c}, sum : {a}, root : {r}, deltas : {e}, cache : {k}]
    BY <1>1
  <1>3. new \in [view : {c}, sum : {x}, root : {r}, deltas : {y}, cache : {z}]
    BY <1>2
  <1> HIDE DEF new
  <1>4. new = [view |-> c, sum |-> x, root |-> r, deltas |-> y, cache |-> z]
    BY <1>3
  <1> QED
    BY <1>4 DEF r, new

LEMMA AppendDelta ==
  ASSUME NEW S, NEW deltas \in Seq(S), NEW d
  PROVE  /\ \E T : Append(deltas, d) \in Seq(T)
         /\ Len(Append(deltas, d)) = Len(deltas) + 1
         /\ Append(deltas, d)[Len(deltas) + 1] = d
         /\ \A i \in 1..Len(deltas) : Append(deltas, d)[i] = deltas[i]
  <1>1. deltas \in Seq(S \cup {d}) /\ d \in S \cup {d}
    OBVIOUS
  <1>2. Append(deltas, d) \in Seq(S \cup {d})
    BY <1>1
  <1> QED
    BY <1>2

\* A level more, whatever the sum was made of.
LEMMA LevelStacks ==
  ASSUME NEW st, NEW c, NEW from \in Nat, NEW to \in Nat, 1 <= from, from <= to,
         NEW ln, Stacked(st, from, to, ln, c),
         NEW sum, NEW d, NEW cache, Knows(cache, c), sum = FreshSum(ln[to + 1], c),
         SumBefore(sum, d) = st.sum
  PROVE  Stacked([view |-> c, sum |-> sum, root |-> st.root, deltas |-> Append(st.deltas, d),
                  cache |-> cache], from, to + 1, ln, c)
  <1> DEFINE deltas == Append(st.deltas, d)
             new == [view |-> c, sum |-> sum, root |-> st.root, deltas |-> deltas, cache |-> cache]
             n == to - from
  <1>1. PICK S : st.deltas \in Seq(S)
    BY DEF Stacked, Rooted, Typed
  <1>2. n \in Nat /\ Len(st.deltas) = n /\ (to + 1) - from = n + 1
    BY DEF Stacked
  <1>3. /\ \E T : deltas \in Seq(T)
        /\ Len(deltas) = n + 1 /\ deltas[n + 1] = d /\ \A i \in 1..n : deltas[i] = st.deltas[i]
    <2>1. /\ \E T : deltas \in Seq(T)
          /\ Len(deltas) = Len(st.deltas) + 1 /\ deltas[Len(st.deltas) + 1] = d
          /\ \A i \in 1..Len(st.deltas) : deltas[i] = st.deltas[i]
      BY <1>1, AppendDelta
    <2> HIDE DEF deltas, n
    <2> QED
      BY <2>1, <1>2
  <1>4. new.sum = sum /\ new.root = st.root /\ new.deltas = deltas /\ new.cache = cache
    OBVIOUS
  <1> HIDE DEF deltas
  <1>5. Typed(new, c)
    BY <1>3, <1>4 DEF Typed
  <1>6. Rooted(new, from, ln, c)
    BY <1>4, <1>5 DEF Rooted, Stacked
  <1>7. ASSUME NEW i \in 1..(n + 1)
        PROVE  SumBefore(FreshSum(ln[from + i], c), deltas[i]) = FreshSum(ln[from + i - 1], c)
    <2>1. CASE i \in 1..n
      BY <2>1, <1>2, <1>3 DEF Stacked
    <2>2. CASE i = n + 1
      <3>1. from + i = to + 1 /\ from + i - 1 = to
        BY <2>2, <1>2
      <3> QED
        BY <3>1, <2>2, <1>3 DEF Stacked
    <2> QED BY <2>1, <2>2, <1>2
  <1> HIDE DEF new, n
  <1> QED
    <2>1. Len(new.deltas) = (to + 1) - from /\ new.sum = FreshSum(ln[to + 1], c)
      BY <1>2, <1>3, <1>4
    <2>2. \A i \in 1..((to + 1) - from) :
             SumBefore(FreshSum(ln[from + i], c), new.deltas[i]) = FreshSum(ln[from + i - 1], c)
      BY <1>2, <1>4, <1>7
    <2>3. Stacked(new, from, to + 1, ln, c)
      BY <2>1, <2>2, <1>6 DEF Stacked
    <2> QED
      BY <2>3 DEF new, deltas

LEMMA MakeStacks ==
  ASSUME NEW st, NEW c \in Colors, NEW from \in Nat, NEW to \in Nat, 1 <= from, from <= to,
         NEW ln, Stacked(st, from, to, ln, c), Sound(ln[to]),
         NEW m, CanMake(ln[to], m), NEW b \in BOOLEAN, ln[to + 1] = MakeMove(ln[to], m, b)
  PROVE  Stacked(StateMake(st, ln[to + 1], Undo(ln[to], m)), from, to + 1, ln, c)
  <1> DEFINE p == ln[to]
             q == ln[to + 1]
             u == Undo(p, m)
  <1>1. /\ st = [view |-> c, sum |-> st.sum, root |-> st.root, deltas |-> st.deltas,
                 cache |-> st.cache]
        /\ Knows(st.cache, c) /\ st.sum = FreshSum(p, c)
    BY DEF Stacked, Rooted, Typed
  <1>2. st.view = c
    BY <1>1
  <1>3. Sound(q)
    BY MoveIsSound
  <1>4. CASE Rebuilds(u, c)
    <2> DEFINE sum == SumOfRebuild(st, q)
               cache == Keep(st.cache, [hash |-> q.hash, sum |-> sum])
               d == Rebuild(st.sum)
    <2>1. sum = FreshSum(q, c)
      <3>1. CASE \E e \in st.cache : e.hash = q.hash
        <4>1. PICK e \in st.cache : e.hash = q.hash /\ sum = e.sum
          BY <3>1 DEF SumOfRebuild
        <4> QED
          BY <4>1, <1>1, <1>3, CacheIsRight
      <3>2. CASE ~\E e \in st.cache : e.hash = q.hash
        BY <3>2, <1>2 DEF SumOfRebuild
      <3> QED BY <3>1, <3>2
    <2>2. Knows(cache, c)
      BY <2>1, <1>1, <1>3, CacheLearns
    <2>3. SumBefore(sum, d) = st.sum
      BY DEF SumBefore, Rebuild
    <2> HIDE DEF sum, cache, d
    <2>4. StateMake(st, q, u)
          = [st EXCEPT !.sum = sum, !.deltas = Append(st.deltas, d), !.cache = cache]
      BY <1>2, <1>4 DEF StateMake, sum, cache, d
    <2>5. StateMake(st, q, u) = [view |-> c, sum |-> sum, root |-> st.root,
                                 deltas |-> Append(st.deltas, d), cache |-> cache]
      <3>1. Typed(st, c)
        BY DEF Stacked, Rooted
      <3> QED
        <4> DEFINE y == Append(st.deltas, d)
        <4>1. StateMake(st, q, u) = [st EXCEPT !.sum = sum, !.deltas = y, !.cache = cache]
          BY <2>4
        <4> HIDE DEF y, p, q, u
        <4>2. StateMake(st, q, u) = [view |-> c, sum |-> sum, root |-> st.root, deltas |-> y,
                                     cache |-> cache]
          BY <3>1, <4>1, RefitWithCache
        <4> QED
          BY <4>2 DEF y, p, q, u
    <2> HIDE DEF p, q, u
    <2>6. Stacked([view |-> c, sum |-> sum, root |-> st.root, deltas |-> Append(st.deltas, d),
                   cache |-> cache], from, to + 1, ln, c)
      BY <2>1, <2>2, <2>3, LevelStacks DEF q
    <2> QED
      BY <2>5, <2>6 DEF p, q, u
  <1>5. CASE ~Rebuilds(u, c)
    <2> DEFINE R == Removed(q, u, c)
               A == Added(q, u, c)
               sum == AddRows(AddRows(st.sum, R, -1), A, 1)
               d == Delta(R, A)
    <2>1. sum = FreshSum(q, c) /\ SumBefore(sum, d) = st.sum
      BY <1>1, <1>5, SumFollowsTheMove
    <2> HIDE DEF sum, d
    <2>2. StateMake(st, q, u) = [st EXCEPT !.sum = sum, !.deltas = Append(st.deltas, d)]
      BY <1>2, <1>5 DEF StateMake, sum, d
    <2>3. StateMake(st, q, u) = [view |-> c, sum |-> sum, root |-> st.root,
                                 deltas |-> Append(st.deltas, d), cache |-> st.cache]
      <3>1. Typed(st, c)
        BY DEF Stacked, Rooted
      <3> QED
        BY <3>1, <2>2, Refit
    <2> HIDE DEF p, q, u
    <2>4. Stacked([view |-> c, sum |-> sum, root |-> st.root, deltas |-> Append(st.deltas, d),
                   cache |-> st.cache], from, to + 1, ln, c)
      BY <1>1, <2>1, LevelStacks DEF q
    <2> QED
      BY <2>3, <2>4 DEF p, q, u
  <1> QED
    BY <1>4, <1>5

LEMMA UnmakeStacks ==
  ASSUME NEW st, NEW c, NEW from \in Nat, NEW to \in Nat, 1 <= from, from < to,
         NEW ln, Stacked(st, from, to, ln, c)
  PROVE  Stacked(StateUnmake(st), from, to - 1, ln, c)
  <1> DEFINE n == to - from
             deltas == SubSeq(st.deltas, 1, n - 1)
             sum == SumBefore(st.sum, st.deltas[n])
             new == StateUnmake(st)
  <1>1. PICK S : st.deltas \in Seq(S)
    BY DEF Stacked, Rooted, Typed
  <1>2. n \in Nat /\ n >= 1 /\ Len(st.deltas) = n /\ (to - 1) - from = n - 1
    BY DEF Stacked
  <1>3. st.deltas # <<>>
    BY <1>1, <1>2
  <1>4. deltas \in Seq(S) /\ Len(deltas) = n - 1 /\ \A i \in 1..(n - 1) : deltas[i] = st.deltas[i]
    BY <1>1, <1>2
  <1>5. new = [st EXCEPT !.sum = sum, !.deltas = deltas]
    BY <1>2, <1>3 DEF StateUnmake
  <1>6. sum = FreshSum(ln[to - 1], c)
    <2>1. n \in 1..n /\ from + n = to /\ from + n - 1 = to - 1
      BY <1>2
    <2>2. st.sum = FreshSum(ln[to], c)
      BY DEF Stacked
    <2>3. SumBefore(FreshSum(ln[from + n], c), st.deltas[n]) = FreshSum(ln[from + n - 1], c)
      BY <2>1 DEF Stacked
    <2> HIDE DEF n
    <2> QED
      BY <2>1, <2>2, <2>3
  <1> HIDE DEF deltas, sum, new
  <1>7. new = [view |-> c, sum |-> sum, root |-> st.root, deltas |-> deltas, cache |-> st.cache]
    BY <1>5, Refit DEF Stacked, Rooted
  <1>8. new.sum = sum /\ new.root = st.root /\ new.deltas = deltas /\ new.cache = st.cache
    BY <1>7
  <1>9. Rooted(new, from, ln, c)
    BY <1>4, <1>7, <1>8 DEF Rooted, Stacked, Typed
  <1>10. ASSUME NEW i \in 1..(n - 1)
         PROVE  SumBefore(FreshSum(ln[from + i], c), deltas[i]) = FreshSum(ln[from + i - 1], c)
    BY <1>2, <1>4 DEF Stacked
  <1> HIDE DEF n
  <1>11. Stacked(new, from, to - 1, ln, c)
    BY <1>2, <1>4, <1>6, <1>8, <1>9, <1>10 DEF Stacked
  <1> QED
    BY <1>11 DEF new

LEMMA RewindStacks ==
  ASSUME NEW st, NEW c, NEW from \in Nat, NEW ln, Rooted(st, from, ln, c)
  PROVE  Stacked(StateRewind(st), from, from, ln, c)
  <1> DEFINE new == StateRewind(st)
  <1>1. new = [view |-> c, sum |-> st.root, root |-> st.root, deltas |-> <<>>, cache |-> st.cache]
    <2>1. Typed(st, c)
      BY DEF Rooted
    <2>2. new = [st EXCEPT !.sum = st.root, !.deltas = <<>>]
      BY DEF StateRewind
    <2> HIDE DEF new
    <2> QED
      BY <2>1, <2>2, Refit
  <1> HIDE DEF new
  <1>2. new.sum = st.root /\ new.root = st.root /\ new.deltas = <<>> /\ new.cache = st.cache
    BY <1>1
  <1>3. Len(new.deltas) = 0 /\ from - from = 0 /\ 1..0 = {}
    BY <1>2
  <1>4. Rooted(new, from, ln, c)
    BY <1>1, <1>2 DEF Rooted, Typed
  <1>5. Stacked(new, from, from, ln, c)
    BY <1>2, <1>3, <1>4 DEF Stacked, Rooted
  <1> QED
    BY <1>5 DEF new

LEMMA RootedIsThere ==
  ASSUME NEW st, NEW c \in Colors, Typed(st, c)
  PROVE  st # NoState
  <1>1. st.view = c
    BY DEF Typed
  <1>2. NoState.view = "none"
    BY DEF NoState
  <1> QED
    BY <1>1, <1>2 DEF Colors, Black, White

-----------------------------------------------------------------------------
(***************************************************************************)
(* The inductive invariant: the invariant of the line, and how each state  *)
(* stands on it.                                                           *)
(***************************************************************************)
IsNull(i) == undos[i].kind = "null"

StatesInv ==
    /\ mode \in {"idle", "worker", "lane", "rewinding"} /\ view \in Colors
    /\ Knows(scores, view)
    /\ mode = "idle" => acc = NoState /\ undos = <<>> /\ scores = {}
    /\ ~UnderNull => saved = NoState
    /\ mode \in {"lane", "rewinding"} => ~UnderNull /\ acc # NoState
    /\ mode \in {"worker", "lane"} /\ ~UnderNull /\ acc # NoState
          => Stacked(acc, 1, Len(line), line, view)
    /\ mode = "rewinding" => Rooted(acc, 1, line, view)
    /\ \A j \in DOMAIN undos : IsNull(j) =>
          /\ \A i \in DOMAIN undos : IsNull(i) => i = j
          /\ saved # NoState => Stacked(saved, 1, j, line, view)
          /\ acc # NoState => Stacked(acc, j + 1, Len(line), line, view)

NInv == IInv /\ StatesInv

LEMMA StatesStartRight == NnueInit => NInv
  <1> SUFFICES ASSUME NnueInit PROVE NInv
    OBVIOUS
  <1>1. IInv
    BY StartsSound DEF NnueInit
  <1>2. /\ mode = "idle" /\ view \in Colors /\ acc = NoState /\ saved = NoState /\ scores = {}
        /\ undos = <<>> /\ DOMAIN undos = {}
    BY DEF NnueInit, Init, Colors
  <1>3. ~UnderNull
    BY <1>2 DEF UnderNull
  <1>4. StatesInv
    BY <1>2, <1>3 DEF StatesInv, Knows
  <1> QED
    BY <1>1, <1>4 DEF NInv

\* Every step of the composition is a step of the line, or leaves it alone.
LEMMA EachStepIsOfTheLine == [NnueNext]_<<vars, stateVars>> => [Next]_vars
  <1> SUFFICES ASSUME [NnueNext]_<<vars, stateVars>> PROVE [Next]_vars
    OBVIOUS
  <1>1. ASSUME NEW m \in {n \in GeneratePseudo(pos, pos.side) : OnMenu(n)},
               Between(GameMove(m)) \/ Descend(m)
        PROVE  [Next]_vars
    BY <1>1 DEF Between, Descend, Next
  <1>2. CASE Between(SetBookkeeping)
    BY <1>2 DEF Between, Next
  <1>3. CASE BeginSearch
    BY <1>3 DEF BeginSearch
  <1>4. CASE EndSearch
    BY <1>4 DEF EndSearch
  <1>5. CASE DescendNull
    BY <1>5 DEF DescendNull, Next
  <1>6. CASE Ascend
    BY <1>6 DEF Ascend, Next
  <1>7. CASE RewindLine
    BY <1>7 DEF RewindLine, Next
  <1>8. CASE RewindState
    BY <1>8 DEF RewindState
  <1>9. CASE Evaluate
    BY <1>9 DEF Evaluate
  <1>10. CASE UNCHANGED <<vars, stateVars>>
    BY <1>10
  <1> QED
    BY <1>1, <1>2, <1>3, <1>4, <1>5, <1>6, <1>7, <1>8, <1>9, <1>10 DEF NnueNext

\* The search, on a line that may be under a null move or not.
LEMMA DescendPreserves ==
  ASSUME NInv, NEW m, Descend(m), IInv'
  PROVE  StatesInv'
  <1> DEFINE n == Len(undos)
             st == StateMake(acc, pos', UndoFast(pos, m))
  <1>1. /\ Sound(pos) /\ pos \in Positions /\ n \in Nat /\ Len(line) = n + 1
        /\ line \in Seq(Positions) /\ line[n + 1] = pos /\ DOMAIN undos = 1..n
        /\ bookkeeping \in BOOLEAN
    BY EndOfLine DEF NInv, IInv, TypeOK
  <1>2. /\ CanMake(pos, m) /\ UndoFast(pos, m) = Undo(pos, m)
        /\ pos' = MakeMove(pos, m, bookkeeping)
    BY <1>1, FastIsTrusted DEF Descend, SearchMove
  <1>3. /\ undos' = Append(undos, MoveUndo(UndoFast(pos, m))) /\ line' = Append(line, pos')
        /\ mode' = mode /\ view' = view /\ saved' = saved /\ scores' = scores
        /\ mode \in {"worker", "lane"}
        /\ acc' = IF acc = NoState THEN acc ELSE st
    BY DEF Descend, SearchMove
  <1>4. /\ Len(undos') = n + 1 /\ DOMAIN undos' = 1..(n + 1)
        /\ \A i \in 1..n : undos'[i] = undos[i]
        /\ undos'[n + 1].kind = "move"
    <2>1. PICK S : undos \in Seq(S)
      BY DEF NInv, IInv, UndosAreRecords
    <2>2. MoveUndo(UndoFast(pos, m)).kind = "move"
      BY DEF MoveUndo
    <2> QED
      BY <2>1, <2>2, <1>1, <1>3
  <1>5. /\ Len(line') = n + 2 /\ line'[n + 2] = pos'
        /\ \A i \in 1..(n + 1) : line'[i] = line[i]
    <2>1. pos' \in Positions
      BY <1>1, <1>2, MakeMoveTyped
    <2> QED
      BY <2>1, <1>1, <1>3
  <1>6. view \in Colors /\ (mode = "lane" => ~UnderNull /\ acc # NoState)
    BY DEF NInv, StatesInv
  <1>7. /\ UnderNull' <=> UnderNull
        /\ \A j \in 1..(n + 1) : (undos'[j].kind = "null") <=> (j \in 1..n /\ IsNull(j))
    BY <1>1, <1>4 DEF UnderNull, IsNull
  <1> HIDE DEF n, st
  <1>8. ASSUME NEW from \in Nat, 1 <= from, from <= n + 1, acc # NoState,
               Stacked(acc, from, n + 1, line, view)
        PROVE  Stacked(acc', from, n + 2, line', view)
    <2>1. Stacked(acc, from, n + 1, line', view)
      BY <1>1, <1>5, <1>8, FrameStacks
    <2>2. line'[n + 1] = pos /\ n + 1 \in Nat /\ (n + 1) + 1 = n + 2
      BY <1>1, <1>5
    <2>3. line'[(n + 1) + 1] = MakeMove(line'[n + 1], m, bookkeeping)
      BY <1>2, <1>5, <2>2
    <2> DEFINE ln == line'
               to == n + 1
    <2>4. /\ to \in Nat /\ from <= to /\ Stacked(acc, from, to, ln, view) /\ Sound(ln[to])
          /\ CanMake(ln[to], m) /\ ln[to + 1] = MakeMove(ln[to], m, bookkeeping)
      BY <1>1, <1>2, <1>8, <2>1, <2>2, <2>3
    <2> HIDE DEF ln, to
    <2>5. Stacked(StateMake(acc, ln[to + 1], Undo(ln[to], m)), from, to + 1, ln, view)
      BY <1>1, <1>6, <1>8, <2>4, MakeStacks
    <2>6. StateMake(acc, ln[to + 1], Undo(ln[to], m)) = acc'
      BY <1>2, <1>3, <1>5, <1>8, <2>2 DEF st, ln, to
    <2> QED
      BY <2>2, <2>5, <2>6 DEF ln, to
  <1>9. CASE ~UnderNull
    <2>1. saved = NoState /\ (acc # NoState => Stacked(acc, 1, n + 1, line, view))
      BY <1>1, <1>3, <1>9 DEF NInv, StatesInv
    <2>2. acc # NoState => Stacked(acc', 1, n + 2, line', view)
      BY <2>1, <1>1, <1>8
    <2>3. acc # NoState => acc' # NoState
      BY <2>2, <1>6, RootedIsThere DEF Stacked, Rooted
    <2>4. \A j \in DOMAIN undos' : ~(undos'[j].kind = "null")
      BY <1>1, <1>4, <1>7, <1>9 DEF UnderNull, IsNull
    <2>5. Knows(scores', view')
      BY <1>3 DEF NInv, StatesInv
    <2> QED
      BY <2>1, <2>2, <2>3, <2>4, <2>5, <1>3, <1>5, <1>6, <1>7, <1>9 DEF StatesInv, IsNull
  <1>10. CASE UnderNull
    <2>1. PICK j \in 1..n : IsNull(j)
      BY <1>1, <1>10 DEF UnderNull, IsNull
    <2>2. /\ \A i \in 1..n : IsNull(i) => i = j
          /\ saved # NoState => Stacked(saved, 1, j, line, view)
          /\ acc # NoState => Stacked(acc, j + 1, n + 1, line, view)
      BY <2>1, <1>1 DEF NInv, StatesInv
    <2>3. j + 1 \in Nat /\ 1 <= j + 1 /\ j + 1 <= n + 1
      BY <1>1
    <2>4. acc # NoState => Stacked(acc', j + 1, n + 2, line', view)
      BY <2>2, <2>3, <1>8
    <2>5. saved # NoState => Stacked(saved, 1, j, line', view)
      <3>1. j \in Nat /\ 1 <= j /\ \A i \in 1..j : line'[i] = line[i]
        BY <1>1, <1>5
      <3> QED
        BY <2>2, <3>1, FrameStacks
    <2>6. \A i \in DOMAIN undos' : undos'[i].kind = "null" => i = j
      BY <2>2, <1>4, <1>7
    <2>7. mode = "worker" /\ Knows(scores', view')
      BY <1>3, <1>6, <1>10 DEF NInv, StatesInv
    <2>8. acc = NoState => acc' = NoState
      BY <1>3
    <2> QED
      BY <2>4, <2>5, <2>6, <2>7, <2>8, <1>3, <1>5, <1>6, <1>7, <1>10 DEF StatesInv, IsNull
  <1> QED
    BY <1>9, <1>10

LEMMA DescendNullPreserves ==
  ASSUME NInv, DescendNull
  PROVE  StatesInv'
  <1> DEFINE n == Len(undos)
  <1>1. /\ n \in Nat /\ Len(line) = n + 1 /\ line \in Seq(Positions) /\ DOMAIN undos = 1..n
        /\ Sound(pos)
    BY EndOfLine DEF NInv
  <1>2. /\ mode = "worker" /\ ~UnderNull /\ undos' = Append(undos, NullUndo)
        /\ line' = Append(line, pos') /\ pos' = NullMove(pos)
        /\ mode' = mode /\ view' = view /\ scores' = scores /\ saved' = acc
        /\ acc' = NoState \/ acc' = Created(pos', view)
    BY DEF DescendNull, SearchNullMove
  <1>3. /\ DOMAIN undos' = 1..(n + 1) /\ undos'[n + 1].kind = "null"
        /\ \A i \in 1..n : undos'[i] = undos[i]
    <2>1. PICK S : undos \in Seq(S)
      BY DEF NInv, IInv, UndosAreRecords
    <2>2. NullUndo.kind = "null"
      BY DEF NullUndo
    <2> QED
      BY <2>1, <2>2, <1>1, <1>2
  <1>4. /\ Len(line') = n + 2 /\ line'[n + 2] = pos'
        /\ \A i \in 1..(n + 1) : line'[i] = line[i]
    <2>1. pos' \in Positions
      BY <1>1, <1>2, NullMoveIsSound DEF Sound
    <2> QED
      BY <2>1, <1>1, <1>2
  <1>5. /\ view \in Colors /\ Knows(scores, view)
        /\ acc # NoState => Stacked(acc, 1, n + 1, line, view)
    BY <1>1, <1>2 DEF NInv, StatesInv
  <1>6. \A i \in 1..n : undos[i].kind # "null"
    BY <1>1, <1>2 DEF UnderNull
  <1> HIDE DEF n
  <1>7. acc # NoState => Stacked(acc, 1, n + 1, line', view)
    <2>1. n + 1 \in Nat /\ 1 <= n + 1
      BY <1>1
    <2> QED
      BY <2>1, <1>4, <1>5, FrameStacks
  <1>8. acc' # NoState => Stacked(acc', n + 2, n + 2, line', view)
    <2>1. n + 2 \in Nat
      BY <1>1
    <2> DEFINE k == n + 2
    <2>2. Stacked(Created(line'[k], view), k, k, line', view)
      <3> k \in Nat
        BY <2>1
      <3> HIDE DEF k
      <3> QED
        BY CreatedStacks
    <2> QED
      BY <2>2, <1>2, <1>4
  <1>9. UnderNull'
    BY <1>1, <1>3 DEF UnderNull
  <1>10. \A i \in 1..(n + 1) : undos'[i].kind = "null" => i = n + 1
    BY <1>1, <1>3, <1>6
  <1>11. (n + 1) + 1 = n + 2 /\ mode' # "idle" /\ mode' \notin {"lane", "rewinding"}
    BY <1>1, <1>2
  <1> QED
    BY <1>2, <1>3, <1>4, <1>5, <1>7, <1>8, <1>9, <1>10, <1>11 DEF StatesInv, IsNull

\* The shape of the stacks after a step back.
LEMMA UnmakeShape ==
  ASSUME IInv, Unmake
  PROVE  LET n == Len(undos) IN
         /\ n \in Nat /\ n >= 1 /\ Len(line) = n + 1 /\ DOMAIN undos = 1..n
         /\ Len(line') = n /\ \A i \in 1..n : line'[i] = line[i]
         /\ DOMAIN undos' = 1..(n - 1) /\ \A i \in 1..(n - 1) : undos'[i] = undos[i]
  <1> DEFINE n == Len(undos)
  <1>1. /\ n \in Nat /\ Len(line) = n + 1 /\ line \in Seq(Positions) /\ DOMAIN undos = 1..n
    BY EndOfLine
  <1>2. PICK S : undos \in Seq(S)
    BY DEF IInv, UndosAreRecords
  <1>3. n >= 1
    BY <1>1, <1>2 DEF Unmake
  <1>4. DOMAIN undos' = 1..(n - 1) /\ \A i \in 1..(n - 1) : undos'[i] = undos[i]
    <2>1. undos' = SubSeq(undos, 1, n - 1)
      BY DEF Unmake
    <2> QED
      BY <2>1, <1>1, <1>2, <1>3
  <1>5. Len(line') = n /\ \A i \in 1..n : line'[i] = line[i]
    <2>1. line' = SubSeq(line, 1, (n + 1) - 1)
      BY <1>1 DEF Unmake
    <2> HIDE DEF n
    <2>2. line' = SubSeq(line, 1, n)
      BY <2>1, <1>1
    <2> QED
      BY <2>2, <1>1, <1>3
  <1> QED
    BY <1>1, <1>3, <1>4, <1>5

LEMMA AscendPreserves ==
  ASSUME NInv, Ascend
  PROVE  StatesInv'
  <1> DEFINE n == Len(undos)
  <1>1. /\ n \in Nat /\ n >= 1 /\ Len(line) = n + 1 /\ DOMAIN undos = 1..n
        /\ Len(line') = n /\ \A i \in 1..n : line'[i] = line[i]
        /\ DOMAIN undos' = 1..(n - 1) /\ \A i \in 1..(n - 1) : undos'[i] = undos[i]
    BY UnmakeShape DEF NInv, Ascend
  <1>2. /\ mode \in {"worker", "lane"} /\ mode' = mode /\ view' = view /\ scores' = scores
        /\ IsNull(n) => acc' = saved /\ saved' = NoState
        /\ ~IsNull(n) => acc' = StateUnmake(acc) /\ saved' = saved
    BY DEF Ascend, IsNull
  <1>3. /\ view \in Colors /\ Knows(scores, view)
        /\ mode = "lane" => ~UnderNull /\ acc # NoState
    BY DEF NInv, StatesInv
  <1>4. /\ UnderNull <=> \E i \in 1..n : IsNull(i)
        /\ UnderNull' <=> \E i \in 1..(n - 1) : IsNull(i)
        /\ \A i \in 1..(n - 1) : undos'[i].kind = "null" <=> IsNull(i)
    BY <1>1 DEF UnderNull, IsNull
  <1> HIDE DEF n
  <1>5. ASSUME NEW from \in Nat, 1 <= from, from < n + 1, acc # NoState,
               Stacked(acc, from, n + 1, line, view)
        PROVE  Stacked(StateUnmake(acc), from, n, line', view)
    <2>1. n + 1 \in Nat /\ (n + 1) - 1 = n /\ from <= n
      BY <1>1, <1>5
    <2> DEFINE to == n + 1
    <2>2. Stacked(StateUnmake(acc), from, to - 1, line, view)
      <3> to \in Nat /\ from < to /\ Stacked(acc, from, to, line, view)
        BY <2>1, <1>5
      <3> HIDE DEF to
      <3> QED
        BY <1>5, UnmakeStacks
    <2>3. Stacked(StateUnmake(acc), from, n, line, view)
      BY <2>1, <2>2
    <2> QED
      BY <2>1, <2>3, <1>1, <1>5, FrameStacks
  <1>6. acc = NoState => StateUnmake(acc) = NoState
    BY DEF StateUnmake, NoState
  <1>7. CASE IsNull(n)
    <2>1. /\ \A i \in 1..n : IsNull(i) => i = n
          /\ saved # NoState => Stacked(saved, 1, n, line, view)
      BY <1>1, <1>7 DEF NInv, StatesInv
    <2>2. saved # NoState => Stacked(saved, 1, n, line', view)
      BY <2>1, <1>1, FrameStacks
    <2>3. \A i \in 1..(n - 1) : ~IsNull(i)
      BY <2>1, <1>1
    <2>4. ~UnderNull' /\ \A i \in DOMAIN undos' : undos'[i].kind # "null"
      BY <2>3, <1>1, <1>4
    <2>5. mode = "worker"
      BY <1>1, <1>2, <1>3, <1>4, <1>7
    <2> QED
      BY <2>2, <2>4, <2>5, <1>1, <1>2, <1>3, <1>7 DEF StatesInv, IsNull
  <1>8. CASE ~UnderNull
    <2>1. /\ saved = NoState /\ ~IsNull(n)
          /\ acc # NoState => Stacked(acc, 1, n + 1, line, view)
      BY <1>1, <1>2, <1>4, <1>8 DEF NInv, StatesInv
    <2>2. acc # NoState => Stacked(acc', 1, n, line', view)
      <3>1. 1 \in Nat /\ 1 < n + 1
        BY <1>1
      <3> QED
        BY <2>1, <3>1, <1>2, <1>5
    <2>3. acc # NoState => acc' # NoState
      BY <2>2, <1>3, RootedIsThere DEF Stacked, Rooted
    <2>4. ~UnderNull' /\ \A i \in DOMAIN undos' : undos'[i].kind # "null"
      BY <1>1, <1>4, <1>8
    <2>5. acc = NoState => acc' = NoState
      BY <2>1, <1>2, <1>6
    <2> QED
      BY <2>1, <2>2, <2>3, <2>4, <2>5, <1>1, <1>2, <1>3 DEF StatesInv, IsNull
  <1>9. CASE UnderNull /\ ~IsNull(n)
    <2>1. PICK j \in 1..n : IsNull(j)
      BY <1>4, <1>9
    <2>2. /\ \A i \in 1..n : IsNull(i) => i = j
          /\ saved # NoState => Stacked(saved, 1, j, line, view)
          /\ acc # NoState => Stacked(acc, j + 1, n + 1, line, view)
      BY <2>1, <1>1 DEF NInv, StatesInv
    <2>3. j \in 1..(n - 1) /\ j + 1 \in Nat /\ 1 <= j + 1 /\ j + 1 < n + 1
      BY <2>1, <1>1, <1>9
    <2>4. acc # NoState => Stacked(acc', j + 1, n, line', view)
      BY <2>2, <2>3, <1>2, <1>5, <1>9
    <2>5. saved # NoState => Stacked(saved, 1, j, line', view)
      <3>1. j \in Nat /\ 1 <= j /\ \A i \in 1..j : line'[i] = line[i]
        BY <1>1
      <3> QED
        BY <2>2, <3>1, FrameStacks
    <2>6. acc = NoState => acc' = NoState
      BY <1>2, <1>6, <1>9
    <2>7. \A i \in DOMAIN undos' : undos'[i].kind = "null" => i = j
      BY <2>2, <1>1, <1>4
    <2>8. UnderNull' /\ mode = "worker"
      BY <2>1, <2>3, <1>2, <1>3, <1>4, <1>9
    <2> QED
      BY <2>4, <2>5, <2>6, <2>7, <2>8, <1>1, <1>2, <1>3, <1>9 DEF StatesInv, IsNull
  <1> QED
    BY <1>7, <1>8, <1>9

LEMMA RewindLinePreserves ==
  ASSUME NInv, RewindLine
  PROVE  StatesInv'
  <1> DEFINE n == Len(undos)
  <1>1. /\ n \in Nat /\ n >= 1 /\ Len(line) = n + 1 /\ DOMAIN undos = 1..n
        /\ Len(line') = n /\ \A i \in 1..n : line'[i] = line[i]
        /\ DOMAIN undos' = 1..(n - 1) /\ \A i \in 1..(n - 1) : undos'[i] = undos[i]
    BY UnmakeShape DEF NInv, RewindLine
  <1>2. /\ mode \in {"lane", "rewinding"} /\ mode' = "rewinding"
        /\ view' = view /\ acc' = acc /\ saved' = saved /\ scores' = scores
    BY DEF RewindLine
  <1>3. /\ view \in Colors /\ Knows(scores, view) /\ ~UnderNull /\ acc # NoState
        /\ saved = NoState
    BY <1>2 DEF NInv, StatesInv
  <1>4. \A i \in 1..(n - 1) : undos'[i].kind # "null"
    <2>1. \A i \in 1..n : undos[i].kind # "null"
      BY <1>1, <1>3 DEF UnderNull
    <2> HIDE DEF n
    <2> QED
      BY <2>1, <1>1
  <1>5. line'[1] = line[1]
    BY <1>1
  <1> HIDE DEF n
  <1>6. Rooted(acc, 1, line, view)
    BY <1>2, <1>3 DEF NInv, StatesInv, Stacked
  <1>7. Rooted(acc, 1, line', view)
    BY <1>5, <1>6 DEF Rooted
  <1>8. ~UnderNull' /\ \A i \in DOMAIN undos' : undos'[i].kind # "null"
    BY <1>1, <1>4 DEF UnderNull
  <1> QED
    BY <1>2, <1>3, <1>7, <1>8 DEF StatesInv, IsNull

LEMMA RewindStatePreserves ==
  ASSUME NInv, RewindState
  PROVE  StatesInv'
  <1>1. /\ undos = <<>> /\ undos' = undos /\ line' = line /\ mode \in {"lane", "rewinding"}
        /\ mode' = "lane" /\ acc' = StateRewind(acc)
        /\ view' = view /\ saved' = saved /\ scores' = scores
    BY DEF RewindState, vars
  <1>2. Len(line) = 1 /\ DOMAIN undos = {} /\ ~UnderNull
    <2>1. Len(line) = Len(undos) + 1
      BY EndOfLine DEF NInv
    <2> QED
      BY <2>1, <1>1 DEF UnderNull
  <1>3. view \in Colors /\ Knows(scores, view) /\ acc # NoState /\ saved = NoState
    BY <1>1, <1>2 DEF NInv, StatesInv
  <1>4. Rooted(acc, 1, line, view)
    BY <1>1, <1>2, <1>3 DEF NInv, StatesInv, Stacked
  <1>5. Stacked(acc', 1, 1, line, view)
    BY <1>1, <1>4, RewindStacks
  <1>6. acc' # NoState
    BY <1>3, <1>5, RootedIsThere DEF Stacked, Rooted
  <1>7. ~UnderNull'
    BY <1>1, <1>2 DEF UnderNull
  <1> QED
    BY <1>1, <1>2, <1>3, <1>5, <1>6, <1>7 DEF StatesInv

LEMMA BeginPreserves ==
  ASSUME NInv, BeginSearch
  PROVE  StatesInv'
  <1>1. /\ mode = "idle" /\ view' = pos.side /\ mode' \in {"worker", "lane"}
        /\ mode' = "lane" => acc' = Created(pos, pos.side)
        /\ acc' = NoState \/ acc' = Created(pos, pos.side)
        /\ undos' = undos /\ line' = line /\ saved' = saved /\ scores' = scores
    BY DEF BeginSearch, vars
  <1>2. undos = <<>> /\ scores = {}
    BY <1>1 DEF NInv, StatesInv
  <1>3. Len(line) = 1 /\ line[1] = pos /\ DOMAIN undos = {} /\ ~UnderNull /\ pos.side \in Colors
    <2>1. Len(line) = Len(undos) + 1 /\ line[Len(line)] = pos /\ pos \in Positions
      BY EndOfLine DEF NInv
    <2> QED
      BY <2>1, <1>2 DEF UnderNull, Positions
  <1>4. saved = NoState
    BY <1>3 DEF NInv, StatesInv
  <1>5. Stacked(Created(line[1], view'), 1, 1, line, view')
    BY CreatedStacks
  <1>6. Stacked(Created(pos, view'), 1, 1, line, view')
    BY <1>3, <1>5
  <1>7. Created(pos, view') # NoState
    BY <1>1, <1>3, <1>6, RootedIsThere DEF Stacked, Rooted
  <1>8. ~UnderNull' /\ Knows(scores', view')
    BY <1>1, <1>2, <1>3 DEF UnderNull, Knows
  <1> QED
    BY <1>1, <1>2, <1>3, <1>4, <1>6, <1>7, <1>8 DEF StatesInv

LEMMA EndPreserves ==
  ASSUME NInv, EndSearch
  PROVE  StatesInv'
  <1>1. /\ undos = <<>> /\ undos' = undos /\ mode' = "idle" /\ acc' = NoState /\ scores' = {}
        /\ view' = view /\ saved' = saved
    BY DEF EndSearch, vars
  <1>2. DOMAIN undos = {} /\ ~UnderNull /\ ~UnderNull'
    BY <1>1 DEF UnderNull
  <1>3. view \in Colors /\ saved = NoState
    BY <1>2 DEF NInv, StatesInv
  <1> QED
    BY <1>1, <1>2, <1>3 DEF StatesInv, Knows

LEMMA BetweenPreserves ==
  ASSUME NInv, mode = "idle", UNCHANGED stateVars, undos' = undos
  PROVE  StatesInv'
  <1>1. /\ undos = <<>> /\ acc = NoState /\ scores = {} /\ view \in Colors
        /\ mode' = mode /\ view' = view /\ acc' = acc /\ saved' = saved /\ scores' = scores
    BY DEF NInv, StatesInv, stateVars
  <1>2. DOMAIN undos = {} /\ ~UnderNull /\ ~UnderNull'
    BY <1>1 DEF UnderNull
  <1>3. saved = NoState
    BY <1>2 DEF NInv, StatesInv
  <1> QED
    BY <1>1, <1>2, <1>3 DEF StatesInv, Knows

\* The state, wherever the search has got to, answers for the last position.
LEMMA StateStandsThere ==
  ASSUME NInv, acc # NoState
  PROVE  /\ Rooted(acc, IF UnderNull THEN NullAt + 1 ELSE 1, line, view)
         /\ mode # "rewinding" =>
               Stacked(acc, IF UnderNull THEN NullAt + 1 ELSE 1, Len(line), line, view)
  <1>1. mode \in {"worker", "lane", "rewinding"}
    BY DEF NInv, StatesInv
  <1>2. CASE ~UnderNull
    BY <1>1, <1>2 DEF NInv, StatesInv, Stacked
  <1>3. CASE UnderNull
    <2>1. NullAt \in DOMAIN undos /\ IsNull(NullAt)
      BY <1>3 DEF UnderNull, NullAt, IsNull
    <2>2. Stacked(acc, NullAt + 1, Len(line), line, view)
      BY <2>1 DEF NInv, StatesInv
    <2> QED
      BY <2>2, <1>3 DEF Stacked
  <1> QED
    BY <1>2, <1>3

LEMMA AnswersAreFresh ==
  ASSUME NInv, acc # NoState, mode # "rewinding"
  PROVE  acc.sum = FreshSum(pos, view)
  <1>1. acc.sum = FreshSum(line[Len(line)], view)
    BY StateStandsThere DEF Stacked
  <1> QED
    BY <1>1, EndOfLine DEF NInv

LEMMA EvaluatePreserves ==
  ASSUME NInv, Evaluate
  PROVE  StatesInv'
  <1> DEFINE e == [hash |-> pos.hash, sum |-> FreshSum(pos, view)]
  <1>1. /\ mode = "worker" /\ mode' = mode /\ view' = view /\ acc' = acc /\ saved' = saved
        /\ undos' = undos /\ line' = line
        /\ scores' = Keep(scores, [hash |-> pos.hash, sum |-> IF acc = NoState THEN FreshSum(pos, view)
                                                             ELSE acc.sum])
    BY DEF Evaluate, vars
  <1>2. scores' = Keep(scores, e)
    <2>1. acc # NoState => acc.sum = FreshSum(pos, view)
      BY <1>1, AnswersAreFresh
    <2> QED
      BY <2>1, <1>1
  <1> HIDE DEF e
  <1>3. Knows(scores', view)
    <2>1. Sound(pos) /\ Knows(scores, view)
      BY EndOfLine DEF NInv, StatesInv
    <2>2. Knows(Keep(scores, e), view)
      BY <2>1, CacheLearns DEF e
    <2> QED
      BY <2>2, <1>2
  <1>4. UnderNull' <=> UnderNull
    BY <1>1 DEF UnderNull
  <1> QED
    BY <1>1, <1>3, <1>4 DEF NInv, StatesInv, IsNull

LEMMA NnueStepPreserves == NInv /\ [NnueNext]_<<vars, stateVars>> => NInv'
  <1> SUFFICES ASSUME NInv, [NnueNext]_<<vars, stateVars>> PROVE NInv'
    OBVIOUS
  <1>1. IInv'
    BY EachStepIsOfTheLine, StepPreserves DEF NInv
  <1>2. StatesInv'
    <2>1. ASSUME NEW m, Between(GameMove(m)) PROVE StatesInv'
      BY <2>1, BetweenPreserves DEF Between, GameMove, Play
    <2>2. ASSUME NEW m, Descend(m) PROVE StatesInv'
      BY <1>1, <2>2, DescendPreserves
    <2>3. CASE Between(SetBookkeeping)
      BY <2>3, BetweenPreserves DEF Between, SetBookkeeping
    <2>4. CASE BeginSearch
      BY <2>4, BeginPreserves
    <2>5. CASE EndSearch
      BY <2>5, EndPreserves
    <2>6. CASE DescendNull
      BY <2>6, DescendNullPreserves
    <2>7. CASE Ascend
      BY <2>7, AscendPreserves
    <2>8. CASE RewindLine
      BY <2>8, RewindLinePreserves
    <2>9. CASE RewindState
      BY <2>9, RewindStatePreserves
    <2>10. CASE Evaluate
      BY <2>10, EvaluatePreserves
    <2>11. CASE UNCHANGED <<vars, stateVars>>
      <3>1. /\ mode' = mode /\ view' = view /\ acc' = acc /\ saved' = saved /\ scores' = scores
            /\ undos' = undos /\ line' = line
        BY <2>11 DEF vars, stateVars
      <3>2. UnderNull' <=> UnderNull
        BY <3>1 DEF UnderNull
      <3> QED
        BY <3>1, <3>2 DEF NInv, StatesInv, IsNull
    <2> QED
      BY <2>1, <2>2, <2>3, <2>4, <2>5, <2>6, <2>7, <2>8, <2>9, <2>10, <2>11 DEF NnueNext
  <1> QED
    BY <1>1, <1>2 DEF NInv

LEMMA NnueInvariance == NnueSpec => []NInv
  <1>1. NnueInit => NInv
    BY StatesStartRight
  <1>2. NInv /\ [NnueNext]_<<vars, stateVars>> => NInv'
    BY NnueStepPreserves
  <1> QED
    BY <1>1, <1>2, PTL DEF NnueSpec

\* With the evaluator beside it the line is still the line of ShogiLine: what
\* is shown of that module holds in every search that keeps a state.
THEOREM SearchIsALine == NnueSpec => Spec
  <1>1. NnueInit => Init
    BY DEF NnueInit
  <1> QED
    BY <1>1, EachStepIsOfTheLine, PTL DEF NnueSpec, Spec

\* After any descent, null move, return and rewind, and whatever the caches
\* have forgotten, the sum kept up move by move is the one a fresh accumulator
\* of the present position would have.
THEOREM SumsAreFresh == NnueSpec => []SumIsFresh
  <1>1. NInv => SumIsFresh
    BY AnswersAreFresh DEF SumIsFresh
  <1> QED
    BY <1>1, NnueInvariance, PTL

\* No cache of sums, of the state in use or of the one set aside, and no
\* cached evaluation answers for another position than its own.
THEOREM CachesAlwaysAnswerRight == NnueSpec => []CachesAnswerRight
  <1>1. NInv => CachesAnswerRight
    <2> SUFFICES ASSUME NInv PROVE CachesAnswerRight
      OBVIOUS
    <2>1. Sound(pos) /\ view \in Colors /\ Knows(scores, view)
      BY EndOfLine DEF NInv, StatesInv
    <2>2. acc = NoState \/ Knows(acc.cache, view)
      BY StateStandsThere DEF Rooted
    <2>3. saved = NoState \/ Knows(saved.cache, view)
      <3>1. CASE ~UnderNull
        BY <3>1 DEF NInv, StatesInv
      <3>2. CASE UnderNull
        <4>1. PICK j \in DOMAIN undos : IsNull(j)
          BY <3>2 DEF UnderNull, IsNull
        <4> QED
          BY <4>1 DEF NInv, StatesInv, Stacked, Rooted
      <3> QED BY <3>1, <3>2
    <2>4. NoState.cache = {}
      BY DEF NoState
    <2> QED
      BY <2>1, <2>2, <2>3, <2>4, CacheIsRight DEF CachesAnswerRight
  <1> QED
    BY <1>1, NnueInvariance, PTL

LEMMA StackedRewinds ==
  ASSUME NEW st, NEW from \in Nat, NEW to \in Nat, 1 <= from, from <= to,
         Stacked(st, from, to, line, view)
  PROVE  LevelsRewind(st, to)
  <1> DEFINE base == to - Len(st.deltas) - 1
  <1>1. PICK S : st.deltas \in Seq(S)
    BY DEF Stacked, Rooted, Typed
  <1>2. Len(st.deltas) = to - from /\ base = from - 1 /\ DOMAIN st.deltas = 1..(to - from)
    BY <1>1 DEF Stacked
  <1> HIDE DEF base
  <1>3. base >= 0 /\ base + 1 = from
    BY <1>2
  <1>4. st.root = FreshSum(line[base + 1], view)
    BY <1>3 DEF Stacked, Rooted
  <1>5. ASSUME NEW i \in DOMAIN st.deltas
        PROVE  SumBefore(FreshSum(line[base + i + 1], view), st.deltas[i]) = FreshSum(line[base + i], view)
    <2>1. i \in 1..(to - from) /\ base + i + 1 = from + i /\ base + i = from + i - 1
      BY <1>2
    <2>2. SumBefore(FreshSum(line[from + i], view), st.deltas[i]) = FreshSum(line[from + i - 1], view)
      BY <2>1 DEF Stacked
    <2> QED
      BY <2>1, <2>2
  <1> QED
    BY <1>3, <1>4, <1>5 DEF LevelsRewind, base

\* Each state leads back, level by level or in one step, to the position it
\* was created for, the state set aside for a null move included.
THEOREM StatesAlwaysRewind == NnueSpec => []StatesRewind
  <1>1. NInv => StatesRewind
    <2> SUFFICES ASSUME NInv PROVE StatesRewind
      OBVIOUS
    <2>1. Len(undos) \in Nat /\ Len(line) = Len(undos) + 1 /\ DOMAIN undos = 1..Len(undos)
      BY EndOfLine DEF NInv
    <2>2. UnderNull => /\ NullAt \in 1..Len(undos)
                       /\ saved # NoState => Stacked(saved, 1, NullAt, line, view)
      <3> SUFFICES ASSUME UnderNull
                   PROVE  /\ NullAt \in 1..Len(undos)
                          /\ saved # NoState => Stacked(saved, 1, NullAt, line, view)
        OBVIOUS
      <3>1. NullAt \in DOMAIN undos /\ IsNull(NullAt)
        BY DEF UnderNull, NullAt, IsNull
      <3> QED
        BY <3>1, <2>1 DEF NInv, StatesInv
    <2>3. \A length : LevelsRewind(NoState, length)
      BY DEF LevelsRewind
    <2>4. mode # "rewinding" => LevelsRewind(acc, Len(line))
      <3> DEFINE from == IF UnderNull THEN NullAt + 1 ELSE 1
                 to == Len(line)
      <3>1. from \in Nat /\ to \in Nat /\ 1 <= from /\ from <= to
        BY <2>1, <2>2
      <3>2. acc # NoState /\ mode # "rewinding" => Stacked(acc, from, to, line, view)
        BY StateStandsThere
      <3> HIDE DEF from, to
      <3>3. acc # NoState /\ mode # "rewinding" => LevelsRewind(acc, to)
        BY <3>1, <3>2, StackedRewinds
      <3> QED
        BY <3>3, <2>3 DEF to
    <2>5. mode = "rewinding" => acc.root = FreshSum(line[1], view)
      BY DEF NInv, StatesInv, Rooted
    <2>6. UnderNull => LevelsRewind(saved, NullAt)
      <3>1. ASSUME UnderNull, saved # NoState PROVE LevelsRewind(saved, NullAt)
        <4>1. NullAt \in Nat /\ 1 <= NullAt /\ Stacked(saved, 1, NullAt, line, view)
          BY <2>1, <2>2, <3>1
        <4> QED
          BY <4>1, StackedRewinds
      <3> QED
        BY <3>1, <2>3
    <2> QED
      BY <2>4, <2>5, <2>6 DEF StatesRewind
  <1> QED
    BY <1>1, NnueInvariance, PTL

-----------------------------------------------------------------------------
(***************************************************************************)
(* 4.  ShogiLaw: the generator's moves are the lawful ones.                *)
(***************************************************************************)
-----------------------------------------------------------------------------
(***************************************************************************)
(* Rays: the tables of directions and rays are the lines of the board.     *)
(***************************************************************************)
\* A square is its row and its column ...
LEMMA Coordinates ==
  ASSUME NEW s \in Squares
  PROVE  /\ RowOf(s) \in 0..8 /\ ColOf(s) \in 0..8
         /\ SquareAt(RowOf(s), ColOf(s)) = s
  BY DEF Squares, RowOf, ColOf, SquareAt

\* ... and a row and a column of the board are a square.
LEMMA SquareCoordinates ==
  ASSUME NEW row \in Int, NEW col \in Int, OnBoard(row, col)
  PROVE  /\ SquareAt(row, col) \in Squares
         /\ RowOf(SquareAt(row, col)) = row /\ ColOf(SquareAt(row, col)) = col
  BY DEF Squares, RowOf, ColOf, SquareAt, OnBoard

\* The square n steps from s in direction d, and whether there is one.
Away(s, d, n) == SquareAt(RowOf(s) + n * d[1], ColOf(s) + n * d[2])
\* The square n steps from s in direction d is on the board.
Within(s, d, n) == n \in 1..8 /\ OnBoard(RowOf(s) + n * d[1], ColOf(s) + n * d[2])

\* A direction is a pair of unit steps, not both zero.
LEMMA DirectionParts ==
  ASSUME NEW d \in Directions
  PROVE  /\ d[1] \in -1..1 /\ d[2] \in -1..1 /\ (d[1] # 0 \/ d[2] # 0)
         /\ d = <<d[1], d[2]>>
  BY DEF Directions

\* The products with a unit step, which the arithmetic of the provers wants
\* spelled out.
LEMMA Multiples ==
  ASSUME NEW n \in Int, NEW e \in -1..1
  PROVE  /\ n * e \in Int
         /\ e = 0 => n * e = 0
         /\ e = 1 => n * e = n
         /\ e = -1 => n * e = -n
  <1>1. CASE e = 0
    BY <1>1
  <1>2. CASE e = 1
    BY <1>2
  <1>3. CASE e = -1
    BY <1>3
  <1> QED
    BY <1>1, <1>2, <1>3

\* A ray that reaches n squares far reaches every shorter distance.
LEMMA WithinCloses ==
  ASSUME NEW s \in Squares, NEW d \in Directions, NEW n, Within(s, d, n), NEW m \in 1..n
  PROVE  Within(s, d, m)
  <1>1. n \in 1..8 /\ m \in 1..8 /\ m <= n
    BY DEF Within
  <1>2. /\ RowOf(s) \in Int /\ ColOf(s) \in Int
        /\ RowOf(s) \in 0..8 /\ ColOf(s) \in 0..8
        /\ RowOf(s) + n * d[1] \in 0..8 /\ ColOf(s) + n * d[2] \in 0..8
    BY Coordinates DEF Within, OnBoard
  <1>3. ASSUME NEW x \in 0..8, NEW e \in -1..1, x + n * e \in 0..8
        PROVE  x + m * e \in 0..8
    <2>1. CASE e = 0
      BY <2>1, <1>1
    <2>2. CASE e = 1
      BY <2>2, <1>1, <1>3
    <2>3. CASE e = -1
      BY <2>3, <1>1, <1>3
    <2> QED
      BY <2>1, <2>2, <2>3
  <1> QED
    BY <1>1, <1>2, <1>3, DirectionParts DEF Within, OnBoard

\* Distances closed downwards are all those up to their number.
LEMMA InitialSegment ==
  ASSUME NEW S, S \subseteq 1..8, \A n \in S : \A m \in 1..n : m \in S
  PROVE  S = 1..Cardinality(S) /\ Cardinality(S) \in 0..8
  <1>1. \E k \in 0..8 : S = 1..k
    <2>1. CASE 1 \notin S
      <3>1. S = 1..0
        BY <2>1
      <3> QED
        BY <3>1
    <2>2. ASSUME NEW k \in 1..7, k \in S, k + 1 \notin S PROVE S = 1..k
      <3>1. \A n \in S : n \in 1..8 /\ ~(k + 1 \in 1..n)
        BY <2>2
      <3>2. \A n \in S : n \in 1..k
        BY <3>1
      <3> QED
        BY <2>2, <3>2
    <2>3. CASE 8 \in S
      <3>1. S = 1..8
        BY <2>3
      <3> QED
        BY <3>1
    <2>4. CASE 1 \in S /\ 8 \notin S
      <3>1. \E k \in 1..7 : k \in S /\ k + 1 \notin S
        BY <2>4
      <3> QED
        BY <3>1, <2>2
    <2> QED
      BY <2>1, <2>3, <2>4
  <1>2. PICK k \in 0..8 : S = 1..k
    BY <1>1
  <1>3. Cardinality(1..k) = k
    BY FS_Interval, k \in Int, 1 \in Int, Cardinality(1..k) = IF 1 > k THEN 0 ELSE k-1+1
  <1> QED
    BY <1>2, <1>3

\* attack_rays holds the squares of the board in one direction, in order.
LEMMA RayIs ==
  ASSUME NEW s \in Squares, NEW d \in Directions
  PROVE  /\ DOMAIN AttackRays[s, d] \subseteq 1..8
         /\ \A n : n \in DOMAIN AttackRays[s, d] <=> Within(s, d, n)
         /\ \A n \in DOMAIN AttackRays[s, d] : AttackRays[s, d][n] = Away(s, d, n)
         /\ Len(AttackRays[s, d]) \in Nat
         /\ DOMAIN AttackRays[s, d] = 1..Len(AttackRays[s, d])
  <1> DEFINE S == {n \in 1..8 : OnBoard(RowOf(s) + n * d[1], ColOf(s) + n * d[2])}
             R == AttackRays[s, d]
  <1>1. \A n \in S : \A m \in 1..n : m \in S
    BY WithinCloses DEF Within
  <1>2. S = 1..Cardinality(S) /\ Cardinality(S) \in 0..8
    <2> HIDE DEF S
    <2>1. S \subseteq 1..8
      BY DEF S
    <2> QED
      BY <1>1, <2>1, InitialSegment
  <1>3. R = [n \in 1..Cardinality(S) |-> Away(s, d, n)]
    BY DEF AttackRays, Away
  <1>4. \A n : n \in S <=> Within(s, d, n)
    BY DEF Within
  <1> HIDE DEF S, R
  <1>5. S \subseteq 1..8
    BY <1>2
  <1>6. DOMAIN R = S
    BY <1>2, <1>3
  <1>7. \A n \in S : R[n] = Away(s, d, n)
    BY <1>2, <1>3
  <1>8. Len(R) = Cardinality(S)
    BY <1>2, <1>3
  <1>9. /\ DOMAIN R \subseteq 1..8
        /\ \A n : n \in DOMAIN R <=> Within(s, d, n)
        /\ \A n \in DOMAIN R : R[n] = Away(s, d, n)
        /\ Len(R) \in Nat
        /\ DOMAIN R = 1..Len(R)
    BY <1>2, <1>4, <1>5, <1>6, <1>7, <1>8
  <1> QED
    BY <1>9 DEF R

-----------------------------------------------------------------------------
(***************************************************************************)
(* Lines, seen from both ends.                                             *)
(***************************************************************************)
\* Squares, rows and columns are numbers.
LEMMA SquaresAreInts == \A s \in Squares : s \in Int /\ RowOf(s) \in Int /\ ColOf(s) \in Int
  BY Coordinates DEF Squares

\* A square has its row and its column for itself.
LEMMA SameCoordinates ==
  ASSUME NEW s \in Squares, NEW t \in Squares, RowOf(s) = RowOf(t), ColOf(s) = ColOf(t)
  PROVE  s = t
  BY Coordinates

\* Where the square n steps away is.
LEMMA AwayIs ==
  ASSUME NEW s \in Squares, NEW d \in Directions, NEW n, Within(s, d, n)
  PROVE  /\ Away(s, d, n) \in Squares
         /\ RowOf(Away(s, d, n)) = RowOf(s) + n * d[1]
         /\ ColOf(Away(s, d, n)) = ColOf(s) + n * d[2]
         /\ Away(s, d, n) # s
         /\ n \in 1..8
  <1>1. n \in 1..8 /\ RowOf(s) \in Int /\ ColOf(s) \in Int /\ d[1] \in Int /\ d[2] \in Int
    BY SquaresAreInts, DirectionParts DEF Within
  <1>2. /\ Away(s, d, n) \in Squares
        /\ RowOf(Away(s, d, n)) = RowOf(s) + n * d[1]
        /\ ColOf(Away(s, d, n)) = ColOf(s) + n * d[2]
    <2>1. RowOf(s) + n * d[1] \in Int /\ ColOf(s) + n * d[2] \in Int
      BY <1>1
    <2> QED
      BY <2>1, SquareCoordinates DEF Within, Away
  <1>3. Away(s, d, n) # s
    <2>1. n * d[1] # 0 \/ n * d[2] # 0
      BY <1>1, DirectionParts, Multiples
    <2>2. n * d[1] \in Int /\ n * d[2] \in Int
      BY <1>1, DirectionParts, Multiples
    <2>3. \A r, x \in Int : r + x = r => x = 0
      OBVIOUS
    <2>4. SUFFICES ASSUME Away(s, d, n) = s PROVE FALSE
      OBVIOUS
    <2>5. RowOf(s) + n * d[1] = RowOf(s) /\ ColOf(s) + n * d[2] = ColOf(s)
      BY <1>2, <2>4
    <2> QED
      BY <1>1, <2>1, <2>2, <2>3, <2>5
  <1> QED
    BY <1>1, <1>2, <1>3

\* The same line, walked the other way.
Back(d) == <<-d[1], -d[2]>>
\* Nothing stands strictly between s and the square n steps away.
Clear(board, s, d, n) == \A m \in 1..(n - 1) : board[Away(s, d, m)] = Empty

\* The opposite of a direction.
LEMMA BackIsDirection ==
  ASSUME NEW d \in Directions
  PROVE  Back(d) \in Directions /\ Back(Back(d)) = d
  BY DirectionParts DEF Back, Directions

\* The arithmetic of going back.
LEMMA BackProduct ==
  ASSUME NEW n \in Int, NEW m \in Int, NEW e \in -1..1
  PROVE  m * (-e) = -(m * e) /\ (n - m) * e = n * e - m * e
  <1>1. CASE e = 0
    BY <1>1
  <1>2. CASE e = 1
    BY <1>2
  <1>3. CASE e = -1
    BY <1>3
  <1> QED
    BY <1>1, <1>2, <1>3

\* The way back passes the same squares.
LEMMA WalkBack ==
  ASSUME NEW s \in Squares, NEW d \in Directions, NEW n, Within(s, d, n),
         NEW t, t = Away(s, d, n)
  PROVE  /\ Within(t, Back(d), n) /\ Away(t, Back(d), n) = s
         /\ \A m \in 1..(n - 1) : Away(t, Back(d), m) = Away(s, d, n - m)
  <1>1. /\ n \in 1..8 /\ RowOf(s) \in 0..8 /\ ColOf(s) \in 0..8
        /\ d[1] \in -1..1 /\ d[2] \in -1..1
        /\ n * d[1] \in Int /\ n * d[2] \in Int
    BY Coordinates, DirectionParts, Multiples DEF Within
  <1>2. /\ t \in Squares /\ RowOf(t) = RowOf(s) + n * d[1] /\ ColOf(t) = ColOf(s) + n * d[2]
    BY AwayIs
  <1>3. Back(d)[1] = -d[1] /\ Back(d)[2] = -d[2]
    BY DEF Back
  <1>4. ASSUME NEW m \in 1..n
        PROVE  /\ RowOf(t) + m * Back(d)[1] = RowOf(s) + (n - m) * d[1]
               /\ ColOf(t) + m * Back(d)[2] = ColOf(s) + (n - m) * d[2]
    <2>1. m \in Int /\ n \in Int /\ m * d[1] \in Int /\ m * d[2] \in Int
      BY <1>1, Multiples
    <2>2. /\ m * (-d[1]) = -(m * d[1]) /\ (n - m) * d[1] = n * d[1] - m * d[1]
          /\ m * (-d[2]) = -(m * d[2]) /\ (n - m) * d[2] = n * d[2] - m * d[2]
      BY <1>1, <2>1, BackProduct
    <2> QED
      BY <1>1, <1>2, <1>3, <2>1, <2>2
  <1>5. n \in 1..n /\ n - n = 0 /\ 0 * d[1] = 0 /\ 0 * d[2] = 0
    BY <1>1
  <1>6. RowOf(t) + n * Back(d)[1] = RowOf(s) /\ ColOf(t) + n * Back(d)[2] = ColOf(s)
    <2>1. /\ RowOf(t) + n * Back(d)[1] = RowOf(s) + 0 * d[1]
          /\ ColOf(t) + n * Back(d)[2] = ColOf(s) + 0 * d[2]
      BY <1>4, <1>5
    <2> QED
      BY <1>1, <1>5, <2>1
  <1>7. Within(t, Back(d), n) /\ Away(t, Back(d), n) = s
    BY <1>1, <1>6, Coordinates DEF Within, Away, OnBoard
  <1>8. ASSUME NEW m \in 1..(n - 1) PROVE Away(t, Back(d), m) = Away(s, d, n - m)
    BY <1>1, <1>4 DEF Away
  <1> QED
    BY <1>7, <1>8

\* A free line is free from both ends.
LEMMA ClearBack ==
  ASSUME NEW s \in Squares, NEW d \in Directions, NEW n, Within(s, d, n),
         NEW t, t = Away(s, d, n), NEW board
  PROVE  Clear(board, t, Back(d), n) <=> Clear(board, s, d, n)
  <1>1. n \in 1..8
    BY DEF Within
  <1>2. \A m \in 1..(n - 1) : n - m \in 1..(n - 1) /\ n - (n - m) = m
    BY <1>1
  <1>3. \A m \in 1..(n - 1) : Away(t, Back(d), m) = Away(s, d, n - m)
    BY WalkBack
  <1>4. \A m \in 1..(n - 1) : Away(t, Back(d), n - m) = Away(s, d, m)
    BY <1>2, <1>3
  <1> QED
    BY <1>2, <1>3, <1>4 DEF Clear

-----------------------------------------------------------------------------
\* The distance of two squares of one line, from their offsets.
Farther(dr, dc) == IF Abs(dr) > Abs(dc) THEN Abs(dr) ELSE Abs(dc)

\* The offsets of a square n steps away give the direction and the distance ...
LEMMA LineOffsets ==
  ASSUME NEW d \in Directions, NEW n \in 1..8, NEW dr, NEW dc, dr = n * d[1], dc = n * d[2]
  PROVE  /\ dr \in Int /\ dc \in Int
         /\ Sign(dr) = d[1] /\ Sign(dc) = d[2] /\ Farther(dr, dc) = n
         /\ Abs(dr) = Abs(dc) <=> Diagonal(d)
         /\ (dr = 0 \/ dc = 0) <=> ~Diagonal(d)
         /\ dr = 0 <=> d[1] = 0
         /\ dc = 0 <=> d[2] = 0
  <1>1. n \in Int /\ d[1] \in -1..1 /\ d[2] \in -1..1 /\ (d[1] # 0 \/ d[2] # 0)
    BY DirectionParts
  <1>2. /\ dr \in Int
        /\ d[1] = 0 => dr = 0
        /\ d[1] = 1 => dr = n
        /\ d[1] = -1 => dr = -n
        /\ dc \in Int
        /\ d[2] = 0 => dc = 0
        /\ d[2] = 1 => dc = n
        /\ d[2] = -1 => dc = -n
    BY <1>1, Multiples
  <1> QED
    <2>1. ASSUME NEW x \in Int, NEW e \in -1..1, e = 0 => x = 0, e = 1 => x = n, e = -1 => x = -n
          PROVE  /\ Sign(x) = e /\ (x = 0 <=> e = 0) /\ (e # 0 => Abs(x) = n)
                 /\ (e = 0 => Abs(x) = 0)
      BY <1>1, <2>1 DEF Sign, Abs
    <2>2. /\ Sign(dr) = d[1] /\ (dr = 0 <=> d[1] = 0)
          /\ (d[1] # 0 => Abs(dr) = n) /\ (d[1] = 0 => Abs(dr) = 0)
      <3>1. /\ dr \in Int /\ d[1] \in -1..1
            /\ d[1] = 0 => dr = 0
            /\ d[1] = 1 => dr = n
            /\ d[1] = -1 => dr = -n
        BY <1>1, <1>2
      <3> QED
        BY <3>1, <2>1
    <2>3. /\ Sign(dc) = d[2] /\ (dc = 0 <=> d[2] = 0)
          /\ (d[2] # 0 => Abs(dc) = n) /\ (d[2] = 0 => Abs(dc) = 0)
      <3>1. /\ dc \in Int /\ d[2] \in -1..1
            /\ d[2] = 0 => dc = 0
            /\ d[2] = 1 => dc = n
            /\ d[2] = -1 => dc = -n
        BY <1>1, <1>2
      <3> QED
        BY <3>1, <2>1
    <2>4. Farther(dr, dc) = n
      BY <1>1, <2>2, <2>3 DEF Farther
    <2> QED
      BY <1>1, <1>2, <2>2, <2>3, <2>4 DEF Diagonal

\* ... and offsets on a line are so many steps in a direction.
LEMMA OffsetsLine ==
  ASSUME NEW dr \in -8..8, NEW dc \in -8..8, dr # 0 \/ dc # 0,
         Abs(dr) = Abs(dc) \/ dr = 0 \/ dc = 0
  PROVE  /\ <<Sign(dr), Sign(dc)>> \in Directions /\ Farther(dr, dc) \in 1..8
         /\ Farther(dr, dc) * Sign(dr) = dr /\ Farther(dr, dc) * Sign(dc) = dc
  <1>1. Sign(dr) \in -1..1 /\ Sign(dc) \in -1..1
    BY DEF Sign
  <1>2. <<Sign(dr), Sign(dc)>> \in Directions
    BY <1>1 DEF Sign, Directions
  <1>3. Farther(dr, dc) \in 1..8
    BY DEF Farther, Abs
  <1>4. /\ dr # 0 => Farther(dr, dc) = Abs(dr)
        /\ dc # 0 => Farther(dr, dc) = Abs(dc)
    BY DEF Farther, Abs
  <1>5. ASSUME NEW x \in -8..8 PROVE Abs(x) * Sign(x) = x
    <2>1. CASE x = 0
      BY <2>1 DEF Abs, Sign
    <2>2. CASE x > 0
      BY <2>2 DEF Abs, Sign
    <2>3. CASE x < 0
      BY <2>3 DEF Abs, Sign
    <2> QED
      BY <2>1, <2>2, <2>3
  <1>6. Farther(dr, dc) * Sign(dr) = dr
    <2>1. CASE dr = 0
      BY <2>1, <1>3 DEF Sign
    <2>2. CASE dr # 0
      BY <2>2, <1>4, <1>5
    <2> QED
      BY <2>1, <2>2
  <1>7. Farther(dr, dc) * Sign(dc) = dc
    <2>1. CASE dc = 0
      BY <2>1, <1>3 DEF Sign
    <2>2. CASE dc # 0
      BY <2>2, <1>4, <1>5
    <2> QED
      BY <2>1, <2>2
  <1> QED
    BY <1>1, <1>2, <1>3, <1>6, <1>7

-----------------------------------------------------------------------------
(***************************************************************************)
(* One piece: the tables of steps and rays are its attacks.                *)
(***************************************************************************)
\* Either side moves by one rank.
LEMMA ForwardIs == \A c : Forward(c) \in {-1, 1}
  BY DEF Forward

\* The table of steps holds the steps by which a type attacks.
LEMMA StepsAre ==
  ASSUME NEW t \in Types, NEW f \in {-1, 1}, NEW dr \in Int, NEW dc \in Int
  PROVE  <<dr, dc>> \in StepsOf(t, f) <=> StepPieceAttacks(t, dr, dc, f)
  <1>1. CASE t = "pawn"
    BY <1>1 DEF StepsOf, StepPieceAttacks, GoldLike
  <1>2. CASE t = "knight"
    BY <1>2 DEF StepsOf, StepPieceAttacks, GoldLike
  <1>3. CASE t = "silver"
    BY <1>3 DEF StepsOf, StepPieceAttacks, GoldLike
  <1>4. CASE t \in GoldLike
    <2>1. t # "pawn" /\ t # "knight" /\ t # "silver" /\ t # "king" /\ t # "horse" /\ t # "dragon"
      BY <1>4 DEF GoldLike
    <2>2. StepsOf(t, f) = {<<f, -1>>, <<f, 0>>, <<f, 1>>, <<0, -1>>, <<0, 1>>, <<-f, 0>>}
      BY <1>4, <2>1 DEF StepsOf
    <2> QED
      BY <1>4, <2>1, <2>2 DEF StepPieceAttacks
  <1>5. CASE t = "king"
    BY <1>5 DEF StepsOf, StepPieceAttacks, GoldLike, Directions
  <1>6. CASE t = "horse"
    BY <1>6 DEF StepsOf, StepPieceAttacks, GoldLike, Directions, Diagonal, Abs
  <1>7. CASE t = "dragon"
    BY <1>7 DEF StepsOf, StepPieceAttacks, GoldLike, Directions, Diagonal, Abs
  <1>8. CASE t \in {"lance", "bishop", "rook"}
    BY <1>8 DEF StepsOf, StepPieceAttacks, GoldLike
  <1>9. \/ t = "pawn" \/ t = "knight" \/ t = "silver" \/ t \in GoldLike \/ t = "king"
        \/ t = "horse" \/ t = "dragon" \/ t \in {"lance", "bishop", "rook"}
    BY DEF Types, HandTypes, GoldLike
  <1> QED
    BY <1>1, <1>2, <1>3, <1>4, <1>5, <1>6, <1>7, <1>8, <1>9

\* The directions in which a type slides.
LEMMA SlidesAre ==
  ASSUME NEW t \in Types, NEW f \in {-1, 1}, NEW d
  PROVE  d \in SlidesOf(t, f) <=>
            /\ d \in Directions
            /\ \/ t \in {"bishop", "horse"} /\ Diagonal(d)
               \/ t \in {"rook", "dragon"} /\ ~Diagonal(d)
               \/ t = "lance" /\ d[1] = f /\ d[2] = 0
  <1>1. CASE t = "lance"
    <2>1. <<f, 0>> \in Directions
      BY DEF Directions
    <2>2. SlidesOf(t, f) = {<<f, 0>>}
      BY <1>1 DEF SlidesOf
    <2>3. \A e \in Directions : e = <<f, 0>> <=> e[1] = f /\ e[2] = 0
      BY DirectionParts
    <2> QED
      BY <1>1, <2>1, <2>2, <2>3
  <1>2. CASE t \in {"bishop", "horse"}
    <2>1. SlidesOf(t, f) = {e \in Directions : Diagonal(e)}
      BY <1>2 DEF SlidesOf
    <2> QED
      BY <1>2, <2>1
  <1>3. CASE t \in {"rook", "dragon"}
    <2>1. SlidesOf(t, f) = {e \in Directions : ~Diagonal(e)}
      BY <1>3 DEF SlidesOf
    <2> QED
      BY <1>3, <2>1
  <1>4. CASE t \notin {"lance", "bishop", "horse", "rook", "dragon"}
    <2>1. SlidesOf(t, f) = {}
      BY <1>4 DEF SlidesOf
    <2> QED
      BY <1>4, <2>1
  <1> QED
    BY <1>1, <1>2, <1>3, <1>4

\* attack_ray_masks: a slider found on a ray slides back along it.
LEMMA RayMaskIs ==
  ASSUME NEW c \in Colors, NEW d \in Directions, NEW t \in Types
  PROVE  t \in RayMask(c, d) <=> Back(d) \in SlidesOf(t, Forward(c))
  <1>1. Back(d) \in Directions /\ Back(d)[1] = -d[1] /\ Back(d)[2] = -d[2]
    BY BackIsDirection DEF Back
  <1>2. d[1] \in -1..1 /\ d[2] \in -1..1 /\ Forward(c) \in {-1, 1}
    BY DirectionParts, ForwardIs
  <1>3. Diagonal(Back(d)) <=> Diagonal(d)
    BY <1>1, <1>2 DEF Diagonal
  <1>4. Back(d)[1] = Forward(c) <=> d[1] = -Forward(c)
    BY <1>1, <1>2
  <1>5. Back(d)[2] = 0 <=> d[2] = 0
    BY <1>1, <1>2
  <1>6. d[1] = -Forward(c) /\ d[2] = 0 => ~Diagonal(d)
    BY DEF Diagonal
  <1>7. Back(d) \in SlidesOf(t, Forward(c)) <=>
            \/ t \in {"bishop", "horse"} /\ Diagonal(d)
            \/ t \in {"rook", "dragon"} /\ ~Diagonal(d)
            \/ t = "lance" /\ d[1] = -Forward(c) /\ d[2] = 0
    BY <1>1, <1>2, <1>3, <1>4, <1>5, SlidesAre
  <1>8. t \in RayMask(c, d) <=>
            \/ t \in {"bishop", "horse"} /\ Diagonal(d)
            \/ t \in {"rook", "dragon"} /\ ~Diagonal(d)
            \/ t = "lance" /\ d[1] = -Forward(c) /\ d[2] = 0
    <2>1. CASE Diagonal(d)
      BY <2>1, <1>6 DEF RayMask
    <2>2. CASE ~Diagonal(d)
      BY <2>2 DEF RayMask
    <2> QED
      BY <2>1, <2>2
  <1> QED
    BY <1>7, <1>8

\* A piece on `from' slides to `to': along a line, over empty squares.
Slides(board, from, to) ==
    \E d \in SlidesOf(board[from].type, Forward(board[from].color)), n \in 1..8 :
        Within(from, d, n) /\ to = Away(from, d, n) /\ Clear(board, from, d, n)

\* The geometry of one piece, without the tables, is the tables'.
LEMMA PieceAttacksIs ==
  ASSUME NEW board \in Boards, NEW from \in Squares, NEW to \in Squares
  PROVE  PieceAttacksSquare(board, from, to) <=>
            /\ from # to
            /\ board[from] \in Pieces
            /\ \/ StepPieceAttacks(board[from].type, RowOf(to) - RowOf(from),
                                   ColOf(to) - ColOf(from), Forward(board[from].color))
               \/ Slides(board, from, to)
  <1> DEFINE dr == RowOf(to) - RowOf(from)
             dc == ColOf(to) - ColOf(from)
             type == board[from].type
             f == Forward(board[from].color)
             step == StepPieceAttacks(type, dr, dc, f)
             lined == \/ Abs(dr) = Abs(dc) /\ type \in {"bishop", "horse"}
                      \/ (dr = 0 \/ dc = 0) /\ type \in {"rook", "dragon"}
                      \/ dc = 0 /\ dr * f > 0 /\ type = "lance"
             free == \A n \in 1..(Farther(dr, dc) - 1) :
                        board[SquareAt(RowOf(from) + n * Sign(dr),
                                       ColOf(from) + n * Sign(dc))] = Empty
  <1>1. PieceAttacksSquare(board, from, to) <=>
           from # to /\ board[from] # Empty /\ (step \/ (lined /\ free))
    BY DEF PieceAttacksSquare, Farther
  <1>2. board[from] \in Pieces \cup {Empty} /\ Empty \notin Pieces
    BY DEF Boards, Empty, Pieces, Colors, Black, White
  <1>3. SUFFICES ASSUME from # to, board[from] \in Pieces
                 PROVE  lined /\ free <=> Slides(board, from, to)
    BY <1>1, <1>2 DEF Slides
  <1>4. /\ RowOf(from) \in 0..8 /\ ColOf(from) \in 0..8
        /\ RowOf(to) \in 0..8 /\ ColOf(to) \in 0..8
        /\ dr \in -8..8 /\ dc \in -8..8 /\ (dr # 0 \/ dc # 0)
    BY <1>3, Coordinates, SameCoordinates
  <1>5. type \in Types /\ f \in {-1, 1}
    BY <1>3, ForwardIs DEF Pieces
  <1> DEFINE L(d) == \/ type \in {"bishop", "horse"} /\ Diagonal(d)
                     \/ type \in {"rook", "dragon"} /\ ~Diagonal(d)
                     \/ type = "lance" /\ d[1] = f /\ d[2] = 0
  <1>6. \A d \in Directions : d \in SlidesOf(type, f) <=> L(d)
    BY <1>5, SlidesAre
  <1>7. \A d : d \in SlidesOf(type, f) => d \in Directions
    BY <1>5, SlidesAre
  <1>8. ASSUME NEW d \in Directions, NEW n \in 1..8, dr = n * d[1], dc = n * d[2]
        PROVE  lined <=> L(d)
    <2>1. /\ Abs(dr) = Abs(dc) <=> Diagonal(d)
          /\ (dr = 0 \/ dc = 0) <=> ~Diagonal(d)
          /\ dc = 0 <=> d[2] = 0
      BY <1>8, LineOffsets
    <2>2. dr * f > 0 <=> d[1] = f
      <3>0. d[1] \in -1..1
        BY DirectionParts
      <3>1. CASE f = 1
        BY <3>1, <3>0, <1>4, <1>8, Multiples
      <3>2. CASE f = -1
        BY <3>2, <3>0, <1>4, <1>8, Multiples
      <3> QED
        BY <3>1, <3>2, <1>5
    <2> QED
      BY <2>1, <2>2
  <1>9. ASSUME lined, free PROVE Slides(board, from, to)
    <2> DEFINE d == <<Sign(dr), Sign(dc)>>
               n == Farther(dr, dc)
    <2>1. Abs(dr) = Abs(dc) \/ dr = 0 \/ dc = 0
      BY <1>9
    <2>2. d \in Directions /\ n \in 1..8 /\ n * d[1] = dr /\ n * d[2] = dc
      <3>1. d[1] = Sign(dr) /\ d[2] = Sign(dc)
        OBVIOUS
      <3> DEFINE x == dr
                 y == dc
      <3>2. x \in -8..8 /\ y \in -8..8 /\ (x # 0 \/ y # 0)
        BY <1>4
      <3>3. Abs(x) = Abs(y) \/ x = 0 \/ y = 0
        BY <2>1
      <3> HIDE DEF x, y
      <3>4. /\ <<Sign(x), Sign(y)>> \in Directions /\ Farther(x, y) \in 1..8
            /\ Farther(x, y) * Sign(x) = x /\ Farther(x, y) * Sign(y) = y
        BY <3>2, <3>3, OffsetsLine
      <3> QED
        BY <3>1, <3>4 DEF x, y
    <2>3. RowOf(from) + n * d[1] = RowOf(to) /\ ColOf(from) + n * d[2] = ColOf(to)
      BY <1>4, <2>2
    <2>4. Within(from, d, n) /\ to = Away(from, d, n)
      BY <1>4, <2>2, <2>3, Coordinates DEF Within, Away, OnBoard
    <2>5. Clear(board, from, d, n)
      BY <1>9 DEF Clear, Away
    <2>6. d \in SlidesOf(type, f)
      BY <1>6, <1>8, <1>9, <2>2
    <2> HIDE DEF d, n
    <2> QED
      BY <2>2, <2>4, <2>5, <2>6 DEF Slides
  <1>10. ASSUME Slides(board, from, to) PROVE lined /\ free
    <2>1. PICK d \in SlidesOf(type, f), n \in 1..8 :
             Within(from, d, n) /\ to = Away(from, d, n) /\ Clear(board, from, d, n)
      BY <1>10 DEF Slides
    <2>2. d \in Directions /\ L(d)
      BY <1>6, <1>7
    <2>3. RowOf(to) = RowOf(from) + n * d[1] /\ ColOf(to) = ColOf(from) + n * d[2]
      BY <2>1, <2>2, AwayIs
    <2>4. n * d[1] \in Int /\ n * d[2] \in Int
      BY <2>2, DirectionParts, Multiples
    <2>5. dr = n * d[1] /\ dc = n * d[2]
      BY <1>4, <2>3, <2>4
    <2>6. Sign(dr) = d[1] /\ Sign(dc) = d[2] /\ Farther(dr, dc) = n
      BY <2>2, <2>5, LineOffsets
    <2>7. free
      BY <2>1, <2>6 DEF Clear, Away
    <2> QED
      BY <1>8, <2>2, <2>5, <2>7
  <1> QED
    BY <1>9, <1>10

-----------------------------------------------------------------------------
(***************************************************************************)
(* The probe lists of step attacks leave nothing out.                      *)
(***************************************************************************)
\* Counting a union of single elements.
LEMMA OneMore ==
  ASSUME NEW S, IsFiniteSet(S), NEW k \in Nat, Cardinality(S) <= k, NEW x
  PROVE  IsFiniteSet(S \cup {x}) /\ Cardinality(S \cup {x}) <= k + 1
  <1>1. Cardinality(S) \in Nat
    BY FS_CardinalityType
  <1>2. /\ IsFiniteSet(S \cup {x})
        /\ Cardinality(S \cup {x}) = IF x \in S THEN Cardinality(S) ELSE Cardinality(S) + 1
    BY FS_AddElement
  <1> QED
    BY <1>1, <1>2

\* The squares a step attack can come from: the ring and two knights' jumps.
Around(t, f) ==
    {t - 10} \cup {t - 9} \cup {t - 8} \cup {t - 1} \cup {t + 1} \cup {t + 8}
    \cup {t + 9} \cup {t + 10} \cup {t - 18 * f - 1} \cup {t - 18 * f + 1}

\* Ten single elements are at most ten.
LEMMA TenAtMost ==
  ASSUME NEW a1, NEW a2, NEW a3, NEW a4, NEW a5, NEW a6, NEW a7, NEW a8, NEW a9, NEW a10
  PROVE  /\ IsFiniteSet({a1} \cup {a2} \cup {a3} \cup {a4} \cup {a5} \cup {a6} \cup {a7}
                        \cup {a8} \cup {a9} \cup {a10})
         /\ Cardinality({a1} \cup {a2} \cup {a3} \cup {a4} \cup {a5} \cup {a6} \cup {a7}
                        \cup {a8} \cup {a9} \cup {a10}) <= 10
  <1>0. IsFiniteSet({}) /\ Cardinality({}) <= 0
    BY FS_EmptySet
  <1> DEFINE B1 == {} \cup {a1}
  <1>1. IsFiniteSet(B1) /\ Cardinality(B1) <= 1
    <2>1. IsFiniteSet({} \cup {a1}) /\ Cardinality({} \cup {a1}) <= 0 + 1
      BY <1>0, OneMore
    <2> QED
      BY <2>1
  <1> HIDE DEF B1
  <1> DEFINE B2 == B1 \cup {a2}
  <1>2. IsFiniteSet(B2) /\ Cardinality(B2) <= 2
    <2>1. IsFiniteSet(B1 \cup {a2}) /\ Cardinality(B1 \cup {a2}) <= 1 + 1
      BY <1>1, OneMore
    <2> QED
      BY <2>1
  <1> HIDE DEF B2
  <1> DEFINE B3 == B2 \cup {a3}
  <1>3. IsFiniteSet(B3) /\ Cardinality(B3) <= 3
    <2>1. IsFiniteSet(B2 \cup {a3}) /\ Cardinality(B2 \cup {a3}) <= 2 + 1
      BY <1>2, OneMore
    <2> QED
      BY <2>1
  <1> HIDE DEF B3
  <1> DEFINE B4 == B3 \cup {a4}
  <1>4. IsFiniteSet(B4) /\ Cardinality(B4) <= 4
    <2>1. IsFiniteSet(B3 \cup {a4}) /\ Cardinality(B3 \cup {a4}) <= 3 + 1
      BY <1>3, OneMore
    <2> QED
      BY <2>1
  <1> HIDE DEF B4
  <1> DEFINE B5 == B4 \cup {a5}
  <1>5. IsFiniteSet(B5) /\ Cardinality(B5) <= 5
    <2>1. IsFiniteSet(B4 \cup {a5}) /\ Cardinality(B4 \cup {a5}) <= 4 + 1
      BY <1>4, OneMore
    <2> QED
      BY <2>1
  <1> HIDE DEF B5
  <1> DEFINE B6 == B5 \cup {a6}
  <1>6. IsFiniteSet(B6) /\ Cardinality(B6) <= 6
    <2>1. IsFiniteSet(B5 \cup {a6}) /\ Cardinality(B5 \cup {a6}) <= 5 + 1
      BY <1>5, OneMore
    <2> QED
      BY <2>1
  <1> HIDE DEF B6
  <1> DEFINE B7 == B6 \cup {a7}
  <1>7. IsFiniteSet(B7) /\ Cardinality(B7) <= 7
    <2>1. IsFiniteSet(B6 \cup {a7}) /\ Cardinality(B6 \cup {a7}) <= 6 + 1
      BY <1>6, OneMore
    <2> QED
      BY <2>1
  <1> HIDE DEF B7
  <1> DEFINE B8 == B7 \cup {a8}
  <1>8. IsFiniteSet(B8) /\ Cardinality(B8) <= 8
    <2>1. IsFiniteSet(B7 \cup {a8}) /\ Cardinality(B7 \cup {a8}) <= 7 + 1
      BY <1>7, OneMore
    <2> QED
      BY <2>1
  <1> HIDE DEF B8
  <1> DEFINE B9 == B8 \cup {a9}
  <1>9. IsFiniteSet(B9) /\ Cardinality(B9) <= 9
    <2>1. IsFiniteSet(B8 \cup {a9}) /\ Cardinality(B8 \cup {a9}) <= 8 + 1
      BY <1>8, OneMore
    <2> QED
      BY <2>1
  <1> HIDE DEF B9
  <1> DEFINE B10 == B9 \cup {a10}
  <1>10. IsFiniteSet(B10) /\ Cardinality(B10) <= 10
    <2>1. IsFiniteSet(B9 \cup {a10}) /\ Cardinality(B9 \cup {a10}) <= 9 + 1
      BY <1>9, OneMore
    <2> QED
      BY <2>1
  <1>11. B10 = {a1} \cup {a2} \cup {a3} \cup {a4} \cup {a5} \cup {a6} \cup {a7}
               \cup {a8} \cup {a9} \cup {a10}
    BY DEF B1, B2, B3, B4, B5, B6, B7, B8, B9, B10
  <1> QED
    BY <1>10, <1>11

\* The squares a probe may come from are at most ten: the array of a probe
\* list overflows for no square and no side.
LEMMA AroundIsSmall ==
  ASSUME NEW t, NEW f
  PROVE  IsFiniteSet(Around(t, f)) /\ Cardinality(Around(t, f)) <= 10
  <1> DEFINE x1 == t - 10
             x2 == t - 9
             x3 == t - 8
             x4 == t - 1
             x5 == t + 1
             x6 == t + 8
             x7 == t + 9
             x8 == t + 10
             x9 == t - 18 * f - 1
             x10 == t - 18 * f + 1
             S == {x1} \cup {x2} \cup {x3} \cup {x4} \cup {x5} \cup {x6} \cup {x7}
                  \cup {x8} \cup {x9} \cup {x10}
  <1>1. S = Around(t, f)
    BY DEF Around
  <1> HIDE DEF x1, x2, x3, x4, x5, x6, x7, x8, x9, x10
  <1>2. IsFiniteSet(S) /\ Cardinality(S) <= 10
    BY TenAtMost
  <1> QED
    BY <1>1, <1>2

\* How far a step goes.
LEMMA StepReach ==
  ASSUME NEW t, NEW f \in {-1, 1}, NEW dr \in Int, NEW dc \in Int,
         StepPieceAttacks(t, dr, dc, f)
  PROVE  \/ dr \in -1..1 /\ dc \in -1..1 /\ (dr # 0 \/ dc # 0)
         \/ dr = 2 * f /\ dc \in {-1, 1}
  <1>1. ASSUME Abs(dr) + Abs(dc) = 1
        PROVE  dr \in -1..1 /\ dc \in -1..1 /\ (dr # 0 \/ dc # 0)
    BY <1>1 DEF Abs
  <1>2. ASSUME Abs(dr) = 1, Abs(dc) = 1
        PROVE  dr \in -1..1 /\ dc \in -1..1 /\ (dr # 0 \/ dc # 0)
    BY <1>2 DEF Abs
  <1> QED
    BY <1>1, <1>2 DEF StepPieceAttacks

\* step_attack_probes drops no probe: ten are enough.
LEMMA ProbesAreAll ==
  ASSUME NEW attacker \in Colors, NEW target \in Squares
  PROVE  StepAttackProbes[attacker, target] =
            {[square |-> s, mask |-> ProbeMask(attacker, target, s)] :
               s \in {n \in Squares : ProbeMask(attacker, target, n) # {}}}
  <1> DEFINE P(s) == ProbeMask(attacker, target, s)
             near == {s \in Squares \ {target} :
                        /\ Abs(RowOf(s) - RowOf(target)) <= 2
                        /\ Abs(ColOf(s) - ColOf(target)) <= 2
                        /\ P(s) # {}}
             f == Forward(attacker)
  <1>1. ASSUME NEW s \in Squares, P(s) # {}
        PROVE  s \in near /\ s \in Around(target, f)
    <2> DEFINE dr == RowOf(target) - RowOf(s)
               dc == ColOf(target) - ColOf(s)
    <2>0. f \in {-1, 1}
      BY ForwardIs
    <2>1. /\ RowOf(target) \in Int /\ RowOf(s) \in Int
          /\ ColOf(target) \in Int /\ ColOf(s) \in Int
          /\ target = 9 * RowOf(target) + ColOf(target) /\ s = 9 * RowOf(s) + ColOf(s)
      BY Coordinates, SquaresAreInts DEF SquareAt
    <2>2. PICK t \in Types : StepPieceAttacks(t, dr, dc, f)
      BY <1>1 DEF ProbeMask
    <2>3. dr \in Int /\ dc \in Int
      BY <2>1
    <2>4. \/ dr \in -1..1 /\ dc \in -1..1 /\ (dr # 0 \/ dc # 0)
          \/ dr = 2 * f /\ dc \in {-1, 1}
      BY <2>0, <2>2, <2>3, StepReach
    <2>5. s = target - 9 * dr - dc /\ target \in Int
      BY <2>1
    <2>6. RowOf(s) - RowOf(target) = -dr /\ ColOf(s) - ColOf(target) = -dc
      BY <2>1
    <2> HIDE DEF dr, dc, f
    <2>7. Abs(-dr) <= 2 /\ Abs(-dc) <= 2 /\ s # target
      BY <2>0, <2>3, <2>4, <2>5 DEF Abs
    <2>8. s \in Around(target, f)
      BY <2>0, <2>3, <2>4, <2>5 DEF Around
    <2>9. s \in near
      BY <1>1, <2>6, <2>7
    <2> QED
      BY <2>8, <2>9 DEF f
  <1>2. near = {n \in Squares : P(n) # {}}
    BY <1>1
  <1>3. ASSUME NEW n \in near PROVE Cardinality({b \in near : b < n}) < ProbeLimit
    <2>1. near \subseteq Around(target, f)
      BY <1>1
    <2> DEFINE K == Around(target, f)
               B == {b \in near : b < n}
    <2>2. n \in K /\ n \in Int
      BY <2>1, SquaresAreInts
    <2>3. B \subseteq K \ {n}
      BY <2>1, <2>2
    <2>4. IsFiniteSet(K) /\ Cardinality(K) <= 10
      BY AroundIsSmall
    <2> HIDE DEF K, B
    <2>5. IsFiniteSet(K \ {n}) /\ Cardinality(K \ {n}) = Cardinality(K) - 1
      BY <2>2, <2>4, FS_RemoveElement
    <2>6. Cardinality(B) <= Cardinality(K \ {n})
      BY <2>3, <2>5, FS_Subset
    <2>7. Cardinality(B) \in Nat /\ Cardinality(K) \in Nat
      BY <2>3, <2>4, <2>5, FS_Subset, FS_CardinalityType
    <2>8. Cardinality(B) < 10
      BY <2>4, <2>5, <2>6, <2>7
    <2> QED
      BY <2>8 DEF B, ProbeLimit
  <1>4. StepAttackProbes[attacker, target] =
           {[square |-> s, mask |-> P(s)] :
              s \in {n \in near : Cardinality({b \in near : b < n}) < ProbeLimit}}
    BY DEF StepAttackProbes
  <1> HIDE DEF near
  <1>5. {n \in near : Cardinality({b \in near : b < n}) < ProbeLimit} = near
    BY <1>3
  <1> QED
    BY <1>2, <1>4, <1>5

-----------------------------------------------------------------------------
(***************************************************************************)
(* square_attacked is the attack by some piece.                            *)
(***************************************************************************)
\* The distances before a distance.
LEMMA Earlier ==
  ASSUME NEW n \in 1..8
  PROVE  /\ \A m \in 1..(n - 1) : m \in 1..n /\ m \in 1..8 /\ m # n /\ ~(n <= m)
         /\ \A m \in 1..8 : m <= n /\ m # n => m \in 1..(n - 1)
  OBVIOUS

\* A square with the colour of a side holds a piece, and only such a square.
LEMMA ColouredIsPiece ==
  ASSUME NEW board \in Boards, NEW s \in Squares
  PROVE  /\ board[s] \in Pieces \cup {Empty}
         /\ board[s].color \in Colors <=> board[s] \in Pieces
         /\ board[s] \in Pieces <=> board[s] # Empty
         /\ board[s] \in Pieces => /\ board[s].type \in Types /\ board[s].color \in Colors
                                   /\ board[s] = Piece(board[s].color, board[s].type)
  <1>1. board[s] \in Pieces \cup {Empty}
    BY DEF Boards
  <1>2. \A x \in Pieces : /\ x.type \in Types /\ x.color \in Colors
                          /\ x = Piece(x.color, x.type)
    BY DEF Pieces, Piece
  <1>3. Empty.color \notin Colors
    BY DEF Empty, Colors, Black, White
  <1> QED
    BY <1>1, <1>2, <1>3

\* The probes find a piece that attacks by a step exactly when there is one.
LEMMA StepAttackIs ==
  ASSUME NEW board \in Boards, NEW target \in Squares, NEW attacker \in Colors
  PROVE  StepSquareAttacked(board, target, attacker) <=>
           \E s \in Squares :
              /\ board[s].color = attacker
              /\ StepPieceAttacks(board[s].type, RowOf(target) - RowOf(s),
                                  ColOf(target) - ColOf(s), Forward(attacker))
  <1> DEFINE P(s) == ProbeMask(attacker, target, s)
             Q(s) == StepPieceAttacks(board[s].type, RowOf(target) - RowOf(s),
                                      ColOf(target) - ColOf(s), Forward(attacker))
             N == {n \in Squares : P(n) # {}}
             T == StepAttackProbes[attacker, target]
  <1>1. T = {[square |-> s, mask |-> P(s)] : s \in N}
    BY ProbesAreAll
  <1>2. \A s \in Squares : board[s].color = attacker => (board[s].type \in P(s) <=> Q(s))
    BY ColouredIsPiece DEF ProbeMask
  <1>3. StepSquareAttacked(board, target, attacker) <=>
          \E probe \in T : /\ board[probe.square].color = attacker
                           /\ board[probe.square].type \in probe.mask
    BY DEF StepSquareAttacked
  <1> HIDE DEF P, Q, T
  <1>4. (\E probe \in T : /\ board[probe.square].color = attacker
                          /\ board[probe.square].type \in probe.mask)
        <=> \E s \in N : board[s].color = attacker /\ board[s].type \in P(s)
    <2> DEFINE record(s) == [square |-> s, mask |-> P(s)]
    <2>1. \A s : record(s).square = s /\ record(s).mask = P(s)
      OBVIOUS
    <2>2. T = {record(s) : s \in N}
      BY <1>1
    <2> HIDE DEF record, N
    <2> QED
      BY <2>1, <2>2
  <1>5. (\E s \in N : board[s].color = attacker /\ board[s].type \in P(s))
        <=> \E s \in Squares : board[s].color = attacker /\ board[s].type \in P(s)
    OBVIOUS
  <1>6. (\E s \in Squares : board[s].color = attacker /\ board[s].type \in P(s))
        <=> \E s \in Squares : board[s].color = attacker /\ Q(s)
    BY <1>2
  <1> QED
    BY <1>3, <1>4, <1>5, <1>6 DEF Q

\* The first piece of a ray is what lies behind empty squares only.
LEMMA FirstOnRay ==
  ASSUME NEW board, NEW s \in Squares, NEW d \in Directions,
         NEW seen, seen = OccupiedOn(board, AttackRays[s, d])
  PROVE  /\ seen = {n \in 1..8 : Within(s, d, n) /\ board[Away(s, d, n)] # Empty}
         /\ \A n \in seen : AttackRays[s, d][n] = Away(s, d, n)
         /\ seen # {} => Nearest(seen) \in seen
         /\ \A n \in seen : n = Nearest(seen) <=> Clear(board, s, d, n)
  <1> DEFINE R == AttackRays[s, d]
  <1>1. seen = {n \in DOMAIN R : board[R[n]] # Empty}
    BY DEF OccupiedOn
  <1>2. /\ DOMAIN R \subseteq 1..8
        /\ \A n : n \in DOMAIN R <=> Within(s, d, n)
        /\ \A n \in DOMAIN R : R[n] = Away(s, d, n)
    BY RayIs
  <1> HIDE DEF R
  <1>3. seen = {n \in 1..8 : Within(s, d, n) /\ board[Away(s, d, n)] # Empty}
    BY <1>1, <1>2
  <1>4. \A n \in seen : R[n] = Away(s, d, n)
    BY <1>1, <1>2
  <1>5. seen # {} => Nearest(seen) \in seen /\ \A m \in seen : Nearest(seen) <= m
    BY <1>3, NearestIsThere
  <1>6. ASSUME NEW n \in 1..8, n \in seen
        PROVE  n = Nearest(seen) <=> Clear(board, s, d, n)
    <2>1. Within(s, d, n)
      BY <1>3, <1>6
    <2>2. ASSUME n = Nearest(seen) PROVE Clear(board, s, d, n)
      <3>1. SUFFICES ASSUME NEW m \in 1..(n - 1), board[Away(s, d, m)] # Empty PROVE FALSE
        BY DEF Clear
      <3>2. m \in 1..n /\ m \in 1..8 /\ ~(n <= m)
        BY Earlier
      <3>3. Within(s, d, m)
        BY <2>1, <3>2, WithinCloses
      <3> QED
        BY <1>3, <1>5, <2>2, <3>1, <3>2, <3>3
    <2>3. ASSUME Clear(board, s, d, n) PROVE n = Nearest(seen)
      <3>1. Nearest(seen) \in seen /\ Nearest(seen) <= n /\ Nearest(seen) \in 1..8
        BY <1>3, <1>5, <1>6
      <3>2. SUFFICES ASSUME Nearest(seen) # n PROVE FALSE
        OBVIOUS
      <3>3. Nearest(seen) \in 1..(n - 1)
        BY <3>1, <3>2, Earlier
      <3> QED
        BY <1>3, <2>3, <3>1, <3>3 DEF Clear
    <2> QED
      BY <2>2, <2>3
  <1> QED
    BY <1>3, <1>4, <1>5, <1>6 DEF R

\* square_attacked says what the geometry of the pieces says.
THEOREM AttacksAreLawful ==
  ASSUME NEW board \in Boards, NEW target \in Squares, NEW attacker \in Colors
  PROVE  SquareAttacked(board, target, attacker) <=> AttackedBy(board, attacker, target)
  <1> DEFINE F == Forward(attacker)
             step(s) == StepPieceAttacks(board[s].type, RowOf(target) - RowOf(s),
                                         ColOf(target) - ColOf(s), F)
             onRay(d, n) == /\ Within(target, d, n)
                            /\ board[Away(target, d, n)].color = attacker
                            /\ board[Away(target, d, n)].type \in RayMask(attacker, d)
                            /\ Clear(board, target, d, n)
             rayHit(d) ==
                LET ray  == AttackRays[target, d]
                    seen == OccupiedOn(board, ray)
                IN  /\ seen # {}
                    /\ LET first == board[ray[Nearest(seen)]]
                       IN  first.color = attacker /\ first.type \in RayMask(attacker, d)
  <1>1. \A s \in Squares : board[s].color = attacker =>
           /\ board[s] \in Pieces /\ board[s] # Empty /\ board[s].type \in Types
    BY ColouredIsPiece
  <1>2. ASSUME NEW d \in Directions PROVE rayHit(d) <=> \E n \in 1..8 : onRay(d, n)
    <2> DEFINE ray == AttackRays[target, d]
               seen == OccupiedOn(board, ray)
    <2>1. /\ seen = {n \in 1..8 : Within(target, d, n) /\ board[Away(target, d, n)] # Empty}
          /\ \A n \in seen : ray[n] = Away(target, d, n)
          /\ seen # {} => Nearest(seen) \in seen
          /\ \A n \in seen : n = Nearest(seen) <=> Clear(board, target, d, n)
      BY FirstOnRay
    <2>2. rayHit(d) <=> /\ seen # {}
                        /\ board[ray[Nearest(seen)]].color = attacker
                        /\ board[ray[Nearest(seen)]].type \in RayMask(attacker, d)
      OBVIOUS
    <2> HIDE DEF ray, seen, rayHit
    <2>3. ASSUME rayHit(d) PROVE onRay(d, Nearest(seen)) /\ Nearest(seen) \in 1..8
      BY <2>1, <2>2, <2>3
    <2>4. ASSUME NEW n \in 1..8, onRay(d, n) PROVE rayHit(d)
      <3>1. Away(target, d, n) \in Squares
        BY <2>4, AwayIs
      <3>2. n \in seen
        BY <1>1, <2>1, <2>4, <3>1
      <3> QED
        BY <2>1, <2>2, <2>4, <3>2
    <2> QED
      BY <2>3, <2>4
  <1>3. SquareAttacked(board, target, attacker) <=>
           \/ \E s \in Squares : board[s].color = attacker /\ step(s)
           \/ \E d \in Directions, n \in 1..8 : onRay(d, n)
    <2>1. SquareAttacked(board, target, attacker) <=>
             \/ StepSquareAttacked(board, target, attacker)
             \/ \E d \in Directions : rayHit(d)
      BY DEF SquareAttacked
    <2> HIDE DEF rayHit, onRay
    <2> QED
      BY <1>2, <2>1, StepAttackIs
  <1>4. ASSUME NEW s \in Squares, board[s].color = attacker, step(s)
        PROVE  PieceAttacksSquare(board, s, target)
    <2>1. s # target
      <3>1. SUFFICES ASSUME s = target PROVE FALSE
        OBVIOUS
      <3>2. RowOf(target) - RowOf(s) = 0 /\ ColOf(target) - ColOf(s) = 0
        BY <3>1, SquaresAreInts
      <3>3. F \in {-1, 1}
        BY ForwardIs
      <3> HIDE DEF F
      <3>4. StepPieceAttacks(board[s].type, 0, 0, F)
        BY <1>4, <3>2
      <3>5. 0 \in Int /\ ((0 \in -1..1 /\ (0 # 0 \/ 0 # 0)) \/ (0 = 2 * F /\ 0 \in {-1, 1}))
        BY <3>3, <3>4, StepReach
      <3> QED
        BY <3>5
    <2> QED
      BY <1>1, <1>4, <2>1, PieceAttacksIs
  <1>5. ASSUME NEW d \in Directions, NEW n \in 1..8, onRay(d, n)
        PROVE  PieceAttacksSquare(board, Away(target, d, n), target)
    <2> DEFINE s == Away(target, d, n)
    <2>1. /\ s \in Squares /\ s # target /\ board[s].color = attacker
          /\ board[s] \in Pieces /\ board[s].type \in Types
      BY <1>1, <1>5, AwayIs
    <2>2. Back(d) \in SlidesOf(board[s].type, Forward(attacker))
      BY <1>5, <2>1, RayMaskIs
    <2>3. Within(s, Back(d), n) /\ target = Away(s, Back(d), n)
      BY <1>5, WalkBack
    <2>4. Clear(board, s, Back(d), n)
      BY <1>5, ClearBack
    <2>5. Slides(board, s, target)
      BY <2>1, <2>2, <2>3, <2>4 DEF Slides
    <2> QED
      BY <2>1, <2>5, PieceAttacksIs
  <1>6. ASSUME NEW s \in Squares, board[s].color = attacker, Slides(board, s, target)
        PROVE  \E d \in Directions, n \in 1..8 : onRay(d, n)
    <2>1. PICK e \in SlidesOf(board[s].type, F), n \in 1..8 :
             Within(s, e, n) /\ target = Away(s, e, n) /\ Clear(board, s, e, n)
      BY <1>6 DEF Slides
    <2>2. e \in Directions
      BY <1>1, <1>6, ForwardIs, SlidesAre
    <2>3. Back(e) \in Directions /\ Back(Back(e)) = e
      BY <2>2, BackIsDirection
    <2>4. Within(target, Back(e), n) /\ Away(target, Back(e), n) = s
      BY <2>1, <2>2, WalkBack
    <2>5. Clear(board, target, Back(e), n)
      BY <2>1, <2>2, ClearBack
    <2>6. board[s].type \in RayMask(attacker, Back(e))
      BY <1>1, <1>6, <2>1, <2>3, RayMaskIs
    <2>7. onRay(Back(e), n)
      BY <1>6, <2>4, <2>5, <2>6
    <2> HIDE DEF onRay
    <2> QED
      BY <2>3, <2>7
  <1>7. ASSUME NEW s \in Squares, board[s].color = attacker, PieceAttacksSquare(board, s, target)
        PROVE  step(s) \/ Slides(board, s, target)
    BY <1>7, PieceAttacksIs
  <1>8. AttackedBy(board, attacker, target) <=>
           \E s \in Squares : board[s].color = attacker /\ PieceAttacksSquare(board, s, target)
    BY DEF AttackedBy
  <1>9. \A d \in Directions, n \in 1..8 : onRay(d, n) =>
           Away(target, d, n) \in Squares /\ board[Away(target, d, n)].color = attacker
    BY AwayIs
  <1> HIDE DEF step, onRay
  <1>10. ASSUME SquareAttacked(board, target, attacker) PROVE AttackedBy(board, attacker, target)
    <2>1. CASE \E s \in Squares : board[s].color = attacker /\ step(s)
      BY <1>4, <1>8, <2>1
    <2>2. CASE \E d \in Directions, n \in 1..8 : onRay(d, n)
      BY <1>5, <1>8, <1>9, <2>2
    <2> QED
      BY <1>3, <1>10, <2>1, <2>2
  <1>11. ASSUME AttackedBy(board, attacker, target) PROVE SquareAttacked(board, target, attacker)
    BY <1>3, <1>6, <1>7, <1>8, <1>11
  <1> QED
    BY <1>10, <1>11

-----------------------------------------------------------------------------
(***************************************************************************)
(* The targets the generator lists are the squares attacked.               *)
(***************************************************************************)
\* A step is a pair of numbers.
LEMMA StepsArePairs ==
  ASSUME NEW t, NEW f \in {-1, 1}, NEW d \in StepsOf(t, f)
  PROVE  d = <<d[1], d[2]>> /\ d[1] \in Int /\ d[2] \in Int
  <1>1. ASSUME NEW e \in Directions PROVE e = <<e[1], e[2]>> /\ e[1] \in Int /\ e[2] \in Int
    BY DirectionParts
  <1>2. CASE t \in {"pawn", "knight", "silver"} \cup GoldLike
    BY <1>2 DEF StepsOf, GoldLike
  <1>3. CASE t \in {"king", "horse", "dragon"}
    <2>1. d \in Directions
      BY <1>3 DEF StepsOf, GoldLike
    <2> QED
      BY <1>1, <2>1
  <1>4. CASE t \notin {"pawn", "knight", "silver"} \cup GoldLike \cup {"king", "horse", "dragon"}
    BY <1>4 DEF StepsOf
  <1> QED
    BY <1>2, <1>3, <1>4

\* No piece attacks its own square.
LEMMA NoStepAtAll ==
  ASSUME NEW t, NEW f \in {-1, 1} PROVE ~StepPieceAttacks(t, 0, 0, f)
  <1>1. SUFFICES ASSUME StepPieceAttacks(t, 0, 0, f) PROVE FALSE
    OBVIOUS
  <1>2. \/ 0 \in -1..1 /\ 0 \in -1..1 /\ (0 # 0 \/ 0 # 0)
        \/ 0 = 2 * f /\ 0 \in {-1, 1}
    <2>1. 0 \in Int
      OBVIOUS
    <2> QED
      BY <1>1, <2>1, StepReach
  <1> QED
    BY <1>2

\* The squares a piece reaches by a step.
LEMMA StepTargetsAre ==
  ASSUME NEW board \in Boards, NEW from \in Squares, board[from] \in Pieces, NEW to
  PROVE  to \in StepTargets(board, from) <=>
           /\ to \in Squares
           /\ StepPieceAttacks(board[from].type, RowOf(to) - RowOf(from),
                               ColOf(to) - ColOf(from), Forward(board[from].color))
  <1> DEFINE t == board[from].type
             f == Forward(board[from].color)
             r == RowOf(from)
             c == ColOf(from)
  <1>1. t \in Types /\ f \in {-1, 1} /\ r \in 0..8 /\ c \in 0..8
    BY ForwardIs, ColouredIsPiece, Coordinates
  <1>2. StepTargets(board, from) =
           {SquareAt(r + d[1], c + d[2]) : d \in {e \in StepsOf(t, f) : OnBoard(r + e[1], c + e[2])}}
    BY DEF StepTargets
  <1> HIDE DEF t, f, r, c
  <1>3. ASSUME to \in StepTargets(board, from)
        PROVE  to \in Squares /\ StepPieceAttacks(t, RowOf(to) - r, ColOf(to) - c, f)
    <2>1. PICK d \in StepsOf(t, f) : OnBoard(r + d[1], c + d[2]) /\ to = SquareAt(r + d[1], c + d[2])
      BY <1>2, <1>3
    <2>2. d = <<d[1], d[2]>> /\ d[1] \in Int /\ d[2] \in Int
      BY <1>1, <2>1, StepsArePairs
    <2>3. to \in Squares /\ RowOf(to) = r + d[1] /\ ColOf(to) = c + d[2]
      <3>1. r + d[1] \in Int /\ c + d[2] \in Int
        BY <1>1, <2>2
      <3> QED
        BY <2>1, <3>1, SquareCoordinates
    <2>4. RowOf(to) - r = d[1] /\ ColOf(to) - c = d[2]
      BY <1>1, <2>2, <2>3
    <2>5. StepPieceAttacks(t, d[1], d[2], f)
      BY <1>1, <2>1, <2>2, StepsAre
    <2> QED
      BY <2>3, <2>4, <2>5
  <1>4. ASSUME to \in Squares, StepPieceAttacks(t, RowOf(to) - r, ColOf(to) - c, f)
        PROVE  to \in StepTargets(board, from)
    <2> DEFINE a == RowOf(to) - r
               b == ColOf(to) - c
    <2>1. /\ a \in Int /\ b \in Int /\ r + a = RowOf(to) /\ c + b = ColOf(to)
          /\ RowOf(to) \in 0..8 /\ ColOf(to) \in 0..8
      BY <1>1, <1>4, Coordinates
    <2>2. StepPieceAttacks(t, a, b, f)
      BY <1>4
    <2> HIDE DEF a, b
    <2>3. <<a, b>> \in StepsOf(t, f)
      BY <1>1, <2>1, <2>2, StepsAre
    <2>4. OnBoard(r + a, c + b) /\ to = SquareAt(r + a, c + b)
      BY <1>4, <2>1, Coordinates DEF OnBoard
    <2> DEFINE e == <<a, b>>
    <2>5. e[1] = a /\ e[2] = b
      OBVIOUS
    <2>6. e \in StepsOf(t, f) /\ OnBoard(r + e[1], c + e[2]) /\ to = SquareAt(r + e[1], c + e[2])
      BY <2>3, <2>4, <2>5
    <2> HIDE DEF e
    <2> QED
      BY <1>2, <2>6
  <1> QED
    BY <1>3, <1>4 DEF t, f, r, c

\* The squares a piece reaches by sliding up to the first obstacle.
LEMMA SlideTargetsAre ==
  ASSUME NEW board \in Boards, NEW from \in Squares, board[from] \in Pieces, NEW to
  PROVE  to \in SlideTargets(board, from) <=> to \in Squares /\ Slides(board, from, to)
  <1> DEFINE t == board[from].type
             f == Forward(board[from].color)
             hits(d) == LET ray == AttackRays[from, d]
                            seen == OccupiedOn(board, ray)
                            last == IF seen = {} THEN Len(ray) ELSE Nearest(seen)
                        IN  {ray[n] : n \in 1..last}
  <1>1. t \in Types /\ f \in {-1, 1}
    BY ForwardIs, ColouredIsPiece
  <1>2. SlideTargets(board, from) = UNION {hits(d) : d \in SlidesOf(t, f)}
    BY DEF SlideTargets
  <1>3. ASSUME NEW d \in Directions
        PROVE  to \in hits(d) <=> \E n \in 1..8 : /\ Within(from, d, n) /\ to = Away(from, d, n)
                                                  /\ Clear(board, from, d, n)
    <2> DEFINE ray == AttackRays[from, d]
               seen == OccupiedOn(board, ray)
               last == IF seen = {} THEN Len(ray) ELSE Nearest(seen)
    <2>1. /\ DOMAIN ray \subseteq 1..8
          /\ \A n : n \in DOMAIN ray <=> Within(from, d, n)
          /\ \A n \in DOMAIN ray : ray[n] = Away(from, d, n)
          /\ Len(ray) \in Nat
          /\ DOMAIN ray = 1..Len(ray)
      BY RayIs
    <2>2. /\ seen = {n \in 1..8 : Within(from, d, n) /\ board[Away(from, d, n)] # Empty}
          /\ \A n \in seen : ray[n] = Away(from, d, n)
          /\ seen # {} => Nearest(seen) \in seen
          /\ \A n \in seen : n = Nearest(seen) <=> Clear(board, from, d, n)
      BY FirstOnRay
    <2> HIDE DEF ray, seen
    <2>3. ASSUME NEW n \in 1..8
          PROVE  n \in 1..last <=> Within(from, d, n) /\ Clear(board, from, d, n)
      <3>1. CASE seen = {}
        <4>1. n \in 1..last <=> Within(from, d, n)
          BY <2>1, <3>1
        <4>2. ASSUME Within(from, d, n) PROVE Clear(board, from, d, n)
          <5>1. \A m \in 1..(n - 1) : m \in 1..8 /\ Within(from, d, m)
            BY <4>2, WithinCloses, Earlier
          <5> QED
            BY <2>2, <3>1, <5>1 DEF Clear
        <4> QED
          BY <4>1, <4>2
      <3>2. CASE seen # {}
        <4> DEFINE k == Nearest(seen)
        <4>1. k \in 1..8 /\ Within(from, d, k) /\ board[Away(from, d, k)] # Empty /\ last = k
          BY <2>2, <3>2
        <4>2. Clear(board, from, d, k)
          BY <2>2, <3>2
        <4> HIDE DEF k, last
        <4>3. ASSUME n \in 1..k PROVE Within(from, d, n) /\ Clear(board, from, d, n)
          <5>1. Within(from, d, n)
            BY <4>1, <4>3, WithinCloses
          <5>2. \A m \in 1..(n - 1) : m \in 1..(k - 1)
            BY <4>1, <4>3
          <5> QED
            BY <4>2, <5>1, <5>2 DEF Clear
        <4>4. ASSUME Clear(board, from, d, n), n \notin 1..k PROVE FALSE
          <5>1. k \in 1..(n - 1)
            BY <4>1, <4>4
          <5> QED
            BY <4>1, <4>4, <5>1 DEF Clear
        <4> QED
          BY <4>1, <4>3, <4>4
      <3> QED
        BY <3>1, <3>2
    <2>4. 1..last \subseteq DOMAIN ray
      <3>1. CASE seen = {}
        BY <2>1, <3>1
      <3>2. CASE seen # {}
        <4>1. last \in 1..8 /\ Within(from, d, last)
          BY <2>2, <3>2
        <4> HIDE DEF last
        <4> QED
          BY <2>1, <4>1, WithinCloses
      <3> QED
        BY <3>1, <3>2
    <2>5. hits(d) = {ray[n] : n \in 1..last}
      BY DEF ray, seen
    <2> HIDE DEF last, hits
    <2>6. ASSUME to \in hits(d)
          PROVE  \E n \in 1..8 : /\ Within(from, d, n) /\ to = Away(from, d, n)
                                 /\ Clear(board, from, d, n)
      <3>1. PICK n \in 1..last : to = ray[n]
        BY <2>5, <2>6
      <3>2. n \in DOMAIN ray /\ n \in 1..8
        BY <2>1, <2>4, <3>1
      <3> QED
        BY <2>1, <2>3, <3>1, <3>2
    <2>7. ASSUME NEW n \in 1..8, Within(from, d, n), to = Away(from, d, n), Clear(board, from, d, n)
          PROVE  to \in hits(d)
      <3>1. n \in 1..last /\ to = ray[n]
        BY <2>1, <2>3, <2>7
      <3> QED
        BY <2>5, <3>1
    <2> QED
      BY <2>6, <2>7
  <1>4. \A d : d \in SlidesOf(t, f) => d \in Directions
    BY <1>1, SlidesAre
  <1> HIDE DEF hits
  <1>5. to \in SlideTargets(board, from) <=>
           \E d \in SlidesOf(t, f), n \in 1..8 :
              Within(from, d, n) /\ to = Away(from, d, n) /\ Clear(board, from, d, n)
    BY <1>2, <1>3, <1>4
  <1>6. \A d \in Directions, n \in 1..8 : Within(from, d, n) => Away(from, d, n) \in Squares
    BY AwayIs
  <1> QED
    BY <1>4, <1>5, <1>6 DEF Slides

\* The targets the generator lists are the squares attacked.
LEMMA TargetsAre ==
  ASSUME NEW board \in Boards, NEW from \in Squares, board[from] \in Pieces, NEW to
  PROVE  to \in StepTargets(board, from) \cup SlideTargets(board, from) <=>
           to \in Squares /\ PieceAttacksSquare(board, from, to)
  <1> DEFINE step == StepPieceAttacks(board[from].type, RowOf(to) - RowOf(from),
                                      ColOf(to) - ColOf(from), Forward(board[from].color))
  <1>1. SUFFICES ASSUME to \in Squares
                 PROVE  step \/ Slides(board, from, to) <=> PieceAttacksSquare(board, from, to)
    BY StepTargetsAre, SlideTargetsAre
  <1>2. PieceAttacksSquare(board, from, to) <=> from # to /\ (step \/ Slides(board, from, to))
    BY <1>1, PieceAttacksIs
  <1>3. step => from # to
    <2>1. SUFFICES ASSUME from = to PROVE ~step
      OBVIOUS
    <2>2. RowOf(to) - RowOf(from) = 0 /\ ColOf(to) - ColOf(from) = 0
      BY <2>1, SquaresAreInts
    <2>3. ~StepPieceAttacks(board[from].type, 0, 0, Forward(board[from].color))
      BY ForwardIs, NoStepAtAll
    <2> QED
      BY <2>2, <2>3
  <1>4. Slides(board, from, to) => from # to
    <2>1. \A d \in SlidesOf(board[from].type, Forward(board[from].color)) : d \in Directions
      BY ForwardIs, ColouredIsPiece, SlidesAre
    <2> QED
      BY <2>1, AwayIs DEF Slides
  <1> HIDE DEF step
  <1> QED
    BY <1>2, <1>3, <1>4

-----------------------------------------------------------------------------
(***************************************************************************)
(* Promotions, forced or allowed, and pieces that could not move.          *)
(***************************************************************************)
\* A piece alone on the board.
LEMMA AloneAttacks ==
  ASSUME NEW c \in Colors, NEW t \in {"pawn", "lance", "knight"}, NEW to \in Squares,
         NEW board, board = [s \in Squares |-> IF s = to THEN Piece(c, t) ELSE Empty]
  PROVE  /\ board \in Boards /\ board[to] = Piece(c, t) /\ board[to] \in Pieces
         /\ board[to].color = c /\ board[to].type = t
         /\ Stuck(Piece(c, t), to) <=> \A s \in Squares : ~PieceAttacksSquare(board, to, s)
  <1>1. Piece(c, t) \in Pieces
    BY DEF Piece, Pieces, Types, HandTypes
  <1>2. board \in Boards
    BY <1>1 DEF Boards
  <1> QED
    BY <1>1, <1>2 DEF Stuck, Piece

\* A pawn or a lance is stuck on the last rank, a knight on the last two.
LEMMA StuckIs ==
  ASSUME NEW c \in Colors, NEW t \in {"pawn", "lance", "knight"}, NEW to \in Squares
  PROVE  Stuck(Piece(c, t), to) <=> ForcedPromotion(c, t, RowOf(to))
  <1> DEFINE board == [s \in Squares |-> IF s = to THEN Piece(c, t) ELSE Empty]
             f == Forward(c)
             r == RowOf(to)
             k == ColOf(to)
  <1>1. /\ board \in Boards /\ board[to] = Piece(c, t) /\ board[to] \in Pieces
        /\ board[to].color = c /\ board[to].type = t
        /\ Stuck(Piece(c, t), to) <=> \A s \in Squares : ~PieceAttacksSquare(board, to, s)
    BY AloneAttacks
  <1> HIDE DEF board
  <1>2. /\ f \in {-1, 1} /\ r \in 0..8 /\ k \in 0..8 /\ t \in Types
        /\ f = (IF c = "black" THEN -1 ELSE 1)
        /\ RanksLeft(c, r) = (IF f = -1 THEN r ELSE 8 - r)
    BY Coordinates DEF Forward, RanksLeft, Black, Types, HandTypes
  <1>3. \A s \in Squares : PieceAttacksSquare(board, to, s) <=>
            /\ to # s
            /\ StepPieceAttacks(t, RowOf(s) - r, ColOf(s) - k, f) \/ Slides(board, to, s)
    BY <1>1, PieceAttacksIs
  <1>4. \A d : d \in SlidesOf(t, f) <=> d \in Directions /\ t = "lance" /\ d[1] = f /\ d[2] = 0
    BY <1>2, SlidesAre
  <1>5. CASE t = "pawn"
    <2>1. ASSUME NEW s \in Squares, PieceAttacksSquare(board, to, s)
          PROVE  RanksLeft(c, r) # 0
      <3>1. ~Slides(board, to, s)
        BY <1>1, <1>4, <1>5 DEF Slides
      <3>2. RowOf(s) - r = f /\ RowOf(s) \in 0..8
        BY <1>3, <1>5, <2>1, <3>1, Coordinates DEF StepPieceAttacks, GoldLike
      <3> QED
        BY <1>2, <3>2
    <2>2. ASSUME RanksLeft(c, r) # 0 PROVE \E s \in Squares : PieceAttacksSquare(board, to, s)
      <3> DEFINE s == SquareAt(r + f, k)
      <3>1. OnBoard(r + f, k) /\ r + f \in Int /\ k \in Int
        BY <1>2, <2>2 DEF OnBoard
      <3>2. s \in Squares /\ RowOf(s) = r + f /\ ColOf(s) = k
        BY <3>1, SquareCoordinates
      <3>3. RowOf(s) - r = f /\ ColOf(s) - k = 0 /\ s # to
        BY <1>2, <3>2
      <3> HIDE DEF s
      <3>4. StepPieceAttacks(t, RowOf(s) - r, ColOf(s) - k, f)
        BY <1>5, <3>3 DEF StepPieceAttacks
      <3> QED
        BY <1>3, <3>2, <3>3, <3>4
    <2> QED
      BY <1>1, <1>5, <2>1, <2>2 DEF ForcedPromotion
  <1>6. CASE t = "knight"
    <2>1. ASSUME NEW s \in Squares, PieceAttacksSquare(board, to, s)
          PROVE  ~(RanksLeft(c, r) <= 1)
      <3>1. ~Slides(board, to, s)
        BY <1>1, <1>4, <1>6 DEF Slides
      <3>2. RowOf(s) - r = 2 * f /\ RowOf(s) \in 0..8
        BY <1>3, <1>6, <2>1, <3>1, Coordinates DEF StepPieceAttacks, GoldLike
      <3> QED
        BY <1>2, <3>2
    <2>2. ASSUME ~(RanksLeft(c, r) <= 1) PROVE \E s \in Squares : PieceAttacksSquare(board, to, s)
      <3> DEFINE e == IF k = 0 THEN 1 ELSE -1
                 s == SquareAt(r + 2 * f, k + e)
      <3>1. /\ OnBoard(r + 2 * f, k + e) /\ r + 2 * f \in Int /\ k + e \in Int
            /\ e \in {-1, 1}
        BY <1>2, <2>2 DEF OnBoard
      <3>2. s \in Squares /\ RowOf(s) = r + 2 * f /\ ColOf(s) = k + e
        BY <3>1, SquareCoordinates
      <3> HIDE DEF e, s
      <3>3. RowOf(s) - r = 2 * f /\ ColOf(s) - k = e /\ s # to
        BY <1>2, <3>1, <3>2
      <3>4. StepPieceAttacks(t, RowOf(s) - r, ColOf(s) - k, f)
        BY <1>6, <3>1, <3>3 DEF StepPieceAttacks
      <3> QED
        BY <1>3, <3>2, <3>3, <3>4
    <2> QED
      BY <1>1, <1>2, <1>6, <2>1, <2>2 DEF ForcedPromotion
  <1>7. CASE t = "lance"
    <2>0. \A s \in Squares : ~StepPieceAttacks(t, RowOf(s) - r, ColOf(s) - k, f)
      BY <1>7 DEF StepPieceAttacks, GoldLike
    <2>1. ASSUME NEW s \in Squares, PieceAttacksSquare(board, to, s)
          PROVE  RanksLeft(c, r) # 0
      <3>1. Slides(board, to, s)
        BY <1>3, <2>0, <2>1
      <3>2. PICK d \in SlidesOf(t, f), n \in 1..8 : Within(to, d, n)
        BY <1>1, <3>1 DEF Slides
      <3>3. d \in Directions /\ d[1] = f
        BY <1>4
      <3>4. 1 \in 1..n
        OBVIOUS
      <3>5. Within(to, d, 1)
        BY <3>2, <3>3, <3>4, WithinCloses
      <3>6. r + 1 * f \in 0..8
        BY <3>3, <3>5 DEF Within, OnBoard
      <3> QED
        BY <1>2, <3>6
    <2>2. ASSUME RanksLeft(c, r) # 0 PROVE \E s \in Squares : PieceAttacksSquare(board, to, s)
      <3> DEFINE d == <<f, 0>>
      <3>1. d \in Directions /\ d[1] = f /\ d[2] = 0
        BY <1>2 DEF Directions
      <3> HIDE DEF d
      <3>2. d \in SlidesOf(t, f)
        BY <1>4, <1>7, <3>1
      <3>3. r + 1 * d[1] = r + f /\ k + 1 * d[2] = k
        BY <1>2, <3>1
      <3>4. Within(to, d, 1)
        BY <1>2, <2>2, <3>3 DEF Within, OnBoard
      <3>5. Clear(board, to, d, 1)
        BY DEF Clear
      <3>6. Away(to, d, 1) \in Squares /\ Away(to, d, 1) # to
        BY <3>1, <3>4, AwayIs
      <3>7. 1 \in 1..8
        OBVIOUS
      <3>8. Slides(board, to, Away(to, d, 1))
        BY <1>1, <3>2, <3>4, <3>5, <3>7 DEF Slides
      <3> QED
        BY <1>3, <3>6, <3>8
    <2> QED
      BY <1>1, <1>7, <2>1, <2>2 DEF ForcedPromotion
  <1> QED
    BY <1>5, <1>6, <1>7

\* The ranks the generator forces a promotion on are those where the piece
\* could not move any more.
LEMMA NeverMovesIs ==
  ASSUME NEW c \in Colors, NEW t \in Types, NEW to \in Squares
  PROVE  NeverMoves(Piece(c, t), to) <=> ForcedPromotion(c, t, RowOf(to))
  <1> DEFINE x == <<Piece(c, t), to>>
  <1>1. x \in StuckPieces <=> t \in {"pawn", "lance", "knight"}
    <2>1. \A a, b, u, v : Piece(a, u) = Piece(b, v) <=> a = b /\ u = v
      BY DEF Piece
    <2> QED
      BY <2>1 DEF StuckPieces, Squares
  <1>2. x[1] = Piece(c, t) /\ x[2] = to
    OBVIOUS
  <1> HIDE DEF x
  <1>3. x \in StuckPieces => (IsStuck[x] <=> Stuck(Piece(c, t), to))
    BY <1>2 DEF IsStuck
  <1>4. NeverMoves(Piece(c, t), to) <=> x \in StuckPieces /\ IsStuck[x]
    BY DEF NeverMoves, x
  <1>5. t \notin {"pawn", "lance", "knight"} => ~ForcedPromotion(c, t, RowOf(to))
    BY DEF ForcedPromotion
  <1> QED
    BY <1>1, <1>3, <1>4, <1>5, StuckIs

\* add_normal_move offers the promotions the law allows.
LEMMA PromotionsAre ==
  ASSUME NEW c \in Colors, NEW t \in Types, NEW from \in Squares, NEW to \in Squares,
         NEW piece, piece = Piece(c, t)
  PROVE  /\ TRUE \in PromotionChoices(piece, from, to) <=>
               /\ piece.type \in Promotable
               /\ {RowOf(from), RowOf(to)} \cap (IF c = Black THEN 0..2 ELSE 6..8) # {}
         /\ FALSE \in PromotionChoices(piece, from, to) <=> ~NeverMoves(piece, to)
  <1> DEFINE r == RowOf(to)
             q == RowOf(from)
             zone == PromotionZone(c, q) \/ PromotionZone(c, r)
  <1>1. r \in 0..8 /\ q \in 0..8 /\ piece.type = t /\ piece.color = c
    BY Coordinates DEF Piece
  <1>2. {q, r} \cap (IF c = Black THEN 0..2 ELSE 6..8) # {} <=> zone
    <2> DEFINE Z == IF c = Black THEN 0..2 ELSE 6..8
    <2>1. \A x \in 0..8 : x \in Z <=> PromotionZone(c, x)
      BY DEF PromotionZone
    <2> HIDE DEF Z
    <2>2. {q, r} \cap Z # {} <=> q \in Z \/ r \in Z
      OBVIOUS
    <2> QED
      BY <1>1, <2>1, <2>2 DEF Z
  <1>3. NeverMoves(piece, to) <=> ForcedPromotion(c, t, r)
    BY NeverMovesIs
  <1>4. ForcedPromotion(c, t, r) => t \in Promotable /\ zone
    <2>1. CASE c = Black
      BY <1>1, <2>1 DEF ForcedPromotion, PromotionZone, RanksLeft, Promotable, HandTypes
    <2>2. CASE c # Black
      BY <1>1, <2>2 DEF ForcedPromotion, PromotionZone, RanksLeft, Promotable, HandTypes
    <2> QED
      BY <2>1, <2>2
  <1>5. PromotionChoices(piece, from, to) =
           IF ForcedPromotion(c, t, r) THEN {TRUE}
           ELSE IF t \in Promotable /\ zone THEN BOOLEAN ELSE {FALSE}
    BY <1>1 DEF PromotionChoices
  <1> HIDE DEF zone, r, q
  <1>6. /\ TRUE \in PromotionChoices(piece, from, to) <=> t \in Promotable /\ zone
        /\ FALSE \in PromotionChoices(piece, from, to) <=> ~ForcedPromotion(c, t, r)
    BY <1>4, <1>5
  <1> QED
    BY <1>1, <1>2, <1>3, <1>6 DEF r, q

-----------------------------------------------------------------------------
(***************************************************************************)
(* Pseudo-legal moves and drops are those of the law.                      *)
(***************************************************************************)
\* What the generator needs of a position: the hash, the history and the move
\* number may be anything.  The counts of the hands have no bound: the probe of
\* a capture does not look at one.
Probeable ==
    {p \in [board : Boards, hand : [Colors -> [HandTypes -> Nat]], side : Colors,
            number : Nat, hash : SUBSET Keys, king : [Colors -> Squares \cup {NoSquare}],
            history : Seq(HistoryEntries)] : KingsAreCached(p)}

\* The moves of the generator for a move and for a drop of the law.
BoardMove(board, e) ==
    [from |-> e.from, to |-> e.to, piece |-> board[e.from], promote |-> e.promote,
     drop |-> "empty"]
DropMove(d) ==
    [from |-> NoSquare, to |-> d[2], piece |-> Empty, promote |-> FALSE, drop |-> d[1]]

\* What a board move of the law is.
LEMMA BoardMovesTyped ==
  ASSUME NEW p \in Probeable, NEW e \in BoardMovesByLaw(p)
  PROVE  /\ e = [from |-> e.from, to |-> e.to, promote |-> e.promote]
         /\ e.from \in Squares /\ e.to \in Squares /\ e.promote \in BOOLEAN
         /\ e.from # e.to
         /\ p.board[e.from] \in Pieces /\ p.board[e.from].color = p.side
         /\ PieceAttacksSquare(p.board, e.from, e.to)
         /\ p.board[e.to].color # p.side /\ p.board[e.to].type # "king"
         /\ e.promote => p.board[e.from].type \in Promotable
  <1>1. p.board \in Boards /\ p.side \in Colors
    BY DEF Probeable
  <1>2. /\ e = [from |-> e.from, to |-> e.to, promote |-> e.promote]
        /\ e.from \in Squares /\ e.to \in Squares /\ e.promote \in BOOLEAN
        /\ p.board[e.from].color = p.side
        /\ PieceAttacksSquare(p.board, e.from, e.to)
        /\ p.board[e.to].color # p.side /\ p.board[e.to].type # "king"
        /\ e.promote => p.board[e.from].type \in Promotable
    BY DEF BoardMovesByLaw
  <1>3. e.from # e.to
    BY <1>2 DEF PieceAttacksSquare
  <1> QED
    BY <1>1, <1>2, <1>3, ColouredIsPiece

\* The candidates of the generator are the moves of the law: board moves ...
LEMMA CandidatesAre ==
  ASSUME NEW p \in Probeable
  PROVE  PseudoBoardMoves(p.board, p.side) = {BoardMove(p.board, e) : e \in BoardMovesByLaw(p)}
  <1> DEFINE B == p.board
             c == p.side
             mine == {s \in Squares : B[s].color = c}
             targets(s) == {t \in StepTargets(B, s) \cup SlideTargets(B, s) : MayLand(B, c, t)}
             move(s, t, b) == [from |-> s, to |-> t, piece |-> B[s], promote |-> b,
                               drop |-> "empty"]
             entry(s, t, b) == [from |-> s, to |-> t, promote |-> b]
  <1>1. B \in Boards /\ c \in Colors
    BY DEF Probeable
  <1>2. PseudoBoardMoves(B, c) =
           UNION {UNION {{move(s, t, b) : b \in PromotionChoices(B[s], s, t)} : t \in targets(s)} :
                  s \in mine}
    BY DEF PseudoBoardMoves
  <1>3. ASSUME NEW s \in mine
        PROVE  /\ s \in Squares /\ B[s] \in Pieces /\ B[s].type \in Types
               /\ B[s] = Piece(c, B[s].type)
    BY <1>1, ColouredIsPiece
  <1>4. ASSUME NEW s \in mine, NEW t
        PROVE  t \in targets(s) <=> /\ t \in Squares /\ PieceAttacksSquare(B, s, t)
                                    /\ B[t].color # c /\ B[t].type # "king"
    <2>1. t \in StepTargets(B, s) \cup SlideTargets(B, s) <=>
             t \in Squares /\ PieceAttacksSquare(B, s, t)
      BY <1>1, <1>3, TargetsAre
    <2>2. ASSUME t \in Squares
          PROVE  MayLand(B, c, t) <=> B[t].color # c /\ B[t].type # "king"
      <3>1. Empty.color # c /\ Empty.type # "king"
        BY <1>1 DEF Empty, Colors, Black, White
      <3> QED
        BY <3>1 DEF MayLand
    <2> QED
      BY <2>1, <2>2
  <1>5. ASSUME NEW s \in mine, NEW t \in Squares, NEW b
        PROVE  b \in PromotionChoices(B[s], s, t) <=>
                 /\ b \in BOOLEAN
                 /\ b => /\ B[s].type \in Promotable
                         /\ {RowOf(s), RowOf(t)} \cap (IF c = Black THEN 0..2 ELSE 6..8) # {}
                 /\ ~b => ~NeverMoves(B[s], t)
    <2>1. PromotionChoices(B[s], s, t) \subseteq BOOLEAN
      BY DEF PromotionChoices
    <2>2. s \in Squares /\ B[s].type \in Types /\ B[s] = Piece(c, B[s].type)
      BY <1>3
    <2> DEFINE k == B[s].type
               piece == B[s]
    <2>3. s \in Squares /\ k \in Types /\ piece = Piece(c, k) /\ c \in Colors
      BY <1>1, <2>2
    <2> HIDE DEF k, piece
    <2>4. /\ TRUE \in PromotionChoices(piece, s, t) <=>
               /\ piece.type \in Promotable
               /\ {RowOf(s), RowOf(t)} \cap (IF c = Black THEN 0..2 ELSE 6..8) # {}
          /\ FALSE \in PromotionChoices(piece, s, t) <=> ~NeverMoves(piece, t)
      BY <2>3, PromotionsAre
    <2>5. CASE b = TRUE
      BY <2>4, <2>5 DEF piece
    <2>6. CASE b = FALSE
      BY <2>4, <2>6 DEF piece
    <2>7. CASE b \notin BOOLEAN
      BY <2>1, <2>7
    <2> QED
      BY <2>5, <2>6, <2>7
  <1>6. ASSUME NEW s, NEW t, NEW b
        PROVE  entry(s, t, b) \in BoardMovesByLaw(p) <=>
                 s \in mine /\ t \in targets(s) /\ b \in PromotionChoices(B[s], s, t)
    <2> DEFINE e == entry(s, t, b)
    <2>0. e.from = s /\ e.to = t /\ e.promote = b
      OBVIOUS
    <2>1. e \in [from : mine, to : Squares, promote : BOOLEAN] <=>
            s \in mine /\ t \in Squares /\ b \in BOOLEAN
      OBVIOUS
    <2> HIDE DEF e, mine, targets
    <2>2. e \in BoardMovesByLaw(p) <=>
            /\ e \in [from : mine, to : Squares, promote : BOOLEAN]
            /\ PieceAttacksSquare(B, s, t)
            /\ B[t].color # c
            /\ B[t].type # "king"
            /\ b => /\ B[s].type \in Promotable
                    /\ {RowOf(s), RowOf(t)} \cap (IF c = Black THEN 0..2 ELSE 6..8) # {}
            /\ ~b => ~NeverMoves(B[s], t)
      BY <2>0 DEF BoardMovesByLaw, mine
    <2>3. CASE s \in mine /\ t \in Squares
      BY <1>4, <1>5, <2>1, <2>2, <2>3 DEF e
    <2>4. CASE ~(s \in mine /\ t \in Squares)
      BY <1>4, <2>1, <2>2, <2>4 DEF e
    <2> QED
      BY <2>3, <2>4 DEF e
  <1>7. \A s, t, b : BoardMove(B, entry(s, t, b)) = move(s, t, b)
    BY DEF BoardMove
  <1>8. \A m : m \in PseudoBoardMoves(B, c) <=>
           \E s \in mine : \E t \in targets(s) : \E b \in PromotionChoices(B[s], s, t) :
              m = move(s, t, b)
    <2> HIDE DEF mine, targets, move
    <2> QED
      BY <1>2
  <1>9. ASSUME NEW e \in BoardMovesByLaw(p) PROVE e = entry(e.from, e.to, e.promote)
    BY BoardMovesTyped
  <1> HIDE DEF mine, targets, move, entry
  <1>10. ASSUME NEW m \in PseudoBoardMoves(B, c)
         PROVE  m \in {BoardMove(B, e) : e \in BoardMovesByLaw(p)}
    BY <1>6, <1>7, <1>8
  <1>11. ASSUME NEW e \in BoardMovesByLaw(p)
         PROVE  BoardMove(B, e) \in PseudoBoardMoves(B, c)
    BY <1>6, <1>7, <1>8, <1>9
  <1> QED
    BY <1>10, <1>11

\* ... and drops.
LEMMA DropsAre ==
  ASSUME NEW p \in Probeable
  PROVE  PseudoDrops(p, p.side) = {DropMove(d) : d \in DropsByLaw(p)}
  <1> DEFINE B == p.board
             c == p.side
             files == {ColOf(s) : s \in {q \in Squares : B[q] = Piece(c, "pawn")}}
             dead(t, row) == \/ t \in {"pawn", "lance", "knight"} /\ RanksLeft(c, row) = 0
                             \/ t = "knight" /\ RanksLeft(c, row) = 1
             held == {t \in HandTypes : p.hand[c][t] # 0}
             free == {s \in Squares : B[s] = Empty}
             D == {e \in free \X held : /\ ~dead(e[2], RowOf(e[1]))
                                        /\ ~(e[2] = "pawn" /\ ColOf(e[1]) \in files)}
             turn(e) == <<e[2], e[1]>>
  <1>1. B \in Boards /\ c \in Colors /\ \A t \in HandTypes : p.hand[c][t] \in Nat
    BY DEF Probeable
  <1>2. PseudoDrops(p, c) = {DropMove(turn(e)) : e \in D}
    BY DEF PseudoDrops, DropMove
  <1>3. held = {t \in HandTypes : p.hand[c][t] > 0}
    BY <1>1
  <1>4. ASSUME NEW t \in HandTypes, NEW s \in Squares
        PROVE  dead(t, RowOf(s)) <=> NeverMoves(Piece(c, t), s)
    <2>1. t \in Types
      BY DEF Types
    <2>2. RanksLeft(c, RowOf(s)) \in Nat
      BY Coordinates DEF RanksLeft
    <2>3. dead(t, RowOf(s)) <=> ForcedPromotion(c, t, RowOf(s))
      BY <2>2 DEF ForcedPromotion
    <2> QED
      BY <1>1, <2>1, <2>3, NeverMovesIs
  <1>5. ASSUME NEW s \in Squares
        PROVE  ColOf(s) \in files <=> \E q \in Squares : ColOf(q) = ColOf(s) /\ B[q] = Piece(c, "pawn")
    OBVIOUS
  <1> HIDE DEF dead, files
  <1>6. \A t, s : <<t, s>> \in DropsByLaw(p) <=>
           /\ t \in held /\ s \in free /\ ~NeverMoves(Piece(c, t), s)
           /\ t = "pawn" => ~\E q \in Squares : ColOf(q) = ColOf(s) /\ B[q] = Piece(c, "pawn")
    <2>1. DropsByLaw(p) =
             {d \in held \X free :
                 /\ ~NeverMoves(Piece(c, d[1]), d[2])
                 /\ d[1] = "pawn" => ~\E q \in Squares : ColOf(q) = ColOf(d[2])
                                                         /\ B[q] = Piece(c, "pawn")}
      BY <1>3 DEF DropsByLaw
    <2> HIDE DEF held, free
    <2> QED
      BY <2>1
  <1>7. \A t, s : <<s, t>> \in D <=> <<t, s>> \in DropsByLaw(p)
    <2>1. \A t, s : <<s, t>> \in D <=> /\ s \in free /\ t \in held /\ ~dead(t, RowOf(s))
                                       /\ ~(t = "pawn" /\ ColOf(s) \in files)
      <3> HIDE DEF held, free
      <3> QED
        OBVIOUS
    <2> QED
      BY <1>4, <1>5, <1>6, <2>1
  <1>8. \A e \in D : e = <<e[1], e[2]>> /\ turn(e) = <<e[2], e[1]>>
    OBVIOUS
  <1>9. \A d \in DropsByLaw(p) : d = <<d[1], d[2]>>
    BY DEF DropsByLaw
  <1> HIDE DEF D
  <1>10. ASSUME NEW m \in PseudoDrops(p, c) PROVE m \in {DropMove(d) : d \in DropsByLaw(p)}
    BY <1>2, <1>7, <1>8
  <1>11. ASSUME NEW d \in DropsByLaw(p) PROVE DropMove(d) \in PseudoDrops(p, c)
    <2>1. <<d[2], d[1]>> \in D /\ turn(<<d[2], d[1]>>) = d
      BY <1>7, <1>9
    <2> HIDE DEF turn
    <2> QED
      BY <1>2, <2>1
  <1> QED
    BY <1>10, <1>11

-----------------------------------------------------------------------------
(***************************************************************************)
(* The legality probe plays the move on the board, the hands and the king. *)
(***************************************************************************)
\* The king cache is the square of the one king of a side.
LEMMA KingIsThere ==
  ASSUME NEW p \in Probeable, NEW c \in Colors
  PROVE  /\ p.king[c] \in Squares /\ FindKing(p, c) = p.king[c] /\ p.king[c] # NoSquare
         /\ KingSquares(p.board, c) = {p.king[c]}
         /\ \A s \in Squares : p.board[s] = Piece(c, "king") <=> s = p.king[c]
  <1>1. KingSquares(p.board, c) = {p.king[c]}
    BY DEF Probeable, KingsAreCached
  <1>2. \A s : s \in Squares /\ p.board[s] = Piece(c, "king") <=> s = p.king[c]
    BY <1>1 DEF KingSquares
  <1>3. NoSquare \notin Squares
    BY DEF NoSquare, Squares
  <1>4. FindKing(p, c) = p.king[c]
    BY <1>1 DEF FindKing
  <1> QED
    BY <1>1, <1>2, <1>3, <1>4

\* is_in_check is right.
LEMMA ChecksAreLawful ==
  ASSUME NEW p \in Probeable, NEW c \in Colors
  PROVE  IsInCheck(p, c) <=> InCheckByLaw(p.board, c)
  <1>1. p.board \in Boards /\ Opponent(c) \in Colors
    BY PieceFacts DEF Probeable
  <1>2. IsInCheck(p, c) <=> SquareAttacked(p.board, p.king[c], Opponent(c))
    BY KingIsThere DEF IsInCheck
  <1>3. InCheckByLaw(p.board, c) <=> AttackedBy(p.board, Opponent(c), p.king[c])
    BY KingIsThere DEF InCheckByLaw
  <1> QED
    BY <1>1, <1>2, <1>3, KingIsThere, AttacksAreLawful

\* A board move is no drop.
LEMMA NotADrop ==
  ASSUME NEW p \in Probeable, NEW e \in BoardMovesByLaw(p)
  PROVE  ~IsDrop(BoardMove(p.board, e))
  BY BoardMovesTyped DEF IsDrop, BoardMove, NoSquare, Squares

\* A piece is its side and its type.
LEMMA PieceIs ==
  \A a, b, t, u : /\ Piece(a, t) = Piece(b, u) <=> a = b /\ t = u
                  /\ Piece(a, t).color = a /\ Piece(a, t).type = t
  BY DEF Piece

\* What the probe of a board move leads to.
LEMMA MoveIsProbed ==
  ASSUME NEW p \in Probeable, NEW e \in BoardMovesByLaw(p),
         NEW q, q = MakeLegalProbe(p, BoardMove(p.board, e))
  PROVE  q \in Probeable /\ q.board = AfterMove(p, e) /\ q.side = Opponent(p.side)
  <1> DEFINE m == BoardMove(p.board, e)
             B == p.board
             c == p.side
             type == B[e.from].type
             landed == Landed(B, c, m)
             taken == UnpromotedType(B[e.to].type)
             landedType == IF e.promote THEN PromotedType(type) ELSE type
  <1>1. /\ B \in Boards /\ c \in Colors /\ Opponent(c) \in Colors
        /\ p.hand \in [Colors -> [HandTypes -> Nat]]
        /\ p.king \in [Colors -> Squares \cup {NoSquare}]
    BY PieceFacts DEF Probeable
  <1>2. /\ e.from \in Squares /\ e.to \in Squares /\ e.from # e.to
        /\ B[e.from] \in Pieces /\ B[e.from].color = c
        /\ B[e.to].color # c /\ B[e.to].type # "king"
        /\ type \in Types /\ B[e.from] = Piece(c, type)
    BY <1>1, BoardMovesTyped, ColouredIsPiece
  <1>3. ~IsDrop(m) /\ m.from = e.from /\ m.to = e.to /\ m.promote = e.promote
    BY NotADrop DEF BoardMove
  <1> HIDE DEF m
  <1>4. landed = Piece(c, landedType)
    BY <1>2, <1>3 DEF Landed
  <1>5. landedType \in Types /\ (landedType = "king" <=> type = "king")
    BY <1>2, PieceFacts
  <1>6. landed \in Pieces /\ landed.type = landedType
    BY <1>1, <1>4, <1>5 DEF Piece, Pieces
  <1> HIDE DEF landed, landedType
  <1> DEFINE board2 == [B EXCEPT ![e.from] = Empty, ![e.to] = landed]
             hand2 == IF B[e.to] = Empty THEN p.hand[c]
                      ELSE [p.hand[c] EXCEPT ![taken] = p.hand[c][taken] + 1]
             king2 == IF landed.type = "king" THEN m.to ELSE p.king[c]
  <1>7. /\ q.board = board2 /\ q.side = Opponent(c)
        /\ q.hand = [p.hand EXCEPT ![c] = hand2]
        /\ q.king = [p.king EXCEPT ![c] = king2]
        /\ q = [p EXCEPT !.board = board2, !.hand[c] = hand2, !.king[c] = king2,
                         !.side = Opponent(c)]
    <2> HIDE DEF landed
    <2>1. q = [p EXCEPT !.board = board2, !.hand[c] = hand2, !.king[c] = king2,
                        !.side = Opponent(c)]
      BY <1>3 DEF MakeLegalProbe, landed, m
    <2> HIDE DEF board2, hand2, king2
    <2> QED
      BY <2>1 DEF Probeable
  <1>8. board2 \in Boards
    BY <1>1, <1>2, <1>6 DEF Boards
  <1>9. hand2 \in [HandTypes -> Nat]
    <2>1. p.hand[c] \in [HandTypes -> Nat]
      BY <1>1
    <2>2. B[e.to] # Empty => taken \in HandTypes
      BY <1>1, <1>2, ColouredIsPiece, PieceFacts
    <2>3. CASE B[e.to] = Empty
      BY <2>1, <2>3
    <2>4. CASE B[e.to] # Empty
      BY <2>1, <2>2, <2>4
    <2> QED
      BY <2>3, <2>4
  <1>10. king2 \in Squares \cup {NoSquare}
    BY <1>1, <1>2, <1>3
  <1>11. board2 = AfterMove(p, e)
    <2>1. \A s \in Squares : board2[s] = AfterMove(p, e)[s]
      <3>1. ASSUME NEW s \in Squares
            PROVE  AfterMove(p, e)[s] = IF s = e.from THEN Empty
                                        ELSE IF s = e.to THEN landed ELSE B[s]
        BY <1>4 DEF AfterMove, landedType
      <3> QED
        BY <1>1, <1>2, <3>1 DEF Boards
    <2>2. DOMAIN board2 = Squares /\ DOMAIN AfterMove(p, e) = Squares
      BY <1>8 DEF Boards, AfterMove
    <2>3. /\ board2 = [s \in Squares |-> board2[s]]
          /\ AfterMove(p, e) = [s \in Squares |-> AfterMove(p, e)[s]]
      BY <1>8 DEF Boards, AfterMove
    <2> HIDE DEF board2
    <2> QED
      BY <2>1, <2>3
  <1>12. \A s \in Squares : board2[s] = IF s = e.to THEN landed ELSE IF s = e.from THEN Empty ELSE B[s]
    BY <1>1, <1>2 DEF Boards
  <1> HIDE DEF board2, hand2, king2
  <1>13. KingSquares(board2, c) = {king2}
    <2>1. \A s \in Squares : B[s] = Piece(c, "king") <=> s = p.king[c]
      BY <1>1, KingIsThere
    <2>2. Empty # Piece(c, "king")
      BY DEF Empty, Piece
    <2>3. CASE type = "king"
      <3>1. e.from = p.king[c]
        BY <1>2, <2>1, <2>3
      <3>2. landed = Piece(c, "king") /\ king2 = e.to
        BY <1>3, <1>4, <1>5, <1>6, <2>3 DEF king2
      <3>3. \A s \in Squares : board2[s] = Piece(c, "king") <=> s = e.to
        BY <1>2, <1>12, <2>1, <2>2, <3>1, <3>2
      <3> QED
        BY <1>2, <3>2, <3>3 DEF KingSquares
    <2>4. CASE type # "king"
      <3>1. e.from # p.king[c] /\ e.to # p.king[c]
        BY <1>2, <2>1, <2>4, PieceIs
      <3>2. landed # Piece(c, "king") /\ king2 = p.king[c]
        BY <1>4, <1>5, <1>6, <2>4, PieceIs DEF king2
      <3>3. \A s \in Squares : board2[s] = Piece(c, "king") <=> s = p.king[c]
        BY <1>2, <1>12, <2>1, <2>2, <3>1, <3>2
      <3>4. p.king[c] \in Squares
        BY <1>1, KingIsThere
      <3> QED
        BY <3>2, <3>3, <3>4 DEF KingSquares
    <2> QED
      BY <2>3, <2>4
  <1>14. ASSUME NEW a \in Colors, a # c PROVE KingSquares(board2, a) = {p.king[a]}
    <2>1. \A s \in Squares : B[s] = Piece(a, "king") <=> s = p.king[a]
      BY KingIsThere
    <2>2. Empty # Piece(a, "king") /\ landed # Piece(a, "king")
      BY <1>4, <1>14, PieceIs DEF Empty, Piece
    <2>3. e.from # p.king[a] /\ e.to # p.king[a]
      BY <1>2, <1>14, <2>1, PieceIs
    <2>4. \A s \in Squares : board2[s] = Piece(a, "king") <=> s = p.king[a]
      BY <1>2, <1>12, <2>1, <2>2, <2>3
    <2>5. p.king[a] \in Squares
      BY KingIsThere
    <2> QED
      BY <2>4, <2>5 DEF KingSquares
  <1>15. \A a \in Colors : KingSquares(board2, a) = {q.king[a]}
    BY <1>1, <1>7, <1>13, <1>14
  <1>16. q \in Probeable
    <2>1. KingsAreCached(q)
      BY <1>7, <1>15 DEF KingsAreCached
    <2> QED
      <3>1. q = [p EXCEPT !.board = board2, !.hand[c] = hand2, !.king[c] = king2,
                          !.side = Opponent(c)]
        BY <1>7
      <3> DEFINE hands == [p.hand EXCEPT ![c] = hand2]
                 kings == [p.king EXCEPT ![c] = king2]
      <3>2. hands \in [Colors -> [HandTypes -> Nat]]
        BY <1>1, <1>9
      <3>3. kings \in [Colors -> Squares \cup {NoSquare}]
        BY <1>1, <1>10
      <3>4. q = [p EXCEPT !.board = board2, !.hand = hands, !.king = kings, !.side = Opponent(c)]
        BY <3>1 DEF Probeable
      <3> HIDE DEF hands, kings
      <3> QED
        BY <1>1, <1>8, <2>1, <3>2, <3>3, <3>4 DEF Probeable
  <1> QED
    BY <1>7, <1>11, <1>16

\* What the probe of a drop leads to.
LEMMA DropIsProbed ==
  ASSUME NEW p \in Probeable, NEW d \in DropsByLaw(p),
         NEW q, q = MakeLegalProbe(p, DropMove(d))
  PROVE  /\ q \in Probeable /\ q.board = AfterDrop(p, d) /\ q.side = Opponent(p.side)
         /\ q.hand = [p.hand EXCEPT ![p.side][d[1]] = @ - 1]
         /\ IsDrop(DropMove(d))
  <1> DEFINE m == DropMove(d)
             B == p.board
             c == p.side
             t == d[1]
             landed == Piece(c, t)
             board2 == [B EXCEPT ![d[2]] = landed]
             hand2 == [p.hand[c] EXCEPT ![t] = p.hand[c][t] - 1]
  <1>1. /\ B \in Boards /\ c \in Colors /\ Opponent(c) \in Colors
        /\ p.hand \in [Colors -> [HandTypes -> Nat]]
        /\ p.king \in [Colors -> Squares \cup {NoSquare}]
    BY PieceFacts DEF Probeable
  <1>2. /\ t \in HandTypes /\ p.hand[c][t] > 0 /\ d[2] \in Squares /\ B[d[2]] = Empty
    BY DEF DropsByLaw
  <1>3. IsDrop(m) /\ m.to = d[2] /\ m.drop = t
    BY DEF DropMove, IsDrop
  <1> HIDE DEF m
  <1>4. Landed(B, c, m) = landed
    BY <1>3 DEF Landed
  <1>5. landed \in Pieces /\ landed.type # "king"
    BY <1>1, <1>2, PieceFacts DEF Piece, Pieces
  <1>6. /\ q.board = board2 /\ q.side = Opponent(c)
        /\ q.hand = [p.hand EXCEPT ![c] = hand2]
        /\ q.king = [p.king EXCEPT ![c] = p.king[c]]
        /\ q = [p EXCEPT !.board = board2, !.hand[c] = hand2, !.king[c] = p.king[c],
                         !.side = Opponent(c)]
    <2> HIDE DEF landed
    <2>1. q = [p EXCEPT !.board = board2, !.hand[c] = hand2, !.king[c] = p.king[c],
                        !.side = Opponent(c)]
      BY <1>3, <1>4, <1>5 DEF MakeLegalProbe, m
    <2> HIDE DEF board2, hand2
    <2> QED
      BY <2>1 DEF Probeable
  <1>7. board2 \in Boards
    BY <1>1, <1>2, <1>5 DEF Boards
  <1>8. hand2 \in [HandTypes -> Nat]
    BY <1>1, <1>2
  <1>9. q.king = p.king
    BY <1>1, <1>6
  <1>10. ASSUME NEW a \in Colors PROVE KingSquares(board2, a) = {p.king[a]}
    <2>1. \A s \in Squares : B[s] = Piece(a, "king") <=> s = p.king[a]
      BY KingIsThere
    <2>2. Empty # Piece(a, "king") /\ landed # Piece(a, "king")
      BY <1>5, PieceIs DEF Empty, Piece
    <2>3. \A s \in Squares : board2[s] = IF s = d[2] THEN landed ELSE B[s]
      BY <1>1, <1>2 DEF Boards
    <2>4. \A s \in Squares : board2[s] = Piece(a, "king") <=> s = p.king[a]
      BY <1>2, <2>1, <2>2, <2>3
    <2>5. p.king[a] \in Squares
      BY KingIsThere
    <2> HIDE DEF board2
    <2> QED
      BY <2>4, <2>5 DEF KingSquares
  <1>11. q.board = AfterDrop(p, d)
    BY <1>6 DEF AfterDrop
  <1>12. q.hand = [p.hand EXCEPT ![c][t] = @ - 1]
    BY <1>1, <1>6
  <1> HIDE DEF board2, hand2
  <1>13. q \in Probeable
    <2>1. KingsAreCached(q)
      BY <1>6, <1>9, <1>10 DEF KingsAreCached
    <2>2. p.king[c] \in Squares \cup {NoSquare}
      BY <1>1
    <2> QED
      <3>1. q = [p EXCEPT !.board = board2, !.hand[c] = hand2, !.king[c] = p.king[c],
                          !.side = Opponent(c)]
        BY <1>6
      <3> DEFINE hands == [p.hand EXCEPT ![c] = hand2]
                 kings == [p.king EXCEPT ![c] = p.king[c]]
      <3>2. hands \in [Colors -> [HandTypes -> Nat]]
        BY <1>1, <1>8
      <3>3. kings \in [Colors -> Squares \cup {NoSquare}]
        BY <1>1, <2>2
      <3>4. q = [p EXCEPT !.board = board2, !.hand = hands, !.king = kings, !.side = Opponent(c)]
        BY <3>1 DEF Probeable
      <3> HIDE DEF hands, kings
      <3> QED
        BY <1>1, <1>7, <2>1, <3>2, <3>3, <3>4 DEF Probeable
  <1> QED
    BY <1>3, <1>6, <1>11, <1>12, <1>13 DEF m

-----------------------------------------------------------------------------
(***************************************************************************)
(* What a piece on the line between its king and a slider may do.          *)
(***************************************************************************)
\* Two squares of one ray: the farther lies in the same direction of the nearer.
LEMMA AwayOn ==
  ASSUME NEW s \in Squares, NEW d \in Directions, NEW j, NEW l,
         Within(s, d, j), Within(s, d, l), j < l,
         NEW t, t = Away(s, d, j)
  PROVE  /\ l - j \in 1..7 /\ t \in Squares
         /\ Within(t, d, l - j) /\ Away(t, d, l - j) = Away(s, d, l)
         /\ RowOf(Away(s, d, l)) - RowOf(t) = (l - j) * d[1]
         /\ ColOf(Away(s, d, l)) - ColOf(t) = (l - j) * d[2]
  <1>1. /\ j \in 1..8 /\ l \in 1..8 /\ l - j \in 1..7 /\ t \in Squares
        /\ RowOf(t) = RowOf(s) + j * d[1] /\ ColOf(t) = ColOf(s) + j * d[2]
        /\ Away(s, d, l) \in Squares
        /\ RowOf(Away(s, d, l)) = RowOf(s) + l * d[1]
        /\ ColOf(Away(s, d, l)) = ColOf(s) + l * d[2]
    BY AwayIs DEF Within
  <1>2. /\ RowOf(s) \in Int /\ ColOf(s) \in Int /\ d[1] \in -1..1 /\ d[2] \in -1..1
        /\ l * d[1] \in Int /\ l * d[2] \in Int /\ j * d[1] \in Int /\ j * d[2] \in Int
    BY <1>1, SquaresAreInts, DirectionParts, Multiples
  <1>3. /\ (l - j) * d[1] = l * d[1] - j * d[1]
        /\ (l - j) * d[2] = l * d[2] - j * d[2]
    <2>1. ASSUME NEW e \in -1..1 PROVE (l - j) * e = l * e - j * e
      <3>1. CASE e = 0
        BY <3>1, <1>1
      <3>2. CASE e = 1
        BY <3>2, <1>1
      <3>3. CASE e = -1
        BY <3>3, <1>1
      <3> QED
        BY <3>1, <3>2, <3>3
    <2> QED
      BY <1>2, <2>1
  <1>4. /\ RowOf(t) + (l - j) * d[1] = RowOf(Away(s, d, l))
        /\ ColOf(t) + (l - j) * d[2] = ColOf(Away(s, d, l))
    <2>1. \A a, b, x \in Int : (a + b) + (x - b) = a + x
      OBVIOUS
    <2> QED
      BY <1>1, <1>2, <1>3, <2>1
  <1>5. Within(t, d, l - j) /\ Away(t, d, l - j) = Away(s, d, l)
    BY <1>1, <1>4, Coordinates DEF Within, Away, OnBoard
  <1>6. /\ RowOf(Away(s, d, l)) - RowOf(t) = (l - j) * d[1]
        /\ ColOf(Away(s, d, l)) - ColOf(t) = (l - j) * d[2]
    <2>1. \A a, b, x \in Int : (a + x) - (a + b) = x - b
      OBVIOUS
    <2>2. /\ (RowOf(s) + l * d[1]) - (RowOf(s) + j * d[1]) = l * d[1] - j * d[1]
          /\ (ColOf(s) + l * d[2]) - (ColOf(s) + j * d[2]) = l * d[2] - j * d[2]
      BY <1>2, <2>1
    <2> QED
      BY <1>1, <1>3, <2>2
  <1> QED
    BY <1>1, <1>5, <1>6

\* Different distances on a ray are different squares.
LEMMA AwayDiffers ==
  ASSUME NEW s \in Squares, NEW d \in Directions, NEW j \in 1..8, NEW l \in 1..8,
         Within(s, d, j), Within(s, d, l), j # l
  PROVE  Away(s, d, j) # Away(s, d, l)
  <1>1. ASSUME NEW a \in 1..8, NEW b \in 1..8, Within(s, d, a), Within(s, d, b), a < b
        PROVE  Away(s, d, a) # Away(s, d, b)
    <2> DEFINE t == Away(s, d, a)
    <2>1. t \in Squares /\ Within(t, d, b - a) /\ Away(t, d, b - a) = Away(s, d, b)
      BY <1>1, AwayOn
    <2>2. Away(t, d, b - a) # t
      BY <2>1, AwayIs
    <2> QED
      BY <2>1, <2>2
  <1>2. j < l \/ l < j
    OBVIOUS
  <1> QED
    BY <1>1, <1>2

\* A piece that moves along a ray passes no other piece.
LEMMA NothingIsPassed ==
  ASSUME NEW board \in Boards, NEW k \in Squares, NEW d \in Directions,
         NEW j \in 1..8, NEW n \in 1..8, NEW l \in 1..8, j < n, n < l, Within(k, d, l),
         PieceAttacksSquare(board, Away(k, d, j), Away(k, d, l))
  PROVE  board[Away(k, d, n)] = Empty
  <1> DEFINE from == Away(k, d, j)
             to == Away(k, d, l)
             f == Forward(board[from].color)
             t == board[from].type
             i == l - j
  <1>1. Within(k, d, j) /\ Within(k, d, n)
    <2>1. j \in 1..l /\ n \in 1..l
      OBVIOUS
    <2> QED
      BY <2>1, WithinCloses
  <1>2. /\ i \in 1..7 /\ i # 1 /\ from \in Squares /\ to \in Squares
        /\ RowOf(to) - RowOf(from) = i * d[1] /\ ColOf(to) - ColOf(from) = i * d[2]
    BY <1>1, AwayIs, AwayOn
  <1>3. n - j \in 1..(i - 1) /\ Away(from, d, n - j) = Away(k, d, n)
    <2>1. Away(from, d, n - j) = Away(k, d, n)
      BY <1>1, AwayOn
    <2>2. n - j \in 1..(i - 1)
      OBVIOUS
    <2> QED
      BY <2>1, <2>2
  <1>4. /\ d[1] \in -1..1 /\ d[2] \in -1..1 /\ (d[1] # 0 \/ d[2] # 0)
        /\ i * d[1] \in Int
        /\ d[1] = 0 => i * d[1] = 0
        /\ d[1] = 1 => i * d[1] = i
        /\ d[1] = -1 => i * d[1] = -i
        /\ i * d[2] \in Int
        /\ d[2] = 0 => i * d[2] = 0
        /\ d[2] = 1 => i * d[2] = i
        /\ d[2] = -1 => i * d[2] = -i
    BY <1>2, DirectionParts, Multiples
  <1> HIDE DEF from, to, i
  <1>5. board[from] \in Pieces /\ t \in Types /\ f \in {-1, 1}
        /\ (StepPieceAttacks(t, i * d[1], i * d[2], f) \/ Slides(board, from, to))
    BY <1>2, ForwardIs, PieceAttacksIs, ColouredIsPiece DEF from, to
  <1>6. ~StepPieceAttacks(t, i * d[1], i * d[2], f)
    <2> DEFINE dr == i * d[1]
               dc == i * d[2]
    <2>1. dr \in Int /\ dc \in Int
      BY <1>4
    <2>2. ~(dr \in -1..1 /\ dc \in -1..1)
      BY <1>2, <1>4
    <2>3. dc \notin {-1, 1}
      BY <1>2, <1>4
    <2> HIDE DEF dr, dc
    <2>4. ~StepPieceAttacks(t, dr, dc, f)
      BY <1>5, <2>1, <2>2, <2>3, StepReach
    <2> QED
      BY <2>4 DEF dr, dc
  <1>7. PICK e \in SlidesOf(t, f), x \in 1..8 :
           Within(from, e, x) /\ to = Away(from, e, x) /\ Clear(board, from, e, x)
    BY <1>5, <1>6 DEF Slides
  <1>8. e \in Directions
    BY <1>5, SlidesAre
  <1>9. RowOf(to) - RowOf(from) = x * e[1] /\ ColOf(to) - ColOf(from) = x * e[2]
    <2>1. RowOf(to) = RowOf(from) + x * e[1] /\ ColOf(to) = ColOf(from) + x * e[2]
      BY <1>2, <1>7, <1>8, AwayIs
    <2>2. /\ RowOf(from) \in Int /\ ColOf(from) \in Int /\ x * e[1] \in Int /\ x * e[2] \in Int
      BY <1>2, <1>8, SquaresAreInts, DirectionParts, Multiples
    <2> QED
      BY <2>1, <2>2
  <1>10. e = d /\ x = i
    <2> DEFINE dr == RowOf(to) - RowOf(from)
               dc == ColOf(to) - ColOf(from)
    <2>1. dr = i * d[1] /\ dc = i * d[2] /\ dr = x * e[1] /\ dc = x * e[2] /\ i \in 1..8
      BY <1>2, <1>9
    <2> HIDE DEF dr, dc
    <2>2. Sign(dr) = d[1] /\ Sign(dc) = d[2] /\ Farther(dr, dc) = i
      BY <2>1, LineOffsets
    <2>3. Sign(dr) = e[1] /\ Sign(dc) = e[2] /\ Farther(dr, dc) = x
      BY <1>8, <2>1, LineOffsets
    <2>4. d = <<d[1], d[2]>> /\ e = <<e[1], e[2]>>
      BY <1>8, DirectionParts
    <2> QED
      BY <2>2, <2>3, <2>4
  <1> QED
    BY <1>3, <1>7, <1>10 DEF Clear

\* same_king_ray keeps a piece on the ray it stands on.
LEMMA RayIsKept ==
  ASSUME NEW k \in Squares, NEW d \in Directions, NEW j \in 1..8, Within(k, d, j),
         NEW to \in Squares, SameKingRay(k, Away(k, d, j), to)
  PROVE  \E l \in 1..8 : Within(k, d, l) /\ to = Away(k, d, l)
  <1> DEFINE from == Away(k, d, j)
             dr == RowOf(from) - RowOf(k)
             dc == ColOf(from) - ColOf(k)
             tr == RowOf(to) - RowOf(k)
             tc == ColOf(to) - ColOf(k)
  <1>1. /\ RowOf(k) \in 0..8 /\ ColOf(k) \in 0..8 /\ RowOf(to) \in 0..8 /\ ColOf(to) \in 0..8
        /\ tr \in -8..8 /\ tc \in -8..8
    BY Coordinates
  <1>2. d[1] \in -1..1 /\ d[2] \in -1..1 /\ (d[1] # 0 \/ d[2] # 0)
    BY DirectionParts
  <1>3. dr = j * d[1] /\ dc = j * d[2]
    <2>1. RowOf(from) = RowOf(k) + j * d[1] /\ ColOf(from) = ColOf(k) + j * d[2]
      BY AwayIs
    <2>2. j * d[1] \in Int /\ j * d[2] \in Int
      BY <1>2, Multiples
    <2> QED
      BY <1>1, <2>1, <2>2
  <1>4. /\ CASE dr = 0 -> tr = 0
             [] dr # 0 /\ dc = 0 -> tc = 0
             [] OTHER -> Abs(dr) = Abs(dc) /\ Abs(tr) = Abs(tc) /\ dr * tc = dc * tr
        /\ dr * tr + dc * tc > 0
    BY DEF SameKingRay
  <1> HIDE DEF from, dr, dc, tr, tc
  <1>5. /\ dr \in Int
        /\ dr = 0 <=> d[1] = 0
        /\ d[1] = 1 => dr = j
        /\ d[1] = -1 => dr = -j
        /\ dc \in Int
        /\ dc = 0 <=> d[2] = 0
        /\ d[2] = 1 => dc = j
        /\ d[2] = -1 => dc = -j
    BY <1>2, <1>3, Multiples
  <1>6. \A x \in -8..8 : /\ j * x \in Int /\ (j * x > 0 <=> x > 0)
                         /\ j * x = 0 <=> x = 0
                         /\ (-j) * x = -(j * x)
    <2>1. \A x \in -8..8 : x > 0 => j * x > 0
      OBVIOUS
    <2>2. \A x \in -8..8 : x < 0 => j * x < 0
      OBVIOUS
    <2>3. \A x \in -8..8 : (-j) * x = -(j * x)
      OBVIOUS
    <2> QED
      BY <2>1, <2>2, <2>3
  <1>7. \E l \in 1..8 : tr = l * d[1] /\ tc = l * d[2]
    <2>1. CASE d[1] = 0
      <3>1. tr = 0 /\ dc * tc > 0
        <4>1. dr = 0 /\ dr * tr = 0
          BY <1>1, <1>5, <2>1
        <4>2. dc * tc \in Int
          BY <1>1, <1>5
        <4> QED
          BY <1>4, <4>1, <4>2
      <3>2. CASE d[2] = 1
        <4>1. tc \in 1..8
          BY <1>1, <1>5, <1>6, <3>1, <3>2
        <4> QED
          BY <2>1, <3>1, <3>2, <4>1
      <3>3. CASE d[2] = -1
        <4>1. -tc \in 1..8 /\ (-tc) * 0 = 0 /\ (-tc) * (-1) = tc
          BY <1>1, <1>5, <1>6, <3>1, <3>3
        <4> QED
          BY <2>1, <3>1, <3>3, <4>1
      <3> QED
        BY <1>2, <2>1, <3>2, <3>3
    <2>2. CASE d[1] # 0 /\ d[2] = 0
      <3>1. tc = 0 /\ dr * tr > 0
        <4>1. dr # 0 /\ dc = 0 /\ dc * tc = 0
          BY <1>1, <1>5, <2>2
        <4>2. dr * tr \in Int
          BY <1>1, <1>5
        <4> QED
          BY <1>4, <4>1, <4>2
      <3>2. CASE d[1] = 1
        <4>1. tr \in 1..8
          BY <1>1, <1>5, <1>6, <3>1, <3>2
        <4> QED
          BY <2>2, <3>1, <3>2, <4>1
      <3>3. CASE d[1] = -1
        <4>1. -tr \in 1..8 /\ (-tr) * 0 = 0 /\ (-tr) * (-1) = tr
          BY <1>1, <1>5, <1>6, <3>1, <3>3
        <4> QED
          BY <2>2, <3>1, <3>3, <4>1
      <3> QED
        BY <1>2, <2>2, <3>2, <3>3
    <2>3. CASE d[1] # 0 /\ d[2] # 0
      <3>1. Abs(tr) = Abs(tc) /\ dr * tc = dc * tr /\ dr * tr + dc * tc > 0
        <4>1. dr # 0 /\ dc # 0
          BY <1>5, <2>3
        <4> QED
          BY <1>4, <4>1
      <3>2. tr = tc \/ tr = -tc
        BY <1>1, <3>1 DEF Abs
      <3>3. tr \in Int /\ tc \in Int /\ j * tr \in Int /\ j * tc \in Int /\ -tc \in -8..8
        BY <1>1, <1>6
      <3>4. CASE d[1] = 1 /\ d[2] = 1
        <4>1. dr = j /\ dc = j
          BY <1>5, <3>4
        <4>2. j * tc = j * tr /\ j * tr + j * tc > 0
          BY <3>1, <4>1
        <4>3. j * tr > 0 /\ j * tc > 0
          BY <3>3, <4>2
        <4>4. tr \in 1..8 /\ tc \in 1..8 /\ tr = tc /\ tr * 1 = tr
          BY <1>1, <1>6, <3>2, <4>3
        <4> QED
          BY <3>4, <4>4
      <3>5. CASE d[1] = -1 /\ d[2] = -1
        <4>1. dr = -j /\ dc = -j
          BY <1>5, <3>5
        <4>2. (-j) * tc = -(j * tc) /\ (-j) * tr = -(j * tr)
          BY <1>1, <1>6
        <4>3. -(j * tc) = -(j * tr) /\ -(j * tr) + -(j * tc) > 0
          BY <3>1, <4>1, <4>2
        <4>4. j * tr < 0 /\ j * tc < 0
          BY <3>3, <4>3
        <4>5. ~(tr > 0) /\ tr # 0 /\ ~(tc > 0) /\ tc # 0
          <5>1. ~(j * tr > 0) /\ j * tr # 0 /\ ~(j * tc > 0) /\ j * tc # 0
            BY <3>3, <4>4
          <5> QED
            BY <1>1, <1>6, <5>1
        <4>6. -tr \in 1..8 /\ tr = tc /\ (-tr) * (-1) = tr
          BY <1>1, <3>2, <4>5
        <4> QED
          BY <3>5, <4>6
      <3>6. CASE d[1] = 1 /\ d[2] = -1
        <4>1. dr = j /\ dc = -j
          BY <1>5, <3>6
        <4>2. (-j) * tc = -(j * tc) /\ (-j) * tr = -(j * tr)
          BY <1>1, <1>6
        <4>3. j * tc = -(j * tr) /\ j * tr + -(j * tc) > 0
          BY <3>1, <4>1, <4>2
        <4>4. j * tr > 0 /\ j * tc < 0
          BY <3>3, <4>3
        <4>5. tr > 0 /\ ~(tc > 0) /\ tc # 0
          <5>1. j * tr > 0 /\ ~(j * tc > 0) /\ j * tc # 0
            BY <3>3, <4>4
          <5> QED
            BY <1>1, <1>6, <5>1
        <4>6. tr \in 1..8 /\ tc = -tr /\ tr * 1 = tr /\ tr * (-1) = -tr
          BY <1>1, <3>2, <4>5
        <4> QED
          BY <3>6, <4>6
      <3>7. CASE d[1] = -1 /\ d[2] = 1
        <4>1. dr = -j /\ dc = j
          BY <1>5, <3>7
        <4>2. (-j) * tc = -(j * tc) /\ (-j) * tr = -(j * tr)
          BY <1>1, <1>6
        <4>3. -(j * tc) = j * tr /\ -(j * tr) + j * tc > 0
          BY <3>1, <4>1, <4>2
        <4>4. j * tr < 0 /\ j * tc > 0
          BY <3>3, <4>3
        <4>5. tc > 0 /\ ~(tr > 0) /\ tr # 0
          <5>1. j * tc > 0 /\ ~(j * tr > 0) /\ j * tr # 0
            BY <3>3, <4>4
          <5> QED
            BY <1>1, <1>6, <5>1
        <4>6. tc \in 1..8 /\ tr = -tc /\ tc * 1 = tc /\ tc * (-1) = -tc
          BY <1>1, <3>2, <4>5
        <4> QED
          BY <3>7, <4>6
      <3> QED
        BY <1>2, <2>3, <3>4, <3>5, <3>6, <3>7
    <2> QED
      BY <2>1, <2>2, <2>3
  <1>8. PICK l \in 1..8 : tr = l * d[1] /\ tc = l * d[2]
    BY <1>7
  <1>9. RowOf(k) + l * d[1] = RowOf(to) /\ ColOf(k) + l * d[2] = ColOf(to)
    <2>1. RowOf(k) + tr = RowOf(to) /\ ColOf(k) + tc = ColOf(to)
      BY <1>1 DEF tr, tc
    <2> QED
      BY <1>8, <2>1
  <1>10. Within(k, d, l) /\ to = Away(k, d, l)
    BY <1>1, <1>9, Coordinates DEF Within, Away, OnBoard
  <1> QED
    BY <1>10

-----------------------------------------------------------------------------
(***************************************************************************)
(* The shortcut: a move that is not probed leaves the king safe.           *)
(***************************************************************************)
\* A piece with nothing but empty squares between it and the king, and the same
\* between it and a slider behind it, is among the pinned.
LEMMA PinIsSeen ==
  ASSUME NEW board \in Boards, NEW king \in Squares, NEW mover \in Colors,
         NEW d \in Directions, NEW j \in 1..8, NEW n \in 1..8, j < n,
         Within(king, d, n),
         board[Away(king, d, j)].color = mover,
         board[Away(king, d, n)].color = Opponent(mover),
         board[Away(king, d, n)].type \in RayMask(Opponent(mover), d),
         \A i \in 1..(n - 1) : i # j => board[Away(king, d, i)] = Empty
  PROVE  Away(king, d, j) \in PinnedOn(board, king, mover, d)
  <1> DEFINE ray == AttackRays[king, d]
             seen == OccupiedOn(board, ray)
             n1 == Nearest(seen)
             n2 == Nearest(seen \ {n1})
  <1>1. Within(king, d, j)
    <2>1. j \in 1..n
      OBVIOUS
    <2> QED
      BY <2>1, WithinCloses
  <1>2. /\ seen = {i \in 1..8 : Within(king, d, i) /\ board[Away(king, d, i)] # Empty}
        /\ \A i \in seen : ray[i] = Away(king, d, i)
        /\ seen # {} => Nearest(seen) \in seen
        /\ \A i \in seen : i = Nearest(seen) <=> Clear(board, king, d, i)
    BY FirstOnRay
  <1> HIDE DEF ray, seen
  <1>3. j \in seen /\ n \in seen
    <2>1. Away(king, d, j) \in Squares /\ Away(king, d, n) \in Squares
      BY <1>1, AwayIs
    <2>2. Opponent(mover) \in Colors
      BY PieceFacts
    <2>3. board[Away(king, d, j)] # Empty /\ board[Away(king, d, n)] # Empty
      BY <2>1, <2>2, ColouredIsPiece
    <2> QED
      BY <1>1, <1>2, <2>3
  <1>4. Clear(board, king, d, j)
    <2>1. \A i \in 1..(j - 1) : i \in 1..(n - 1) /\ i # j
      OBVIOUS
    <2> QED
      BY <2>1 DEF Clear
  <1>5. n1 = j
    BY <1>2, <1>3, <1>4
  <1>6. n2 = n
    <2> DEFINE rest == seen \ {j}
    <2>1. rest \subseteq Nat /\ n \in rest
      BY <1>2, <1>3
    <2> HIDE DEF rest
    <2>2. Nearest(rest) \in rest /\ \A m \in rest : Nearest(rest) <= m
      BY <2>1, NearestIsThere
    <2> DEFINE x == Nearest(rest)
    <2>3. x \in 1..8 /\ x # j /\ x <= n /\ board[Away(king, d, x)] # Empty
      BY <1>2, <2>1, <2>2 DEF rest
    <2> HIDE DEF x
    <2>4. x \notin 1..(n - 1)
      BY <2>3
    <2>5. x = n
      BY <2>3, <2>4
    <2> QED
      BY <1>5, <2>5 DEF x, rest
  <1>7. Cardinality(seen) >= 2
    <2>1. seen \in SUBSET Nat /\ \A i \in seen : i <= 8
      BY <1>2
    <2>2. IsFiniteSet(seen)
      BY <2>1, 8 \in Nat, FS_BoundedSetOfNaturals
    <2>3. Cardinality(seen) \in Nat
      BY <2>2, FS_CardinalityType
    <2>4. IsFiniteSet(seen \ {j}) /\ Cardinality(seen \ {j}) = Cardinality(seen) - 1
      BY <1>3, <2>2, FS_RemoveElement
    <2>5. Cardinality(seen \ {j}) # 0
      <3>1. n \in seen \ {j}
        BY <1>3
      <3> QED
        BY <2>4, <3>1, FS_EmptySet
    <2>6. Cardinality(seen \ {j}) \in Nat
      BY <2>4, FS_CardinalityType
    <2> QED
      BY <2>3, <2>4, <2>5, <2>6
  <1>8. ray[n1] = Away(king, d, j) /\ ray[n2] = Away(king, d, n)
    BY <1>2, <1>3, <1>5, <1>6
  <1>9. PinnedOn(board, king, mover, d) =
           IF /\ Cardinality(seen) >= 2
              /\ board[ray[n1]].color = mover
              /\ board[ray[n2]].color = Opponent(mover)
              /\ board[ray[n2]].type \in RayMask(Opponent(mover), d)
           THEN {ray[n1]} ELSE {}
    BY DEF PinnedOn, ray, seen
  <1> HIDE DEF n1, n2
  <1> QED
    BY <1>7, <1>8, <1>9

\* The generator's shortcut: no check, and no pin that the move leaves, then no
\* check after the move.
LEMMA ShortcutIsSafe ==
  ASSUME NEW p \in Probeable, NEW e \in BoardMovesByLaw(p),
         ~NeedsProbe(p, KingSafety(p, p.side), BoardMove(p.board, e))
  PROVE  ~InCheckByLaw(AfterMove(p, e), p.side)
  <1> DEFINE B == p.board
             c == p.side
             foe == Opponent(c)
             k == p.king[c]
             A == AfterMove(p, e)
             from == e.from
             to == e.to
             q == MakeLegalProbe(p, BoardMove(B, e))
  <1>1. /\ B \in Boards /\ c \in Colors /\ foe \in Colors /\ foe # c
        /\ k \in Squares /\ k # NoSquare /\ FindKing(p, c) = k
        /\ \A s \in Squares : B[s] = Piece(c, "king") <=> s = k
    BY PieceFacts, KingIsThere DEF Probeable
  <1>2. /\ from \in Squares /\ to \in Squares /\ from # to
        /\ B[from] \in Pieces /\ B[from].color = c /\ B[to].color # c
        /\ PieceAttacksSquare(B, from, to)
    BY BoardMovesTyped
  <1>3. q \in Probeable /\ q.board = A
    BY MoveIsProbed
  <1>4. A \in Boards
    BY <1>3 DEF Probeable
  <1>5. /\ ~SquareAttacked(B, k, foe) /\ B[from].type # "king"
        /\ \A d \in Directions : from \in PinnedOn(B, k, c, d) => SameKingRay(k, from, to)
    <2> DEFINE safety == KingSafety(p, c)
               m == BoardMove(B, e)
    <2>1. safety = [valid |-> TRUE, king |-> k, in_check |-> SquareAttacked(B, k, foe),
                    pinned |-> UNION {PinnedOn(B, k, c, d) : d \in Directions}]
      BY <1>1 DEF KingSafety
    <2>2. m.from = from /\ m.to = to /\ ~IsDrop(m)
      BY NotADrop DEF BoardMove
    <2> HIDE DEF safety, m
    <2>3. ~NeedsProbe(p, safety, m)
      BY DEF safety, m
    <2>4. /\ ~safety.in_check /\ B[m.from].type # "king"
          /\ m.from \in safety.pinned => SameKingRay(safety.king, m.from, m.to)
      BY <2>3 DEF NeedsProbe
    <2> QED
      BY <2>1, <2>2, <2>4
  <1> HIDE DEF B, c, foe, k, A, from, to, q
  <1>6. \A s \in Squares : /\ s = from => A[s] = Empty
                           /\ s = to => A[s] # Empty /\ A[s].color = c
                           /\ s # from /\ s # to => A[s] = B[s]
    <2>1. \A s \in Squares : A[s] = IF s = from THEN Empty ELSE IF s = to
               THEN Piece(c, IF e.promote THEN PromotedType(B[from].type) ELSE B[from].type)
               ELSE B[s]
      BY DEF AfterMove, A, B, c, from, to
    <2>2. \A t : Piece(c, t).color = c /\ Piece(c, t) # Empty
      <3>1. Empty.color # c
        BY <1>1 DEF Empty, Colors, Black, White
      <3> QED
        BY <3>1, PieceIs
    <2> QED
      BY <1>2, <2>1, <2>2
  <1>7. k # from /\ k # to
    <2>1. B[k] = Piece(c, "king")
      BY <1>1
    <2>2. B[k].color = c /\ B[k].type = "king"
      BY <2>1, PieceIs
    <2> QED
      BY <1>2, <1>5, <2>2
  <1>8. q.king[c] = k
    <2>1. A[k] = Piece(c, "king")
      BY <1>1, <1>6, <1>7
    <2> QED
      BY <1>1, <1>3, <2>1, KingIsThere
  <1>9. InCheckByLaw(A, c) <=> AttackedBy(A, foe, k)
    <2>1. \A s \in Squares : A[s] = Piece(c, "king") <=> s = k
      BY <1>1, <1>3, <1>8, KingIsThere
    <2> QED
      BY <1>1, <2>1 DEF InCheckByLaw, foe
  <1>10. SUFFICES ASSUME NEW s \in Squares, A[s].color = foe, PieceAttacksSquare(A, s, k)
                  PROVE  FALSE
    BY <1>9 DEF AttackedBy, A, c
  <1>11. s # from /\ s # to /\ A[s] = B[s]
    <2>1. Empty.color # foe
      BY <1>1 DEF Empty, Colors, Black, White
    <2> QED
      BY <1>1, <1>6, <1>10, <2>1
  <1>12. ~PieceAttacksSquare(B, s, k)
    <2>1. ~AttackedBy(B, foe, k)
      BY <1>1, <1>5, AttacksAreLawful
    <2> QED
      BY <1>10, <1>11, <2>1 DEF AttackedBy
  <1> DEFINE t == B[s].type
             f == Forward(foe)
  <1>13. /\ B[s] \in Pieces /\ t \in Types /\ f \in {-1, 1} /\ s # k
         /\ Slides(A, s, k) /\ ~Slides(B, s, k)
    <2>1. B[s] \in Pieces /\ t \in Types
      BY <1>1, <1>10, <1>11, ColouredIsPiece
    <2>2. PieceAttacksSquare(A, s, k) <=>
            /\ s # k /\ A[s] \in Pieces
            /\ \/ StepPieceAttacks(t, RowOf(k) - RowOf(s), ColOf(k) - ColOf(s), f)
               \/ Slides(A, s, k)
      BY <1>1, <1>4, <1>10, <1>11, PieceAttacksIs
    <2>3. PieceAttacksSquare(B, s, k) <=>
            /\ s # k /\ B[s] \in Pieces
            /\ \/ StepPieceAttacks(t, RowOf(k) - RowOf(s), ColOf(k) - ColOf(s), f)
               \/ Slides(B, s, k)
      BY <1>1, <1>10, <1>11, PieceAttacksIs
    <2> QED
      BY <1>10, <1>12, <2>1, <2>2, <2>3, ForwardIs
  <1>14. PICK d \in SlidesOf(t, f), n \in 1..8 :
            Within(s, d, n) /\ k = Away(s, d, n) /\ Clear(A, s, d, n)
    BY <1>10, <1>11, <1>13 DEF Slides
  <1> DEFINE D == Back(d)
  <1>15. d \in Directions /\ D \in Directions /\ Back(D) = d
    BY <1>13, SlidesAre, BackIsDirection
  <1>16. Within(k, D, n) /\ s = Away(k, D, n) /\ Clear(A, k, D, n)
    <2>1. Within(k, Back(d), n) /\ Away(k, Back(d), n) = s
      BY <1>14, <1>15, WalkBack
    <2>2. Clear(A, k, Back(d), n)
      BY <1>14, <1>15, ClearBack
    <2> QED
      BY <2>1, <2>2
  <1>17. ~Clear(B, k, D, n)
    <2>1. ~Clear(B, s, d, n)
      BY <1>10, <1>11, <1>13, <1>14 DEF Slides
    <2>2. Clear(B, k, Back(d), n) <=> Clear(B, s, d, n)
      BY <1>14, <1>15, ClearBack
    <2> QED
      BY <2>1, <2>2
  <1> HIDE DEF D
  <1>18. \A i \in 1..(n - 1) : i \in 1..8 /\ i # n /\ Within(k, D, i) /\ Away(k, D, i) \in Squares
    <2>1. \A i \in 1..(n - 1) : i \in 1..n /\ i \in 1..8 /\ i # n
      BY Earlier
    <2> QED
      BY <1>1, <1>15, <1>16, <2>1, WithinCloses, AwayIs
  <1>19. PICK j \in 1..(n - 1) : B[Away(k, D, j)] # Empty
    BY <1>17 DEF Clear
  <1>20. Away(k, D, j) = from
    BY <1>6, <1>16, <1>18, <1>19 DEF Clear
  <1>21. ASSUME NEW i \in 1..(n - 1), i # j PROVE B[Away(k, D, i)] = Empty
    <2>1. Away(k, D, i) # from
      BY <1>1, <1>15, <1>18, <1>20, <1>21, AwayDiffers
    <2>2. A[Away(k, D, i)] = Empty
      BY <1>16 DEF Clear
    <2> QED
      BY <1>6, <1>18, <2>1, <2>2
  <1>22. j \in 1..8 /\ j < n
    OBVIOUS
  <1>23. t \in RayMask(foe, D)
    BY <1>1, <1>13, <1>14, <1>15, RayMaskIs
  <1>24. from \in PinnedOn(B, k, c, D)
    BY <1>1, <1>2, <1>10, <1>11, <1>15, <1>16, <1>20, <1>21, <1>22, <1>23, PinIsSeen DEF foe
  <1>25. SameKingRay(k, from, to)
    BY <1>5, <1>15, <1>24
  <1>26. PICK l \in 1..8 : Within(k, D, l) /\ to = Away(k, D, l)
    BY <1>1, <1>2, <1>15, <1>18, <1>20, <1>22, <1>25, RayIsKept
  <1>27. l # j /\ l # n
    BY <1>2, <1>11, <1>16, <1>20, <1>26
  <1>28. l \notin 1..(n - 1)
    BY <1>2, <1>6, <1>16, <1>26 DEF Clear
  <1>29. n < l
    BY <1>27, <1>28
  <1>30. B[Away(k, D, n)] = Empty
    BY <1>1, <1>2, <1>15, <1>20, <1>22, <1>26, <1>29, NothingIsPassed
  <1> QED
    BY <1>13, <1>16, <1>30, PieceFacts

-----------------------------------------------------------------------------
(***************************************************************************)
(* The legal moves.                                                        *)
(***************************************************************************)
\* What survives the filter of the generator is what leaves the king safe.
LEMMA ExposureIs ==
  ASSUME NEW p \in Probeable
  PROVE  ExposureFree(p) = {BoardMove(p.board, e) : e \in SafeMoves(p)}
                           \cup {DropMove(d) : d \in SafeDrops(p)}
  <1> DEFINE safety == KingSafety(p, p.side)
             kept(m) == NeedsProbe(p, safety, m) => ~IsInCheck(MakeLegalProbe(p, m), p.side)
             steps == BoardMovesByLaw(p)
             drops == DropsByLaw(p)
  <1>1. p.board \in Boards /\ p.side \in Colors
    BY DEF Probeable
  <1>2. ExposureFree(p) = {m \in {BoardMove(p.board, e) : e \in steps}
                                 \cup {DropMove(d) : d \in drops} : kept(m)}
    BY CandidatesAre, DropsAre DEF ExposureFree, GeneratePseudo
  <1>3. ASSUME NEW e \in steps
        PROVE  kept(BoardMove(p.board, e)) <=> ~InCheckByLaw(AfterMove(p, e), p.side)
    <2> DEFINE q == MakeLegalProbe(p, BoardMove(p.board, e))
    <2>1. q \in Probeable /\ q.board = AfterMove(p, e)
      BY MoveIsProbed
    <2>2. IsInCheck(q, p.side) <=> InCheckByLaw(AfterMove(p, e), p.side)
      BY <1>1, <2>1, ChecksAreLawful
    <2>3. ~NeedsProbe(p, safety, BoardMove(p.board, e)) => ~InCheckByLaw(AfterMove(p, e), p.side)
      BY ShortcutIsSafe
    <2> QED
      BY <2>2, <2>3
  <1>4. ASSUME NEW d \in drops
        PROVE  kept(DropMove(d)) <=> ~InCheckByLaw(AfterDrop(p, d), p.side)
    <2> DEFINE q == MakeLegalProbe(p, DropMove(d))
    <2>1. q \in Probeable /\ q.board = AfterDrop(p, d) /\ IsDrop(DropMove(d))
      BY DropIsProbed
    <2>2. IsInCheck(q, p.side) <=> InCheckByLaw(AfterDrop(p, d), p.side)
      BY <1>1, <2>1, ChecksAreLawful
    <2>3. NeedsProbe(p, safety, DropMove(d))
      BY <2>1 DEF NeedsProbe
    <2> QED
      BY <2>2, <2>3
  <1>5. SafeMoves(p) = {e \in steps : ~InCheckByLaw(AfterMove(p, e), p.side)}
    BY DEF SafeMoves
  <1>6. SafeDrops(p) = {d \in drops : ~InCheckByLaw(AfterDrop(p, d), p.side)}
    BY DEF SafeDrops
  <1> HIDE DEF kept, steps, drops
  <1> QED
    BY <1>2, <1>3, <1>4, <1>5, <1>6

\* The law looks at the board, the hands and the side to move only.
LEMMA LawLooksAt ==
  ASSUME NEW p, NEW q, p.board = q.board, p.side = q.side, p.hand = q.hand
  PROVE  SafeMoves(p) = SafeMoves(q) /\ SafeDrops(p) = SafeDrops(q)
  <1>1. BoardMovesByLaw(p) = BoardMovesByLaw(q)
    BY DEF BoardMovesByLaw
  <1>2. DropsByLaw(p) = DropsByLaw(q)
    BY DEF DropsByLaw
  <1>3. \A e : AfterMove(p, e) = AfterMove(q, e)
    BY DEF AfterMove
  <1>4. \A d : AfterDrop(p, d) = AfterDrop(q, d)
    BY DEF AfterDrop
  <1>5. SafeMoves(p) = SafeMoves(q)
    BY <1>1, <1>3 DEF SafeMoves
  <1>6. SafeDrops(p) = SafeDrops(q)
    BY <1>2, <1>4 DEF SafeDrops
  <1> QED
    BY <1>5, <1>6

\* The pawn drops the generator refuses are those that mate.
LEMMA MatesAreSeen ==
  ASSUME NEW p \in Probeable, NEW d \in DropsByLaw(p),
         NEW q, q = MakeLegalProbe(p, DropMove(d))
  PROVE  PawnDropChecks(DropMove(d), q) /\ NoReply(q) <=> d[1] = "pawn" /\ DropsMate(p, d)
  <1> DEFINE r == PassAfterDrop(p, d)
  <1>1. /\ q \in Probeable /\ q.board = AfterDrop(p, d) /\ q.side = Opponent(p.side)
        /\ q.hand = [p.hand EXCEPT ![p.side][d[1]] = @ - 1]
        /\ IsDrop(DropMove(d)) /\ DropMove(d).drop = d[1]
    BY DropIsProbed DEF DropMove
  <1>2. r.board = q.board /\ r.side = q.side /\ r.hand = q.hand
    BY <1>1 DEF PassAfterDrop
  <1>3. q.board \in Boards /\ q.side \in Colors
    BY <1>1 DEF Probeable
  <1>4. IsInCheck(q, q.side) <=> InCheckByLaw(r.board, r.side)
    BY <1>1, <1>2, <1>3, ChecksAreLawful
  <1>5. SafeMoves(r) = SafeMoves(q) /\ SafeDrops(r) = SafeDrops(q)
    BY <1>2, LawLooksAt
  <1>6. NoReply(q) <=> SafeMoves(q) = {} /\ SafeDrops(q) = {}
    <2>1. ExposureFree(q) = {BoardMove(q.board, e) : e \in SafeMoves(q)}
                            \cup {DropMove(x) : x \in SafeDrops(q)}
      BY <1>1, ExposureIs
    <2> QED
      BY <2>1 DEF NoReply
  <1>7. DropsMate(p, d) <=> /\ InCheckByLaw(r.board, r.side)
                            /\ SafeMoves(r) = {} /\ SafeDrops(r) = {}
    BY DEF DropsMate
  <1> HIDE DEF r
  <1> QED
    BY <1>1, <1>4, <1>5, <1>6, <1>7 DEF PawnDropChecks

\* generate_legal: the legal moves of a position, whatever its board.
THEOREM GeneratorIsLawful ==
  ASSUME NEW p \in Probeable
  PROVE  /\ {[from |-> m.from, to |-> m.to, promote |-> m.promote] :
               m \in {n \in GenerateLegal(p) : ~IsDrop(n)}} = SafeMoves(p)
         /\ {<<m.drop, m.to>> : m \in {n \in GenerateLegal(p) : IsDrop(n)}} = LegalDropsByLaw(p)
  <1> DEFINE legal == GenerateLegal(p)
             refused(m) == PawnDropChecks(m, MakeLegalProbe(p, m)) /\ NoReply(MakeLegalProbe(p, m))
             entry(m) == [from |-> m.from, to |-> m.to, promote |-> m.promote]
             pair(m) == <<m.drop, m.to>>
             step(e) == BoardMove(p.board, e)
  <1>1. legal = {m \in ExposureFree(p) : ~refused(m)}
    BY DEF GenerateLegal
  <1>2. ExposureFree(p) = {step(e) : e \in SafeMoves(p)} \cup {DropMove(d) : d \in SafeDrops(p)}
    BY ExposureIs
  <1>3. ASSUME NEW e \in SafeMoves(p)
        PROVE  ~IsDrop(step(e)) /\ ~refused(step(e)) /\ entry(step(e)) = e
    <2>1. e \in BoardMovesByLaw(p)
      BY DEF SafeMoves
    <2>2. ~IsDrop(step(e))
      BY <2>1, NotADrop
    <2>3. entry(step(e)) = e
      BY <2>1, BoardMovesTyped DEF BoardMove
    <2> QED
      BY <2>2, <2>3 DEF PawnDropChecks
  <1>4. ASSUME NEW d \in SafeDrops(p)
        PROVE  /\ IsDrop(DropMove(d)) /\ pair(DropMove(d)) = d
               /\ ~refused(DropMove(d)) <=> d \in LegalDropsByLaw(p)
    <2>1. d \in DropsByLaw(p)
      BY DEF SafeDrops
    <2>2. d = <<d[1], d[2]>>
      BY <2>1 DEF DropsByLaw
    <2>3. pair(DropMove(d)) = d
      BY <2>2 DEF DropMove
    <2>4. IsDrop(DropMove(d))
      BY <2>1, DropIsProbed
    <2>5. refused(DropMove(d)) <=> d[1] = "pawn" /\ DropsMate(p, d)
      BY <2>1, MatesAreSeen
    <2> HIDE DEF refused
    <2>6. ~refused(DropMove(d)) <=> d \in LegalDropsByLaw(p)
      BY <2>5 DEF LegalDropsByLaw
    <2> QED
      BY <2>3, <2>4, <2>6
  <1>5. LegalDropsByLaw(p) \subseteq SafeDrops(p)
    BY DEF LegalDropsByLaw
  <1> HIDE DEF legal, refused, entry, pair, step
  <1>6. {entry(m) : m \in {n \in legal : ~IsDrop(n)}} = SafeMoves(p)
    <2>1. \A m : m \in legal /\ ~IsDrop(m) <=> \E e \in SafeMoves(p) : m = step(e)
      BY <1>1, <1>2, <1>3, <1>4
    <2> QED
      BY <1>3, <2>1
  <1>7. {pair(m) : m \in {n \in legal : IsDrop(n)}} = LegalDropsByLaw(p)
    <2>1. \A m : m \in legal /\ IsDrop(m) <=> \E d \in LegalDropsByLaw(p) : m = DropMove(d)
      BY <1>1, <1>2, <1>3, <1>4, <1>5
    <2> QED
      BY <1>4, <1>5, <2>1
  <1> QED
    BY <1>6, <1>7 DEF legal, entry, pair

-----------------------------------------------------------------------------
(***************************************************************************)
(* The replies to a pawn dropped with check.                               *)
(***************************************************************************)
\* A piece that attacks a square goes on attacking it when a man is taken off
\* another square.
LEMMA FewerMenAttackMore ==
  ASSUME NEW board, NEW fewer, NEW from, NEW to, fewer[from] = board[from],
         \A s : board[s] = Empty => fewer[s] = Empty,
         PieceAttacksSquare(board, from, to)
  PROVE  PieceAttacksSquare(fewer, from, to)
  BY DEF PieceAttacksSquare

\* A pawn that has just been dropped with check is answered by no drop, as long
\* as the king was not in check before: the pawn attacks by a step, so nothing
\* put down comes between.  This is why the replies of generate_legal_mut_internal
\* need no filter for pawn drops of their own, and NoReply has none.
THEOREM NoDropAnswersAPawn ==
  ASSUME NEW p \in Probeable, ~IsInCheck(p, Opponent(p.side)),
         NEW d \in DropsByLaw(p), d[1] = "pawn",
         NEW q, q = MakeLegalProbe(p, DropMove(d)), IsInCheck(q, q.side)
  PROVE  /\ \A m \in ExposureFree(q) : ~IsDrop(m)
         /\ GenerateLegal(q) = ExposureFree(q)
  <1> DEFINE c == p.side
             o == Opponent(c)
             k == q.king[o]
  <1>1. /\ q \in Probeable /\ q.board = AfterDrop(p, d) /\ q.side = o
        /\ p.board \in Boards /\ q.board \in Boards /\ c \in Colors /\ o \in Colors
        /\ Opponent(o) = c /\ o # c
    <2>1. q \in Probeable /\ q.board = AfterDrop(p, d) /\ q.side = o
      BY DropIsProbed
    <2> QED
      BY <2>1, PieceFacts DEF Probeable, Colors, Opponent, Black, White
  <1>2. d[2] \in Squares /\ p.board[d[2]] = Empty
    BY DEF DropsByLaw
  <1>3. /\ q.board[d[2]] = Piece(c, "pawn")
        /\ \A s : s # d[2] => q.board[s] = p.board[s]
    BY <1>1, <1>2 DEF AfterDrop, Boards
  <1>4. /\ k \in Squares /\ q.board[k] = Piece(o, "king") /\ p.board[k] = Piece(o, "king")
    <2>1. k \in Squares /\ q.board[k] = Piece(o, "king")
      BY <1>1, KingIsThere
    <2>2. k # d[2]
      BY <2>1, <1>3, <1>1, PieceIs
    <2> QED
      BY <2>1, <2>2, <1>3
  <1>5. PICK s \in Squares : q.board[s].color = c /\ PieceAttacksSquare(q.board, s, k)
    <2>1. InCheckByLaw(q.board, o)
      BY <1>1, ChecksAreLawful
    <2>2. PICK t \in Squares : q.board[t] = Piece(o, "king") /\ AttackedBy(q.board, c, t)
      BY <2>1, <1>1 DEF InCheckByLaw
    <2>3. t = k
      BY <2>2, <1>1, KingIsThere
    <2> QED
      BY <2>2, <2>3 DEF AttackedBy
  <1>6. s = d[2]
    <2> SUFFICES ASSUME s # d[2] PROVE FALSE
      OBVIOUS
    <2>1. p.board[s] = q.board[s]
      BY <1>3
    <2>2. \A t : q.board[t] = Empty => p.board[t] = Empty
      BY <1>2, <1>3
    <2>3. PieceAttacksSquare(p.board, s, k)
      BY <1>5, <2>1, <2>2, FewerMenAttackMore
    <2>4. InCheckByLaw(p.board, o)
      BY <2>1, <2>3, <1>1, <1>4, <1>5 DEF InCheckByLaw, AttackedBy
    <2> QED
      BY <2>4, <1>1, ChecksAreLawful
  <1>7. /\ s # k
        /\ StepPieceAttacks("pawn", RowOf(k) - RowOf(s), ColOf(k) - ColOf(s), Forward(c))
    <2>1. q.board[s].type = "pawn" /\ q.board[s].color = c
      BY <1>3, <1>6, PieceIs
    <2>2. SlidesOf("pawn", Forward(c)) = {}
      BY DEF SlidesOf
    <2>3. ~Slides(q.board, s, k)
      BY <2>1, <2>2 DEF Slides
    <2> QED
      BY <2>1, <2>3, <1>1, <1>4, <1>5, PieceAttacksIs
  <1>8. ASSUME NEW e \in DropsByLaw(q)
        PROVE  InCheckByLaw(AfterDrop(q, e), o)
    <2> DEFINE after == AfterDrop(q, e)
    <2>1. e[2] \in Squares /\ q.board[e[2]] = Empty
      BY DEF DropsByLaw
    <2>2. e[2] # s /\ e[2] # k
      BY <2>1, <1>1, <1>3, <1>4, <1>6, ColouredIsPiece, PieceIs DEF Piece, Empty, Colors, Black, White
    <2>3. after[s] = Piece(c, "pawn") /\ after[k] = Piece(o, "king")
      BY <2>1, <2>2, <1>1, <1>3, <1>4, <1>6 DEF AfterDrop, Boards
    <2>4. after[s].type = "pawn" /\ after[s].color = c /\ after[s] # Empty
      BY <2>3, <1>1, PieceIs DEF Empty, Colors, Black, White
    <2> HIDE DEF after
    <2>5. PieceAttacksSquare(after, s, k)
      BY <2>4, <1>7 DEF PieceAttacksSquare
    <2> QED
      BY <2>3, <2>4, <2>5, <1>1, <1>4 DEF InCheckByLaw, AttackedBy, after
  <1>9. SafeDrops(q) = {}
    BY <1>1, <1>8 DEF SafeDrops
  <1>10. \A m \in ExposureFree(q) : ~IsDrop(m)
    <2>1. \A m \in ExposureFree(q) : \E e \in SafeMoves(q) : m = BoardMove(q.board, e)
      BY <1>1, <1>9, ExposureIs
    <2> QED
      BY <2>1, <1>1, NotADrop DEF SafeMoves
  <1> QED
    BY <1>10 DEF GenerateLegal, PawnDropChecks

\* A legal move leaves the king of its mover out of check: after it the
\* hypothesis of NoDropAnswersAPawn holds, and only a position set up by hand
\* can be without it.
LEMMA MoverIsSafe ==
  ASSUME NEW p \in Probeable, NEW m \in ExposureFree(p),
         NEW q, q = MakeLegalProbe(p, m)
  PROVE  q \in Probeable /\ Opponent(q.side) = p.side /\ ~IsInCheck(q, p.side)
  <1>1. p.side \in Colors /\ Opponent(Opponent(p.side)) = p.side
    BY DEF Probeable, Colors, Opponent, Black, White
  <1>2. ASSUME NEW e \in SafeMoves(p), m = BoardMove(p.board, e)
        PROVE  /\ q \in Probeable /\ q.side = Opponent(p.side)
               /\ ~InCheckByLaw(q.board, p.side)
    <2>1. e \in BoardMovesByLaw(p) /\ ~InCheckByLaw(AfterMove(p, e), p.side)
      BY DEF SafeMoves
    <2> QED
      BY <1>2, <2>1, MoveIsProbed
  <1>3. ASSUME NEW d \in SafeDrops(p), m = DropMove(d)
        PROVE  /\ q \in Probeable /\ q.side = Opponent(p.side)
               /\ ~InCheckByLaw(q.board, p.side)
    <2>1. d \in DropsByLaw(p) /\ ~InCheckByLaw(AfterDrop(p, d), p.side)
      BY DEF SafeDrops
    <2> QED
      BY <1>3, <2>1, DropIsProbed
  <1>4. \/ \E e \in SafeMoves(p) : m = BoardMove(p.board, e)
        \/ \E d \in SafeDrops(p) : m = DropMove(d)
    BY ExposureIs
  <1>5. /\ q \in Probeable /\ q.side = Opponent(p.side)
        /\ ~InCheckByLaw(q.board, p.side)
    BY <1>2, <1>3, <1>4
  <1> QED
    BY <1>1, <1>5, ChecksAreLawful

\* A game's position is one the generator is right about.
LEMMA SoundIsProbeable ==
  ASSUME NEW p \in Positions, KingsAreCached(p)
  PROVE  p \in Probeable
  <1>1. \A h : h \in Hands => h \in [Colors -> [HandTypes -> Nat]]
    BY DEF Hands
  <1>2. \A n : n \in 1..MaxMoveNumber => n \in Nat
    OBVIOUS
  <1> QED
    BY <1>1, <1>2 DEF Positions, Probeable

-----------------------------------------------------------------------------
(***************************************************************************)
(* The legal moves and the path that makes them.                           *)
(***************************************************************************)
\* The reasons besides the rules why a move is refused: the number of the move
\* or the history is at its limit, or the hand already holds MaxInHand of the
\* piece that would be taken.
HandIsFull(p, m) ==
    /\ ~IsDrop(m) /\ p.board[m.to] # Empty
    /\ p.hand[p.side][UnpromotedType(p.board[m.to].type)] >= MaxInHand

\* The trusted path makes every legal move, but for a counter at its limit: what
\* the generator offers passes the guards that shogi_make_move_internal repeats.
THEOREM LegalMovesCanBeMade ==
  ASSUME NEW p \in Positions, KingsAreCached(p), NEW m \in GenerateLegal(p)
  PROVE  CanMake(p, m) \/ Exhausted(p) \/ HandIsFull(p, m)
  <1> SUFFICES ASSUME ~Exhausted(p), ~HandIsFull(p, m) PROVE CanMake(p, m)
    OBVIOUS
  <1>1. p \in Probeable
    BY SoundIsProbeable
  <1>2. /\ p.board \in Boards /\ p.side \in Colors /\ p.hand \in Hands
    BY DEF Positions
  <1>3. \/ \E e \in SafeMoves(p) : m = BoardMove(p.board, e)
        \/ \E d \in SafeDrops(p) : m = DropMove(d)
    BY <1>1, ExposureIs DEF GenerateLegal
  <1>4. ASSUME NEW e \in SafeMoves(p), m = BoardMove(p.board, e)
        PROVE  CanMake(p, m)
    <2>1. e \in BoardMovesByLaw(p)
      BY DEF SafeMoves
    <2>2. /\ m.from = e.from /\ m.to = e.to /\ m.promote = e.promote /\ m.drop = "empty"
          /\ m.piece = p.board[e.from]
      BY <1>4 DEF BoardMove
    <2>3. ~IsDrop(m)
      BY <1>1, <1>4, <2>1, NotADrop
    <2>4. /\ e.from \in Squares /\ e.to \in Squares
          /\ p.board[e.from].color = p.side
          /\ p.board[e.to].color # p.side /\ p.board[e.to].type # "king"
      BY <1>1, <2>1, BoardMovesTyped
    <2>5. CanCapture(p, p.board[m.to])
      <3> SUFFICES ASSUME p.board[e.to] # Empty
                   PROVE  /\ p.board[e.to].color = Opponent(p.side)
                          /\ p.board[e.to].type # "king"
                          /\ p.hand[p.side][UnpromotedType(p.board[e.to].type)] < MaxInHand
        BY <2>2 DEF CanCapture
      <3>1. /\ p.board[e.to].color \in Colors /\ p.board[e.to].type \in Types
        BY <1>2, <2>4, ColouredIsPiece
      <3>2. p.board[e.to].color = Opponent(p.side)
        BY <3>1, <2>4, <1>2 DEF Colors, Opponent, Black, White
      <3>3. UnpromotedType(p.board[e.to].type) \in HandTypes
        BY <3>1, <2>4, PieceFacts
      <3>4. p.hand[p.side][UnpromotedType(p.board[e.to].type)] \in 0..MaxInHand
        BY <3>3, <1>2 DEF Hands
      <3>5. ~(p.hand[p.side][UnpromotedType(p.board[e.to].type)] >= MaxInHand)
        BY <2>2, <2>3 DEF HandIsFull
      <3> QED
        BY <3>2, <3>4, <3>5, <2>4, LimitsAssumption DEF LimitsAssumption
    <2>6. m.promote => /\ p.board[m.from].type \in Promotable
                       /\ \/ PromotionZone(p.side, RowOf(m.from))
                          \/ PromotionZone(p.side, RowOf(m.to))
      <3>1. e.promote => /\ p.board[e.from].type \in Promotable
                         /\ {RowOf(e.from), RowOf(e.to)} \cap
                              (IF p.side = Black THEN 0..2 ELSE 6..8) # {}
        BY <2>1 DEF BoardMovesByLaw
      <3>2. RowOf(e.from) \in 0..8 /\ RowOf(e.to) \in 0..8
        BY <2>4, Coordinates
      <3> QED
        BY <3>1, <3>2, <2>2, <1>2 DEF PromotionZone, Colors
    <2> QED
      BY <2>2, <2>3, <2>4, <2>5, <2>6 DEF CanMake, CanStep
  <1>5. ASSUME NEW d \in SafeDrops(p), m = DropMove(d)
        PROVE  CanMake(p, m)
    <2>1. d \in DropsByLaw(p)
      BY DEF SafeDrops
    <2>2. /\ d[1] \in HandTypes /\ p.hand[p.side][d[1]] > 0
          /\ d[2] \in Squares /\ p.board[d[2]] = Empty
      BY <2>1 DEF DropsByLaw
    <2>3. IsDrop(m) /\ m.to = d[2] /\ m.drop = d[1] /\ m.promote = FALSE
      BY <1>1, <1>5, <2>1, DropIsProbed DEF DropMove
    <2>4. p.hand[p.side][d[1]] \in 1..MaxInHand
      <3>1. p.hand[p.side][d[1]] \in 0..MaxInHand
        BY <2>2, <1>2 DEF Hands
      <3> QED
        BY <3>1, <2>2
    <2> QED
      BY <2>2, <2>3, <2>4 DEF CanMake, CanDrop
  <1> QED
    BY <1>3, <1>4, <1>5

\* The move made for good and the move probed are the same on the board.
LEMMA MadeIsProbed ==
  ASSUME NEW p \in Positions, NEW m, NEW r, NEW c
  PROVE  /\ MakeMove(p, m, r).side = Opponent(p.side)
         /\ IsInCheck(MakeMove(p, m, r), c) <=> IsInCheck(MakeLegalProbe(p, m), c)
  <1> DEFINE a == MakeMove(p, m, r)
             b == MakeLegalProbe(p, m)
  <1>1. a.board = BoardAfter(p, m) /\ a.side = Opponent(p.side) /\ a.king = KingAfter(p, m)
    BY DEF MakeMove, Recorded, Positions
  <1>2. b.board = BoardAfter(p, m)
    BY DEF MakeLegalProbe, BoardAfter, Positions
  <1>3. b.king = KingAfter(p, m)
    BY DEF MakeLegalProbe, KingAfter, Positions
  <1> HIDE DEF a, b
  <1>4. IsInCheck(a, c) <=> IsInCheck(b, c)
    BY <1>1, <1>2, <1>3 DEF IsInCheck, FindKing
  <1> QED
    BY <1>1, <1>4 DEF a, b

\* A move of the game leaves its mover out of check.
LEMMA GameIsQuiet ==
  ASSUME NEW p \in Positions, KingsAreCached(p), NEW m \in GenerateLegal(p),
         NEW q, q = MakeMove(p, m, TRUE)
  PROVE  ~IsInCheck(q, Opponent(q.side))
  <1>1. p \in Probeable /\ m \in ExposureFree(p)
    BY SoundIsProbeable DEF GenerateLegal
  <1>2. ~IsInCheck(MakeLegalProbe(p, m), p.side)
    BY <1>1, MoverIsSafe
  <1>3. p.side \in Colors /\ Opponent(Opponent(p.side)) = p.side
    BY DEF Positions, Colors, Opponent, Black, White
  <1> QED
    BY <1>2, <1>3, MadeIsProbed

-----------------------------------------------------------------------------
(***************************************************************************)
(* Along the games and the walk of the brute-force search.                 *)
(***************************************************************************)
\* The walk plays moves of the game.
LEMMA WalkPreserves == IInv /\ [Next \/ Deepen]_vars => IInv'
  <1>1. Deepen => \E m : GameMove(m)
    BY DEF Deepen, GameMove
  <1> QED
    BY <1>1, GamePreserves, StepPreserves

\* What the generator returns where a search begins is what the law allows, for
\* all openings, bounds and games: the moves accepted unprobed, the evasions,
\* the promotions, two pawns on a file, dead ranks, the pawn drop that mates.
THEOREM LegalMovesAreLawful == LawSpec => []LegalIsLawful
  <1>1. IInv => LegalIsLawful
    <2> SUFFICES ASSUME IInv PROVE LegalIsLawful
      OBVIOUS
    <2>1. Sound(pos)
      BY EndOfLine
    <2>2. pos \in Probeable
      BY <2>1, SoundIsProbeable DEF Sound
    <2> QED
      BY <2>2, GeneratorIsLawful DEF LegalIsLawful
  <1> QED
    BY <1>1, StartsSound, WalkPreserves, PTL DEF LawSpec

\* The side that is not to move is not in check where the game stands.
RootIsQuiet == ~IsInCheck(line[1], Opponent(line[1].side))
QuietOpenings ==
    \A o \in Openings :
        LET p == NewPosition(o.board, o.hand, o.side, o.number)
        IN  ~IsInCheck(p, Opponent(p.side))

\* The game and the walk leave it so; a search keeps the root it started from.
LEMMA QuietPreserves == IInv /\ RootIsQuiet /\ [Next \/ Deepen]_vars => RootIsQuiet'
  <1> SUFFICES ASSUME IInv, RootIsQuiet, [Next \/ Deepen]_vars PROVE RootIsQuiet'
    OBVIOUS
  <1>1. /\ Sound(pos) /\ pos \in Positions /\ KingsAreCached(pos)
        /\ Len(undos) \in Nat /\ Len(line) = Len(undos) + 1 /\ line \in Seq(Positions)
    BY EndOfLine DEF Sound
  <1>2. ASSUME NEW m, GameMove(m) PROVE RootIsQuiet'
    <2>1. pos' = MakeMove(pos, m, TRUE) /\ line' = <<pos'>> /\ m \in GenerateLegal(pos)
      BY <1>2 DEF GameMove, Play
    <2>2. line'[1] = pos'
      BY <2>1
    <2>3. ~IsInCheck(pos', Opponent(pos'.side))
      BY <1>1, <2>1, GameIsQuiet
    <2> QED
      BY <2>2, <2>3 DEF RootIsQuiet
  <1>3. CASE line'[1] = line[1]
    BY <1>3 DEF RootIsQuiet
  <1>4. ASSUME NEW x, line' = Append(line, x) PROVE line'[1] = line[1]
    BY <1>1, <1>4
  <1>5. ASSUME NEW m, SearchMove(m) PROVE RootIsQuiet'
    BY <1>3, <1>4, <1>5 DEF SearchMove
  <1>6. CASE SearchNullMove
    BY <1>3, <1>4, <1>6 DEF SearchNullMove
  <1>7. CASE Unmake
    <2>1. undos # <<>> /\ line' = SubSeq(line, 1, Len(line) - 1)
      BY <1>7 DEF Unmake
    <2>2. PICK S : undos \in Seq(S)
      BY DEF IInv, UndosAreRecords
    <2>3. Len(undos) # 0
      BY <2>1, <2>2
    <2>4. line'[1] = line[1]
      BY <1>1, <2>1, <2>3
    <2> QED
      BY <1>3, <2>4
  <1>8. CASE SetBookkeeping \/ UNCHANGED vars
    BY <1>3, <1>8 DEF SetBookkeeping, vars
  <1>9. Deepen => \E m : GameMove(m)
    BY DEF Deepen, GameMove
  <1> QED
    BY <1>2, <1>5, <1>6, <1>7, <1>8, <1>9 DEF Next

\* From openings in which the side that is not to move is not in check: wherever
\* a search begins, the generator's call of itself for the replies to a pawn drop
\* with check returns what ExposureFree does, so the filter of that inner call
\* never bites and judging mate without it is exact.
RepliesAreExact ==
    undos = <<>> =>
        \A m \in ExposureFree(pos) :
            LET q == MakeLegalProbe(pos, m)
            IN  PawnDropChecks(m, q) => GenerateLegal(q) = ExposureFree(q)

THEOREM MateByDropIsJudgedExactly ==
  ASSUME QuietOpenings
  PROVE  LawSpec => []RepliesAreExact
  <1>1. Init => RootIsQuiet
    <2> SUFFICES ASSUME Init PROVE RootIsQuiet
      OBVIOUS
    <2>1. PICK o \in Openings : pos = NewPosition(o.board, o.hand, o.side, o.number)
      BY DEF Init
    <2>2. line[1] = pos
      BY DEF Init
    <2> QED
      BY <2>1, <2>2 DEF QuietOpenings, RootIsQuiet
  <1>2. IInv /\ RootIsQuiet => RepliesAreExact
    <2> SUFFICES ASSUME IInv, RootIsQuiet, undos = <<>>,
                        NEW m \in ExposureFree(pos), NEW q, q = MakeLegalProbe(pos, m),
                        PawnDropChecks(m, q)
                 PROVE  GenerateLegal(q) = ExposureFree(q)
      BY DEF RepliesAreExact
    <2>1. Sound(pos) /\ line[Len(line)] = pos /\ Len(line) = Len(undos) + 1
      BY EndOfLine
    <2>2. line[1] = pos
      BY <2>1
    <2>3. pos \in Probeable /\ ~IsInCheck(pos, Opponent(pos.side))
      BY <2>1, <2>2, SoundIsProbeable DEF Sound, RootIsQuiet
    <2>4. IsDrop(m) /\ m.drop = "pawn" /\ IsInCheck(q, q.side)
      BY DEF PawnDropChecks
    <2>5. PICK d \in SafeDrops(pos) : m = DropMove(d)
      <3>1. \A e \in SafeMoves(pos) : ~IsDrop(BoardMove(pos.board, e))
        BY <2>3, NotADrop DEF SafeMoves
      <3> QED
        BY <2>3, <2>4, <3>1, ExposureIs
    <2>6. d \in DropsByLaw(pos) /\ d[1] = "pawn"
      BY <2>4, <2>5 DEF SafeDrops, DropMove
    <2> QED
      BY <2>3, <2>4, <2>5, <2>6, NoDropAnswersAPawn
  <1> QED
    BY <1>1, <1>2, StartsSound, WalkPreserves, QuietPreserves, PTL DEF LawSpec
=============================================================================
