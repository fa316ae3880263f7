----------------------------- MODULE ShogiMake -----------------------------
(***************************************************************************)
(* Making and unmaking a move on a position, the incremental hash, the     *)
(* history and the repetition verdict of src/shogi.c, as operators on      *)
(* positions.  There are two ways to make a move, written twice in the     *)
(* code: the trusted one (shogi_make_move_internal, shogi_make_move_undo)  *)
(* and the fast one of the search (shogi_make_move_undo_fast).             *)
(*                                                                         *)
(* A hash is the set of the Zobrist numbers whose exclusive or it is, so   *)
(* two different sets never collide.  history, history_mover and           *)
(* history_check, valid up to history_length, are one sequence.            *)
(***************************************************************************)
EXTENDS ShogiRules

CONSTANTS
    MaxHistory,        \* SHOGI_MAX_HISTORY
    MaxMoveNumber,     \* UINT_MAX
    RepetitionCount,   \* SHOGI_REPETITION_COUNT
    MaxInHand          \* the largest count with a Zobrist number, 18

ASSUME LimitsAssumption ==
    /\ MaxHistory \in Nat /\ MaxHistory >= 1
    /\ MaxMoveNumber \in Nat /\ MaxMoveNumber >= 1
    /\ RepetitionCount \in Nat /\ RepetitionCount >= 2
    /\ MaxInHand \in Nat /\ MaxInHand >= 1

\* HISTORY_MOVER_NONE, the mover of the first position of a history.
NoMover == "none"

-----------------------------------------------------------------------------
(***************************************************************************)
(* The hash.  Exclusive or of two hashes is their symmetric difference.    *)
(***************************************************************************)
BoardKey(s, piece) == <<"board", s, piece.color, piece.type>>
HandKey(c, t, n) == <<"hand", c, t, n>>
SideKey == <<"side", 0, 0, 0>>
Xor(A, B) == (A \ B) \cup (B \ A)

\* position_hash: the hash computed from scratch.
PositionHash(board, hand, side) ==
    {BoardKey(s, board[s]) : s \in {q \in Squares : board[q] # Empty}}
    \cup {HandKey(c, t, hand[c][t]) : c \in Colors, t \in HandTypes}
    \cup (IF side = White THEN {SideKey} ELSE {})

\* The end of shogi_position_from_sfen and reset_history, on a board just set up:
\* king cache, hash and a history of one.
NewPosition(board, hand, side, number) ==
    LET hash == PositionHash(board, hand, side) IN
    [board |-> board, hand |-> hand, side |-> side, number |-> number, hash |-> hash,
     king |-> [c \in Colors |-> IF KingSquares(board, c) = {} THEN NoSquare
                                ELSE Nearest(KingSquares(board, c))],
     history |-> <<[hash |-> hash, mover |-> NoMover, check |-> FALSE]>>]

Boards == [Squares -> Pieces \cup {Empty}]
Hands == [Colors -> [HandTypes -> 0..MaxInHand]]
Keys == {BoardKey(s, piece) : s \in Squares, piece \in Pieces}
        \cup {HandKey(c, t, n) : c \in Colors, t \in HandTypes, n \in 0..MaxInHand}
        \cup {SideKey}
HistoryEntries == [hash : SUBSET Keys, mover : Colors \cup {NoMover}, check : BOOLEAN]

\* A ShogiPosition in use: its counters are within their arrays and types.
Positions ==
    {p \in [board : Boards, hand : Hands, side : Colors, number : 1..MaxMoveNumber,
            hash : SUBSET Keys, king : [Colors -> Squares \cup {NoSquare}],
            history : Seq(HistoryEntries)] : Len(p.history) \in 1..MaxHistory}

\* The hash kept up move by move is the hash of the board, the hands and the
\* side; the cached king squares are the squares of the kings.
HashIsRight(p) == p.hash = PositionHash(p.board, p.hand, p.side)
KingsAreCached(p) == \A c \in Colors : KingSquares(p.board, c) = {p.king[c]}

-----------------------------------------------------------------------------
(***************************************************************************)
(* The trusted path.                                                       *)
(***************************************************************************)
\* A counter of the position is exhausted.
Exhausted(p) == p.number = MaxMoveNumber \/ Len(p.history) > MaxHistory

CanDrop(p, m) ==
    /\ ~m.promote
    /\ m.drop \in HandTypes
    /\ p.hand[p.side][m.drop] \in 1..MaxInHand
    /\ p.board[m.to] = Empty

CanCapture(p, captured) ==
    captured # Empty =>
        /\ captured.color = Opponent(p.side)
        /\ captured.type # "king"
        /\ p.hand[p.side][UnpromotedType(captured.type)] < MaxInHand

CanStep(p, m) ==
    LET moving == p.board[m.from] IN
    /\ m.from \in Squares
    /\ m.drop = "empty"
    /\ moving.color = p.side
    /\ m.piece \in {Empty, moving}
    /\ m.promote => /\ moving.type \in Promotable
                    /\ \/ PromotionZone(p.side, RowOf(m.from))
                       \/ PromotionZone(p.side, RowOf(m.to))
    /\ CanCapture(p, p.board[m.to])

\* When shogi_make_move_internal answers true.
CanMake(p, m) ==
    /\ m.to \in Squares
    /\ ~Exhausted(p)
    /\ IF IsDrop(m) THEN CanDrop(p, m) ELSE CanStep(p, m)

HandAfter(p, m) ==
    LET c == p.side IN
    IF IsDrop(m) THEN [p.hand EXCEPT ![c][m.drop] = @ - 1]
    ELSE IF p.board[m.to] = Empty THEN p.hand
    ELSE [p.hand EXCEPT ![c][UnpromotedType(p.board[m.to].type)] = @ + 1]

BoardAfter(p, m) ==
    LET landed == Landed(p.board, p.side, m) IN
    IF IsDrop(m) THEN [p.board EXCEPT ![m.to] = landed]
    ELSE [p.board EXCEPT ![m.from] = Empty, ![m.to] = landed]

KingAfter(p, m) ==
    IF Landed(p.board, p.side, m).type = "king" THEN [p.king EXCEPT ![p.side] = m.to]
    ELSE p.king

\* The Zobrist numbers of a hand count that changes from n to k.
Recount(c, t, n, k) == Xor({HandKey(c, t, n)}, {HandKey(c, t, k)})

\* Mutant: the piece captured stays in the hash.
Bug_HashAfter(p, m) ==
    LET c == p.side
        captured == p.board[m.to]
        t == UnpromotedType(captured.type)
        turned == Xor(p.hash, {SideKey})
        lifted == IF IsDrop(m)
                  THEN Xor(turned, Recount(c, m.drop, p.hand[c][m.drop],
                                           p.hand[c][m.drop] - 1))
                  ELSE Xor(turned, {BoardKey(m.from, p.board[m.from])})
        taken == IF IsDrop(m) \/ captured = Empty THEN lifted
                 ELSE Xor(lifted, Recount(c, t, p.hand[c][t], p.hand[c][t] + 1))
    IN  Xor(taken, {BoardKey(m.to, Landed(p.board, c, m))})

HashAfter(p, m) ==
    LET c == p.side
        captured == p.board[m.to]
        t == UnpromotedType(captured.type)
        turned == Xor(p.hash, {SideKey})
        lifted == IF IsDrop(m)
                  THEN Xor(turned, Recount(c, m.drop, p.hand[c][m.drop],
                                           p.hand[c][m.drop] - 1))
                  ELSE Xor(turned, {BoardKey(m.from, p.board[m.from])})
        taken == IF IsDrop(m) \/ captured = Empty THEN lifted
                 ELSE Xor(Xor(lifted, {BoardKey(m.to, captured)}),
                          Recount(c, t, p.hand[c][t], p.hand[c][t] + 1))
    IN  Xor(taken, {BoardKey(m.to, Landed(p.board, c, m))})

\* The move is recorded as long as there is room: a full history stays as it is.
Recorded(q, mover, recordCheck) ==
    IF Len(q.history) < MaxHistory
    THEN [q EXCEPT !.history = Append(@,
            [hash |-> q.hash, mover |-> mover,
             check |-> recordCheck /\ IsInCheck(q, q.side)])]
    ELSE q

\* shogi_make_move_internal, when CanMake.
MakeMove(p, m, recordCheck) ==
    Recorded([p EXCEPT !.board = BoardAfter(p, m), !.hand = HandAfter(p, m),
                       !.king = KingAfter(p, m), !.hash = HashAfter(p, m),
                       !.side = Opponent(p.side), !.number = @ + 1],
             p.side, recordCheck)

\* What shogi_make_move_undo remembers.
Undo(p, m) ==
    LET captured == IF IsDrop(m) THEN Empty ELSE p.board[m.to]
        type == IF IsDrop(m) THEN m.drop ELSE UnpromotedType(captured.type)
        touched == IsDrop(m) \/ captured # Empty
        last == p.history[Len(p.history)]
    IN  [move |-> m, color |-> p.side,
         moving |-> IF IsDrop(m) THEN Piece(p.side, m.drop) ELSE p.board[m.from],
         captured |-> captured, index |-> type, touched |-> touched,
         before |-> IF touched THEN p.hand[p.side][type] ELSE 0,
         number |-> p.number, hash |-> p.hash, length |-> Len(p.history),
         mover |-> last.mover, check |-> last.check, king |-> p.king]

BoardBefore(p, u) ==
    IF IsDrop(u.move) THEN [p.board EXCEPT ![u.move.to] = Empty]
    ELSE [p.board EXCEPT ![u.move.from] = u.moving, ![u.move.to] = u.captured]
HandBefore(p, u) ==
    IF u.touched THEN [p.hand EXCEPT ![u.color][u.index] = u.before] ELSE p.hand
HistoryBefore(p, u) ==
    [SubSeq(p.history, 1, u.length) EXCEPT
        ![u.length] = [@ EXCEPT !.mover = u.mover, !.check = u.check]]

\* Mutant: the king cache is left where the move put it.
Bug_UnmakeMove(p, u) ==
    [p EXCEPT !.board = BoardBefore(p, u), !.hand = HandBefore(p, u), !.side = u.color,
              !.number = u.number, !.hash = u.hash, !.history = HistoryBefore(p, u)]

\* shogi_unmake_move, of a valid undo record.
UnmakeMove(p, u) ==
    [p EXCEPT !.board = BoardBefore(p, u), !.hand = HandBefore(p, u), !.side = u.color,
              !.number = u.number, !.hash = u.hash, !.king = u.king,
              !.history = HistoryBefore(p, u)]

-----------------------------------------------------------------------------
(***************************************************************************)
(* The fast path, written apart in the code: guards, undo record and hash  *)
(* in one pass.  `bookkeeping' is the flag of the worker that makes the    *)
(* move.                                                                   *)
(***************************************************************************)
\* Mutant: the fast path trusts the piece the move names.
Bug_CanMakeFast(p, m) ==
    /\ m.to \in Squares
    /\ ~Exhausted(p)
    /\ IF IsDrop(m) THEN CanDrop(p, m)
       ELSE CanStep(p, [m EXCEPT !.piece = Empty])

CanMakeFast(p, m) ==
    LET c == p.side
        moving == p.board[m.from]
        captured == p.board[m.to]
    IN  /\ m.to \in Squares
        /\ ~Exhausted(p)
        /\ IF IsDrop(m)
           THEN /\ m.drop \in HandTypes
                /\ ~m.promote
                /\ p.hand[c][m.drop] \in 1..MaxInHand
                /\ captured = Empty
           ELSE /\ m.from \in Squares
                /\ m.drop = "empty"
                /\ moving.color = c
                /\ m.piece = Empty \/ m.piece = moving
                /\ m.promote => /\ moving.type \in Promotable
                                /\ \/ PromotionZone(c, RowOf(m.from))
                                   \/ PromotionZone(c, RowOf(m.to))
                /\ captured # Empty => /\ captured.color = Opponent(c)
                                       /\ captured.type # "king"
                                       /\ p.hand[c][UnpromotedType(captured.type)] < MaxInHand

UndoFast(p, m) ==
    LET c == p.side
        captured == IF IsDrop(m) THEN Empty ELSE p.board[m.to]
        type == IF IsDrop(m) THEN m.drop ELSE UnpromotedType(captured.type)
    IN  [move |-> m, color |-> c,
         moving |-> IF IsDrop(m) THEN Piece(c, m.drop) ELSE p.board[m.from],
         captured |-> captured, index |-> type,
         touched |-> IsDrop(m) \/ captured # Empty,
         before |-> IF IsDrop(m) \/ captured # Empty THEN p.hand[c][type] ELSE 0,
         number |-> p.number, hash |-> p.hash, length |-> Len(p.history),
         mover |-> p.history[Len(p.history)].mover,
         check |-> p.history[Len(p.history)].check, king |-> p.king]

MakeMoveFast(p, m, bookkeeping) ==
    LET c == p.side
        u == UndoFast(p, m)
        n == u.before
        landed == IF ~IsDrop(m) /\ m.promote THEN Piece(c, PromotedType(u.moving.type))
                  ELSE u.moving
        turned == Xor(p.hash, {SideKey})
        hash == IF IsDrop(m) THEN Xor(turned, Recount(c, u.index, n, n - 1))
                ELSE IF u.captured = Empty
                THEN Xor(turned, {BoardKey(m.from, u.moving)})
                ELSE Xor(Xor(Xor(turned, {BoardKey(m.from, u.moving)}),
                             {BoardKey(m.to, u.captured)}), Recount(c, u.index, n, n + 1))
    IN  Recorded([p EXCEPT
           !.board = IF IsDrop(m) THEN [@ EXCEPT ![m.to] = landed]
                     ELSE [@ EXCEPT ![m.from] = Empty, ![m.to] = landed],
           !.hand = IF u.touched
                    THEN [@ EXCEPT ![c][u.index] = IF IsDrop(m) THEN n - 1 ELSE n + 1]
                    ELSE @,
           !.king = IF landed.type = "king" THEN [@ EXCEPT ![c] = m.to] ELSE @,
           !.hash = Xor(hash, {BoardKey(m.to, landed)}),
           !.side = Opponent(c), !.number = @ + 1], c, bookkeeping)

\* shogi_search_null_move: side and hash only.  It undoes itself.
NullMove(p) == [p EXCEPT !.side = Opponent(@), !.hash = Xor(@, {SideKey})]

-----------------------------------------------------------------------------
(***************************************************************************)
(* Repetition.  The verdict "none" is an answer of false.                  *)
(***************************************************************************)
\* The last RepetitionCount indices of the current position in the history.
Occurrences(p) == {i \in DOMAIN p.history : p.history[i].hash = p.hash}
LastOnes(indices) ==
    {i \in indices : Cardinality({j \in indices : j > i}) < RepetitionCount}

\* Mutant: one check is enough.
Bug_PerpetualSince(history, start, c) ==
    \E i \in (start + 1)..Len(history) : history[i].mover = c /\ history[i].check

\* A colour all of whose moves since `start' were recorded as checks.
PerpetualSince(history, start, c) ==
    LET mine == {i \in (start + 1)..Len(history) : history[i].mover = c}
    IN  mine # {} /\ \A i \in mine : history[i].check

WinnerOver(c) == IF c = Black THEN "white_win" ELSE "black_win"

\* shogi_repetition_result: black is examined first.
RepetitionResult(p) ==
    LET occurrences == Occurrences(p)
        start == Nearest(LastOnes(occurrences))
    IN  IF Cardinality(occurrences) < RepetitionCount THEN "none"
        ELSE IF PerpetualSince(p.history, start, Black) THEN WinnerOver(Black)
        ELSE IF PerpetualSince(p.history, start, White) THEN WinnerOver(White)
        ELSE "draw"

\* shogi_game_result: repetition, then declaration, then the legal moves.
GameResult(p) ==
    LET repetition == RepetitionResult(p) IN
    IF repetition # "none" THEN repetition
    ELSE IF IsDeclarationWin(p, p.side) THEN WinnerOver(Opponent(p.side))
    ELSE IF GenerateLegal(p) = {} THEN WinnerOver(p.side)
    ELSE "ongoing"
=============================================================================
