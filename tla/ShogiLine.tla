----------------------------- MODULE ShogiLine -----------------------------
(***************************************************************************)
(* One position that lives through a game and through the searches on it.  *)
(* The game advances by shogi_parse_and_make_move; between two moves of    *)
(* the game a search descends by shogi_make_move_undo_fast (and, once, by  *)
(* a null move) and comes back by shogi_unmake_move.  The flag of the fast *)
(* path, fast_check_bookkeeping, is set before a search starts.            *)
(*                                                                         *)
(* past and line are history variables, no part of the program: past is    *)
(* the game and the line searched, as a referee would write them down,     *)
(* line the positions from the root of the search to the present one.      *)
(***************************************************************************)
EXTENDS ShogiMake

CONSTANTS
    Openings,     \* positions set up by SFEN: records of board, hand, side and number
    Menu          \* bound: the moves [from, to, promote, drop] tried in a run

\* What shogi_position_from_sfen accepts: a board with one king of each side,
\* whatever the other pieces are (validate_material asks for more).
ASSUME OpeningsAssumption ==
    \A o \in Openings :
        /\ o.board \in Boards
        /\ o.hand \in Hands
        /\ o.side \in Colors
        /\ o.number \in 1..MaxMoveNumber
        /\ \A c \in Colors : \E s \in Squares : KingSquares(o.board, c) = {s}

VARIABLES
    pos,          \* the ShogiPosition
    undos,        \* the undo records of the search, the last on top
    bookkeeping,  \* fast_check_bookkeeping of the worker
    past,         \* history variable: the moves played, as the rules see them
    line          \* history variable: the positions below the root, root first

vars == <<pos, undos, bookkeeping, past, line>>

NullUndo == [kind |-> "null"]
MoveUndo(u) == [kind |-> "move", undo |-> u]
UnderNull == \E i \in DOMAIN undos : undos[i].kind = "null"

OnMenu(m) == [from |-> m.from, to |-> m.to, promote |-> m.promote, drop |-> m.drop] \in Menu

\* What the referee writes down of a position and of the move that led to it.
Record(p, mover, check) ==
    [board |-> p.board, hand |-> p.hand, side |-> p.side, mover |-> mover, check |-> check]

Init ==
    /\ \E o \in Openings : pos = NewPosition(o.board, o.hand, o.side, o.number)
    /\ undos = <<>>
    /\ bookkeeping \in BOOLEAN
    /\ past = <<Record(pos, NoMover, FALSE)>>
    /\ line = <<pos>>

\* A move that is known to be legal is made for good.
Play(m) ==
    /\ undos = <<>>
    /\ CanMake(pos, m)
    /\ pos' = MakeMove(pos, m, TRUE)
    /\ past' = Append(past, Record(pos', pos.side, IsInCheck(pos', pos'.side)))
    /\ line' = <<pos'>>
    /\ UNCHANGED <<undos, bookkeeping>>

\* shogi_parse_and_make_move: a legal move of the game.
GameMove(m) == Play(m) /\ m \in GenerateLegal(pos)

\* worker_make_move and search_static_exchange: the fast path, also with
\* pseudo-legal moves that are taken back at once.
SearchMove(m) ==
    /\ m \in GeneratePseudo(pos, pos.side)
    /\ CanMakeFast(pos, m)
    /\ pos' = MakeMoveFast(pos, m, bookkeeping)
    /\ undos' = Append(undos, MoveUndo(UndoFast(pos, m)))
    /\ past' = Append(past, Record(pos', pos.side, IsInCheck(pos', pos'.side)))
    /\ line' = Append(line, pos')
    /\ UNCHANGED bookkeeping

\* The null move of the alpha-beta search: never in check, never twice.
SearchNullMove ==
    /\ ~UnderNull
    /\ undos # <<>>
    /\ ~IsInCheck(pos, pos.side)
    /\ pos' = NullMove(pos)
    /\ undos' = Append(undos, NullUndo)
    /\ line' = Append(line, pos')
    /\ UNCHANGED <<bookkeeping, past>>

\* The way back: shogi_unmake_move, or the null move once more.
Unmake ==
    /\ undos # <<>>
    /\ LET top == undos[Len(undos)] IN
       IF top.kind = "null"
       THEN /\ pos' = NullMove(pos)
            /\ UNCHANGED past
       ELSE /\ pos' = UnmakeMove(pos, top.undo)
            /\ past' = SubSeq(past, 1, Len(past) - 1)
    /\ undos' = SubSeq(undos, 1, Len(undos) - 1)
    /\ line' = SubSeq(line, 1, Len(line) - 1)
    /\ UNCHANGED bookkeeping

\* worker_main sets the flag of its thread before it searches.
SetBookkeeping ==
    /\ undos = <<>>
    /\ bookkeeping' = ~bookkeeping
    /\ UNCHANGED <<pos, undos, past, line>>

Next ==
    \/ \E m \in {n \in GeneratePseudo(pos, pos.side) : OnMenu(n)} : GameMove(m) \/ SearchMove(m)
    \/ SearchNullMove
    \/ Unmake
    \/ SetBookkeeping

Spec == Init /\ [][Next]_vars

-----------------------------------------------------------------------------
\* The positions and the stacks have the shape the code gives them: no counter
\* outgrows its array, and there is an undo record for every step of the line.
TypeOK ==
    /\ pos \in Positions
    /\ bookkeeping \in BOOLEAN
    /\ line \in Seq(Positions)
    /\ Len(line) = Len(undos) + 1
    /\ \A i \in DOMAIN undos : undos[i].kind \in {"move", "null"}

\* The hash kept up move by move is the hash of the board, the hands and the
\* side: a lost or doubled term would make the search mistake one position for
\* another.
HashIsPosition == HashIsRight(pos)

\* The cached king squares are the squares the kings are on.
KingCacheIsRight == KingsAreCached(pos)

\* Taking the undo records off one by one gives back every position of the
\* line, history, hash and king cache included.
Before(p, u) == IF u.kind = "null" THEN NullMove(p) ELSE UnmakeMove(p, u.undo)
UndosRewind ==
    /\ line[Len(line)] = pos
    /\ \A i \in DOMAIN undos : Before(line[i + 1], undos[i]) = line[i]

\* The moves any caller may pass, malformed ones included.
Attempts ==
    {[from |-> e.from, to |-> e.to, piece |-> q, promote |-> e.promote, drop |-> e.drop] :
        e \in Menu, q \in {Empty, Piece(Black, "rook"), Piece(White, "silver")}}

\* The fast path of the search and the trusted path accept the same moves,
\* remember the same and lead to the same position.
FastPathIsTrusted ==
    \A m \in Attempts :
        /\ CanMakeFast(pos, m) <=> CanMake(pos, m)
        /\ CanMake(pos, m) => /\ UndoFast(pos, m) = Undo(pos, m)
                              /\ MakeMoveFast(pos, m, TRUE) = MakeMove(pos, m, TRUE)

(***************************************************************************)
(* Sennichite, from the referee's notes: the position has occurred         *)
(* RepetitionCount times; a side that has given check with every move of   *)
(* its own since the first of these occurrences loses.                     *)
(***************************************************************************)
Now == past[Len(past)]
SameAsNow == {i \in DOMAIN past : past[i].board = Now.board /\ past[i].hand = Now.hand
                                  /\ past[i].side = Now.side}
Perpetual(c) ==
    LET start == Nearest(LastOnes(SameAsNow))
        mine == {i \in (start + 1)..Len(past) : past[i].mover = c}
    IN  mine # {} /\ \A i \in mine : past[i].check
Sennichite ==
    IF Cardinality(SameAsNow) < RepetitionCount THEN "none"
    ELSE IF Perpetual(Black) THEN "white_win"
    ELSE IF Perpetual(White) THEN "black_win" ELSE "draw"

\* The verdict of the engine is the referee's.  A search without bookkeeping
\* does not see the checks of its own line: it may call a perpetual check a draw,
\* or name the other side when that one, too, has given check with every move,
\* but never a side that has not.  A full history may miss a repetition and the
\* checks after it; it invents no repetition.
RepetitionVerdict ==
    ~UnderNull =>
        LET verdict == RepetitionResult(pos) IN
        IF Len(past) > MaxHistory
        THEN verdict # "none" => Sennichite # "none"
        ELSE \/ verdict = Sennichite
             \/ /\ ~bookkeeping /\ undos # <<>> /\ Sennichite # "none"
                /\ \/ verdict = "draw"
                   \/ \E c \in Colors : Perpetual(c) /\ verdict = WinnerOver(c)
=============================================================================
