----------------------------- MODULE NnueState -----------------------------
(***************************************************************************)
(* The evaluator state of the NNUE network, kept up move by move while a   *)
(* search goes down and up a line (src/nnue.c, the callbacks of            *)
(* src/main.c, worker_make_move and its kin of src/search.c), with the     *)
(* cache of static evaluations the worker keys by the same hash.  It       *)
(* composes with ShogiLine: every move made or unmade is a step of the     *)
(* position and of the state.                                              *)
(*                                                                         *)
(* A sum of feature rows is the function from the features whose rows are  *)
(* in it to how often they are (an integer; a feature left out counts 0):  *)
(* the first layer is linear, so the sum of the code is the image of this  *)
(* one under any weights.  A score is a function of the sum, the view and  *)
(* the model, and is represented by the sum.  Left out: the growth of the  *)
(* stacks past 256 levels, which succeeds or undoes the move as a whole,   *)
(* and the excursions of the static exchange, which evaluate nothing.      *)
(***************************************************************************)
EXTENDS ShogiLine

CONSTANT Slot(_)      \* the slot of a hash: its low bits

VARIABLES
    mode,      \* "idle", or the search under way: a "worker" descends and
               \* comes back, a "lane" may rewind; "rewinding" is half of that
    view,      \* job->root_side: the perspective of every evaluation
    acc,       \* worker->eval_state or the state of the lane
    saved,     \* the state set aside during a null move
    scores     \* worker->eval_cache: entries [hash, sum]

stateVars == <<mode, view, acc, saved, scores>>

-----------------------------------------------------------------------------
(***************************************************************************)
(* Features and sums.                                                      *)
(***************************************************************************)
\* orient_square: white sees the board turned round.
Oriented(s, c) == IF c = Black \/ s = NoSquare THEN s ELSE 80 - s

Relative(owner, c) == IF owner = c THEN 0 ELSE 1

BoardFeature(king, s, piece, c) ==
    <<"board", Relative(piece.color, c), piece.type, Oriented(s, c), Oriented(king, c)>>
HandFeature(owner, t, n, c) ==
    <<"hand", Relative(owner, c), t, IF n > MaxInHand THEN MaxInHand ELSE n, 0>>

\* shogi_nnue_feature_ids: none at all when the cached king square is wrong.
FeatureIds(p, c) ==
    IF p.king[c] \notin KingSquares(p.board, c) THEN {}
    ELSE {BoardFeature(p.king[c], s, p.board[s], c) : s \in {q \in Squares : p.board[q] # Empty}}
         \cup {HandFeature(o, t, p.hand[o][t], c) : o \in Colors, t \in HandTypes}

ZeroSum == [f \in {} |-> 0]
Count(sum, f) == IF f \in DOMAIN sum THEN sum[f] ELSE 0

\* tinyshogi_add_i16_i32_rows, of rows that are all different.
AddRows(sum, ids, sign) ==
    LET count(f) == Count(sum, f) + (IF f \in ids THEN sign ELSE 0)
    IN  [f \in {g \in DOMAIN sum \cup ids : count(g) # 0} |-> count(f)]

\* shogi_nnue_state_reset, build_perspective: the sum computed from scratch.
FreshSum(p, c) == AddRows(ZeroSum, FeatureIds(p, c), 1)

-----------------------------------------------------------------------------
(***************************************************************************)
(* The state.  Its king cache remembers the sums of positions after a move *)
(* of the own king, each of which moves every feature of the board; deltas *)
(* and rebuild_sums, two arrays with one depth, are one sequence.          *)
(***************************************************************************)
NoState == [view |-> "none", sum |-> ZeroSum, root |-> ZeroSum, deltas |-> <<>>, cache |-> {}]

Created(p, c) ==
    [view |-> c, sum |-> FreshSum(p, c), root |-> FreshSum(p, c), deltas |-> <<>>, cache |-> {}]

\* A cache of one entry per slot takes an entry.
Keep(cache, e) == {x \in cache : Slot(x.hash) # Slot(e.hash)} \cup {e}

Rebuilds(u, c) == u.moving # Empty /\ u.moving.type = "king" /\ u.color = c

\* The features a move takes away and brings, as seen from the position after.
Removed(after, u, c) ==
    (IF IsDrop(u.move) THEN {}
     ELSE {BoardFeature(after.king[c], u.move.from, u.moving, c)}
          \cup (IF u.captured # Empty
                THEN {BoardFeature(after.king[c], u.move.to, u.captured, c)} ELSE {}))
    \cup (IF u.touched THEN {HandFeature(u.color, u.index, u.before, c)} ELSE {})
Added(after, u, c) ==
    {BoardFeature(after.king[c], u.move.to, after.board[u.move.to], c)}
    \cup (IF u.touched THEN {HandFeature(u.color, u.index, after.hand[u.color][u.index], c)}
          ELSE {})

Rebuild(sum) == [rebuild |-> TRUE, removed |-> {}, added |-> {}, before |-> sum]
Delta(removed, added) ==
    [rebuild |-> FALSE, removed |-> removed, added |-> added, before |-> ZeroSum]

\* The sum after a move of the own king: the one kept for that hash, or a new one.
SumOfRebuild(st, after) ==
    IF \E e \in st.cache : e.hash = after.hash
    THEN (CHOOSE e \in st.cache : e.hash = after.hash).sum
    ELSE FreshSum(after, st.view)

\* Mutant: the sum is kept under the hash of its slot's last entry.
Bug_StateMake(st, after, u) ==
    IF Rebuilds(u, st.view)
    THEN LET sum == SumOfRebuild(st, after) IN
         [st EXCEPT !.sum = sum, !.deltas = Append(@, Rebuild(st.sum)),
                    !.cache = Keep(@, [hash |-> u.hash, sum |-> sum])]
    ELSE LET removed == Removed(after, u, st.view)
             added == Added(after, u, st.view)
         IN  [st EXCEPT !.sum = AddRows(AddRows(@, removed, -1), added, 1),
                        !.deltas = Append(@, Delta(removed, added))]

\* nnue_state_make_callback
StateMake(st, after, u) ==
    IF Rebuilds(u, st.view)
    THEN LET sum == SumOfRebuild(st, after) IN
         [st EXCEPT !.sum = sum, !.deltas = Append(@, Rebuild(st.sum)),
                    !.cache = Keep(@, [hash |-> after.hash, sum |-> sum])]
    ELSE LET removed == Removed(after, u, st.view)
             added == Added(after, u, st.view)
         IN  [st EXCEPT !.sum = AddRows(AddRows(@, removed, -1), added, 1),
                        !.deltas = Append(@, Delta(removed, added))]

\* The sum one level up.
SumBefore(sum, d) ==
    IF d.rebuild THEN d.before
    ELSE AddRows(AddRows(sum, d.added, -1), d.removed, 1)

\* nnue_state_unmake_callback; it refuses at the root.
StateUnmake(st) ==
    IF st.deltas = <<>> THEN st
    ELSE [st EXCEPT !.sum = SumBefore(@, st.deltas[Len(st.deltas)]),
                    !.deltas = SubSeq(@, 1, Len(@) - 1)]

\* nnue_state_rewind_callback
StateRewind(st) == [st EXCEPT !.sum = st.root, !.deltas = <<>>]

-----------------------------------------------------------------------------
NnueInit ==
    /\ Init
    /\ mode = "idle" /\ view = Black
    /\ acc = NoState /\ saved = NoState
    /\ scores = {}

\* Between two searches the game goes on and the options change.
Between(step) == mode = "idle" /\ step /\ UNCHANGED stateVars

\* A worker starts: its state is created, or is missing for want of memory;
\* lanes are used only when every one of them has its state.
BeginSearch ==
    /\ mode = "idle"
    /\ view' = pos.side
    /\ \/ mode' = "worker" /\ acc' \in {NoState, Created(pos, pos.side)}
       \/ mode' = "lane" /\ acc' = Created(pos, pos.side)
    /\ UNCHANGED <<vars, saved, scores>>

\* The worker ends: states and cache are freed.
EndSearch ==
    /\ mode \in {"worker", "lane"}
    /\ undos = <<>>
    /\ mode' = "idle"
    /\ acc' = NoState
    /\ scores' = {}
    /\ UNCHANGED <<vars, view, saved>>

\* worker_make_move, state_make and expand_one: the position, then the state.
Descend(m) ==
    /\ mode \in {"worker", "lane"}
    /\ SearchMove(m)
    /\ acc' = IF acc = NoState THEN acc ELSE StateMake(acc, pos', UndoFast(pos, m))
    /\ UNCHANGED <<mode, view, saved, scores>>

\* The null move of alpha_beta is searched with a state of its own.
DescendNull ==
    /\ mode = "worker"
    /\ SearchNullMove
    /\ saved' = acc
    /\ acc' \in {NoState, Created(pos', view)}
    /\ UNCHANGED <<mode, view, scores>>

\* Mutant: the state of the null move stays in place.
Bug_Ascend ==
    /\ mode \in {"worker", "lane"}
    /\ Unmake
    /\ acc' = IF undos[Len(undos)].kind = "null" THEN acc ELSE StateUnmake(acc)
    /\ UNCHANGED <<mode, view, saved, scores>>

\* worker_unmake_move and state_unmake; the null move gives back the state it
\* set aside.
Ascend ==
    /\ mode \in {"worker", "lane"}
    /\ Unmake
    /\ IF undos[Len(undos)].kind = "null"
       THEN acc' = saved /\ saved' = NoState
       ELSE acc' = StateUnmake(acc) /\ UNCHANGED saved
    /\ UNCHANGED <<mode, view, scores>>

\* finish_neural_lane: the position is unmade move by move, the state at once.
RewindLine ==
    /\ mode \in {"lane", "rewinding"}
    /\ Unmake
    /\ mode' = "rewinding"
    /\ UNCHANGED <<view, acc, saved, scores>>
RewindState ==
    /\ mode \in {"lane", "rewinding"}
    /\ undos = <<>>
    /\ mode' = "lane"
    /\ acc' = StateRewind(acc)
    /\ UNCHANGED <<vars, view, saved, scores>>

\* static_evaluation, when the cache does not know the position: from the
\* state, or from scratch when there is none.
Evaluate ==
    /\ mode = "worker"
    /\ ~\E e \in scores : e.hash = pos.hash
    /\ scores' = Keep(scores, [hash |-> pos.hash,
                               sum |-> IF acc = NoState THEN FreshSum(pos, view) ELSE acc.sum])
    /\ UNCHANGED <<vars, mode, view, acc, saved>>

NnueNext ==
    \/ \E m \in {n \in GeneratePseudo(pos, pos.side) : OnMenu(n)} :
          Between(GameMove(m)) \/ Descend(m)
    \/ Between(SetBookkeeping)
    \/ BeginSearch
    \/ EndSearch
    \/ DescendNull
    \/ Ascend
    \/ RewindLine
    \/ RewindState
    \/ Evaluate

NnueSpec == NnueInit /\ [][NnueNext]_<<vars, stateVars>>

-----------------------------------------------------------------------------
\* The state answers for the present position: its sum is the one a fresh
\* accumulator would have, after any descent, null move, return and rewind.
SumIsFresh == acc # NoState /\ mode # "rewinding" => acc.sum = FreshSum(pos, view)

\* A sum the king cache would answer with, and an evaluation the cache of
\* scores would, are those of the position asked for.
CachesAnswerRight ==
    \A e \in acc.cache \cup saved.cache \cup scores :
        e.hash = pos.hash => e.sum = FreshSum(pos, view)

\* The positions the levels of a state stand for: the last Len(deltas) + 1
\* of the first `length' positions of the line.
LevelsRewind(st, length) ==
    LET base == length - Len(st.deltas) - 1 IN
    st # NoState =>
        /\ base >= 0
        /\ st.root = FreshSum(line[base + 1], view)
        /\ \A i \in DOMAIN st.deltas :
              SumBefore(FreshSum(line[base + i + 1], view), st.deltas[i])
                  = FreshSum(line[base + i], view)

\* Both states can always be taken back, level by level or at once, to the
\* position they were created for.
NullAt == CHOOSE i \in DOMAIN undos : undos[i].kind = "null"
StatesRewind ==
    /\ mode # "rewinding" => LevelsRewind(acc, Len(line))
    /\ mode = "rewinding" => acc.root = FreshSum(line[1], view)
    /\ UnderNull => LevelsRewind(saved, NullAt)
=============================================================================
