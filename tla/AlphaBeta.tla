----------------------------- MODULE AlphaBeta -----------------------------
(***************************************************************************)
(* The alpha-beta worker of src/search.c: iterative deepening at the root, *)
(* the recursive search with its transposition table, quiescence, the      *)
(* abort that may come at any poll of should_stop, the word published for  *)
(* readers, and the table a SearchContext keeps from one search to the     *)
(* next.  Positions are the nodes of a small game graph; a line is the     *)
(* sequence of positions since the start of the game, its last one being   *)
(* the position searched.  The search proper is one recursive computation  *)
(* that threads the worker's memory (a record) and leaves its score in it. *)
(*                                                                         *)
(* Modelled is the classic policy (ab_policy 0).  Killers and history      *)
(* counters only order the moves that follow the table's move, and that    *)
(* order is the one of generation.                                         *)
(***************************************************************************)
EXTENDS GameGraph

CONSTANTS
    Games,          \* histories a first search may start from
    Noisy,          \* the moves <<p, q>> that capture or promote
    Slots,          \* [Positions -> slot of the table]: hash & (capacity - 1)
    Evaluations,    \* the static evaluations, seen by the mover, to choose from
    OptionSets,     \* records [prepass, partial, qhash, shallow, margin, futility, reduceFrom]
    Stops,          \* after how many polls of should_stop it says yes
    Budgets,        \* node limits, 0 for none
    Overrun,        \* node_overrun_percent
    SafeHeight,     \* the height up to which histories without repetition share
    Cycle,          \* the least number of plies that returns to a position
    OrderScore,     \* what ab_move_order gives a root move without the prepass
    Extensions,     \* check extensions per line
    QuiescenceDepth, Aspiration, MaxDepth, MaxPath, Mate, Infinity,
    NoMove,         \* SHOGI_SQ_NONE, an empty table slot, nothing published
    MaxSearches     \* bound on the searches that share a context

ASSUME AlphaBetaAssumption ==
    /\ Cycle \in Nat \ {0}
    /\ SafeHeight <= (Repeat - 2) * Cycle
    /\ \A line \in Games : line # <<>>
    /\ NoMove \notin Positions
    /\ MaxPath < Mate /\ Mate < Infinity

Exact == "exact"
Lower == "lower"
Upper == "upper"
EmptyEntry == [key |-> NoMove]
Absolute(n) == IF n < 0 THEN -n ELSE n
Larger(a, b) == IF a > b THEN a ELSE b
Smaller(a, b) == IF a < b THEN a ELSE b

VARIABLES
    line,       \* history of the root position
    eval,       \* the evaluator in use
    options,    \* job->options
    stopAt,     \* the poll at which the stop flag or the deadline is seen
    budget,     \* job->limits.nodes
    mem,        \* what the recursion reads and writes: table, counters, per-ply arrays
    order,      \* job->root->children, as the moves' positions
    scores,     \* job->ab_root_scores
    best,       \* job->ab_best_*: move, score, completed depth
    published,  \* job->ab_published
    pc, depth,  \* where run_alpha_beta is, and the depth it searches
    root,       \* locals of alpha_beta_root_depth
    searches    \* searches run with this context
vars == <<line, eval, options, stopAt, budget, mem, order, scores, best,
          published, pc, depth, root, searches>>

Poll(m) == [m EXCEPT !.polls = @ + 1]
BudgetWithOverrun == budget + (budget * Overrun) \div 100
\* A bug to be caught: the limit is noticed one node late.
ShouldStopLate(m) ==
    \/ m.polls > stopAt
    \/ budget # 0 /\ m.nodes > BudgetWithOverrun
ShouldStop(m) ==
    \/ m.polls > stopAt
    \/ budget # 0 /\ m.nodes >= BudgetWithOverrun
Count(m, kind) == [m EXCEPT !.nodes = @ + 1, !.kinds[kind] = @ + 1]
Return(m, score) == [m EXCEPT !.score = score]
Abort(m) == [m EXCEPT !.aborted = TRUE, !.score = 0]

\* ab_terminal_score: a win counts for more the nearer it is.
FinishedScore(h, ply) ==
    CASE Verdict(h) = "won" -> Mate - ply
      [] Verdict(h) = "lost" -> ply - Mate
      [] OTHER -> 0

(***************************************************************************)
(* The table.  A score is stored as seen from its node; a score is trusted *)
(* under the history it was found in, or when both histories are free of   *)
(* repetitions and what the score depends on is too shallow to complete one. *)
(***************************************************************************)
ScoreToHash(score, ply) ==
    IF score >= Mate - MaxPath THEN score + ply
    ELSE IF score <= MaxPath - Mate THEN score - ply ELSE score
ScoreFromHash(score, ply) ==
    IF score >= Mate - MaxPath THEN score - ply
    ELSE IF score <= MaxPath - Mate THEN score + ply ELSE score

BeginNode(m, h, ply) ==
    IF ply >= MaxPath THEN m
    ELSE [m EXCEPT !.height[ply] = 0,
                   !.unique[ply] = /\ ply # 0
                                   /\ m.unique[ply - 1]
                                   /\ Cardinality(Meetings(h)) = 1]
FinishNode(m, ply) ==
    IF ply = 0 \/ ply >= MaxPath THEN m
    ELSE [m EXCEPT !.height[ply - 1] = Larger(@, m.height[ply] + 1)]

\* A bug to be caught: the height is not looked at.
CompatibleAtAnyHeight(e, h, unique) ==
    \/ e.history = h
    \/ options.shallow /\ e.unique /\ unique
Compatible(e, h, unique) ==
    \/ e.history = h
    \/ options.shallow /\ e.height <= SafeHeight /\ e.unique /\ unique

Store(m, h, score, d, bound, move, ply) ==
    LET p == Last(h)
        e == m.table[Slots[p]]
        polled == IF m.aborted THEN m ELSE Poll(m)
        kept == e.key \notin {NoMove, p} /\ e.depth > d /\ e.generation = m.generation
    IN  IF m.aborted \/ ShouldStop(polled) \/ kept THEN polled
        ELSE [polled EXCEPT !.table[Slots[p]] =
                [key |-> p, history |-> h, score |-> ScoreToHash(score, ply), depth |-> d,
                 height |-> m.height[ply], unique |-> m.unique[ply],
                 bound |-> bound, generation |-> m.generation, move |-> move]]

TableMove(m, p) == IF m.table[Slots[p]].key = p THEN m.table[Slots[p]].move ELSE NoMove
Cutoff(m, h, d, alpha, beta, ply) ==
    LET e == m.table[Slots[Last(h)]]
    IN  /\ e.key = Last(h)
        /\ e.depth >= d
        /\ Compatible(e, h, m.unique[ply])
        /\ LET score == ScoreFromHash(e.score, ply)
           IN  \/ e.bound = Exact
               \/ e.bound = Lower /\ score >= beta
               \/ e.bound = Upper /\ score <= alpha
UseEntry(m, p, ply) ==
    LET e == m.table[Slots[p]]
    IN  Return([m EXCEPT !.height[ply] = e.height], ScoreFromHash(e.score, ply))

BoundOf(score, alpha, beta) ==
    IF score <= alpha THEN Upper ELSE IF score >= beta THEN Lower ELSE Exact
TableMoveFirst(moves, move) ==
    IF move \in Range(moves)
    THEN <<move>> \o SelectSeq(moves, LAMBDA q : q # move) ELSE moves

(***************************************************************************)
(* Quiescence: standing pat unless in check, then evasions, captures,      *)
(* promotions and checks.                                                  *)
(***************************************************************************)
Tactical(p) ==
    SelectSeq(Successors[p], LAMBDA q : p \in InCheck \/ <<p, q>> \in Noisy \/ q \in InCheck)

RECURSIVE Quiescence(_, _, _, _, _, _, _), QuiescenceMoves(_, _, _, _, _, _)

\* n: what stays fixed at this node; next: the memory after the move at the head.
AfterTactical(next, n, moves, top, alpha, move) ==
    LET score == -next.score
        better == IF score > top THEN Head(moves) ELSE move
    IN  IF next.aborted THEN Abort(next)
        ELSE IF Larger(alpha, score) >= n.beta
             THEN [Return(next, Larger(top, score)) EXCEPT !.move = better]
        ELSE IF ShouldStop(Poll(next)) /\ Len(moves) > 1 THEN Abort(Poll(next))
        ELSE QuiescenceMoves(Poll(next), n, Tail(moves), Larger(top, score),
                             Larger(alpha, score), better)
QuiescenceMoves(m, n, moves, top, alpha, move) ==
    IF moves = <<>>
    THEN [Return(m, IF top = -Infinity THEN eval[Last(n.h)] ELSE top) EXCEPT !.move = move]
    ELSE AfterTactical(Quiescence(m, Append(n.h, Head(moves)), Larger(0, n.depth - 1),
                                  -n.beta, -alpha, n.ply + 1, TRUE),
                       n, moves, top, alpha, move)

QuiescenceBody(m, h, d, alpha, beta, ply) ==
    LET p == Last(h)
        first == IF options.qhash THEN TableMove(m, p) ELSE NoMove
        kept == [m EXCEPT !.move = first]
        stand == IF p \in InCheck THEN -Infinity ELSE eval[p]
    IN  IF Finished(h) THEN Return(kept, FinishedScore(h, ply))
        ELSE IF p \notin InCheck /\ (stand >= beta \/ d = 0) THEN Return(kept, stand)
        ELSE QuiescenceMoves(m, [h |-> h, depth |-> d, beta |-> beta, ply |-> ply],
                             TableMoveFirst(Tactical(p), first), stand, Larger(alpha, stand), first)

StoreScore(m, h, d, alpha, beta, move, ply) ==
    Store(m, h, m.score, d, BoundOf(m.score, alpha, beta), move, ply)
StoreQuiescence(m, h, d, alpha, beta, ply) ==
    IF options.qhash THEN StoreScore(m, h, d, alpha, beta, m.move, ply) ELSE m
QuiescenceNode(node, h, d, alpha, beta, ply) ==
    IF options.qhash /\ Repeated(h) THEN Return(node, FinishedScore(h, ply))
    ELSE IF options.qhash /\ Cutoff(node, h, d - QuiescenceDepth, alpha, beta, ply)
         THEN UseEntry(node, Last(h), ply)
    ELSE StoreQuiescence(QuiescenceBody(node, h, d, alpha, beta, ply),
                         h, d - QuiescenceDepth, alpha, beta, ply)
Quiescence(m, h, d, alpha, beta, ply, counted) ==
    LET begun == BeginNode(Poll(m), h, ply)
    IN  IF ShouldStop(Poll(m)) \/ ply >= MaxPath THEN Abort(Poll(m))
        ELSE FinishNode(QuiescenceNode(IF counted THEN Count(begun, "quiescence") ELSE begun,
                                       h, d, alpha, beta, ply), ply)

(***************************************************************************)
(* The main search.                                                        *)
(***************************************************************************)
RECURSIVE Search(_, _, _, _, _, _, _), SearchMoves(_, _, _)

\* One child: the first with the whole window, the others with a null window,
\* widened when they turn out better than reduced or than alpha.  n is what
\* stays fixed at the node, m the memory the search before left.
SearchWith(m, n, q, d, alpha, beta) ==
    Search(m, Append(n.h, q), d, -beta, -alpha, n.ply + 1, n.ext)
Unreduced(m, n, q, reduction, alpha) ==
    IF reduction # 0 /\ -m.score > alpha
    THEN SearchWith(m, n, q, n.depth - 1, alpha, alpha + 1) ELSE m
Widened(m, n, q, alpha) ==
    IF -m.score > alpha /\ -m.score < n.beta
    THEN SearchWith(m, n, q, n.depth - 1, alpha, n.beta) ELSE m
SearchChild(m, n, q, first, reduction, alpha) ==
    IF first THEN SearchWith(m, n, q, n.depth - 1, alpha, n.beta)
    ELSE Widened(Unreduced(SearchWith(m, n, q, n.depth - 1 - reduction, alpha, alpha + 1),
                           n, q, reduction, alpha),
                 n, q, alpha)

\* No capture, promotion, evasion or check.
Calm(p, q) == <<p, q>> \notin Noisy /\ p \notin InCheck /\ q \notin InCheck
Reduction(n, i, q) ==
    IF n.depth >= 3 /\ i >= options.reduceFrom /\ Calm(Last(n.h), q)
    THEN IF n.depth >= 5 /\ i >= 10 THEN 2 ELSE 1
    ELSE 0
Futile(n, i, q, alpha) ==
    /\ i > 0 /\ n.depth <= 1 /\ n.beta = n.alpha + 1
    /\ Calm(Last(n.h), q)
    /\ Absolute(alpha) < Mate - MaxPath
    /\ eval[Last(n.h)] + options.futility <= alpha

\* c: the cursor over the node's moves.
AfterMove(done, n, c) ==
    LET score == -done.score
        q == n.moves[c.i + 1]
    IN  IF done.aborted THEN Abort(done)
        ELSE SearchMoves(done, n, [i |-> c.i + 1, alpha |-> Larger(c.alpha, score),
                                   top |-> Larger(c.top, score),
                                   move |-> IF score > c.top THEN q ELSE c.move])
SearchMoves(m, n, c) ==
    LET q == n.moves[c.i + 1]
    IN  IF c.i = Len(n.moves) \/ c.alpha >= n.beta
        THEN StoreScore(Return(m, c.top), n.h, n.depth, n.alpha, n.beta, c.move, n.ply)
        ELSE IF ShouldStop(Poll(m)) THEN Abort(Poll(m))
        ELSE IF Futile(n, c.i, q, c.alpha) THEN SearchMoves(Poll(m), n, [c EXCEPT !.i = @ + 1])
        ELSE AfterMove(SearchChild(Poll(m), n, q, c.i = 0, Reduction(n, c.i, q), c.alpha), n, c)

\* The leaf was counted as a main node; it is one of the quiescence search.
LeafCounted(m) == [m EXCEPT !.kinds.main = @ - 1, !.kinds.quiescence = @ + 1]
StoreLeaf(leaf, h, alpha, beta, move, ply) ==
    IF options.qhash THEN leaf ELSE StoreScore(leaf, h, 0, alpha, beta, move, ply)
SearchLeaf(m, h, alpha, beta, ply) ==
    StoreLeaf(Quiescence(LeafCounted(m), h, QuiescenceDepth, alpha, beta, ply, FALSE),
              h, alpha, beta, TableMove(m, Last(h)), ply)

ReverseFutile(p, d, alpha, beta) ==
    /\ p \notin InCheck
    /\ beta = alpha + 1
    /\ d <= 1
    /\ Absolute(beta) < Mate - MaxPath
    /\ eval[p] - options.margin * d >= beta

SearchBody(m, h, d, alpha, beta, ply, ext) ==
    LET p == Last(h)
        polled == Poll(m)
        node == Count(polled, "main")
        extended == p \in InCheck /\ ext < Extensions
        moves == TableMoveFirst(Successors[p], TableMove(m, p))
        n == [h |-> h, moves |-> moves, depth |-> IF extended THEN d + 1 ELSE d,
              ext |-> IF extended THEN ext + 1 ELSE ext,
              alpha |-> alpha, beta |-> beta, ply |-> ply]
    IN  IF ShouldStop(polled) \/ ply >= MaxPath THEN Abort(polled)
        ELSE IF Repeated(h) THEN Return(node, FinishedScore(h, ply))
        ELSE IF Cutoff(node, h, d, alpha, beta, ply) THEN UseEntry(node, p, ply)
        ELSE IF Finished(h) THEN Return(node, FinishedScore(h, ply))
        ELSE IF d <= 0 THEN SearchLeaf(node, h, alpha, beta, ply)
        ELSE IF ReverseFutile(p, n.depth, alpha, beta) THEN Return(node, eval[p])
        ELSE SearchMoves(node, n, [i |-> 0, alpha |-> alpha, top |-> -Infinity, move |-> moves[1]])

Search(m, h, d, alpha, beta, ply, ext) ==
    FinishNode(SearchBody(BeginNode(m, h, ply), h, d, alpha, beta, ply, ext), ply)

(***************************************************************************)
(* The root: search_start, run_alpha_beta, alpha_beta_root_depth and the   *)
(* end of the job, after which the game goes on with the same context.     *)
(***************************************************************************)
Sorted(moves, by) ==
    LET rank == [i \in DOMAIN moves |->
                    Cardinality({j \in DOMAIN moves : \/ by[moves[j]] > by[moves[i]]
                                                      \/ by[moves[j]] = by[moves[i]] /\ j <= i})]
    IN  [r \in DOMAIN moves |-> moves[CHOOSE i \in DOMAIN moves : rank[i] = r]]

NoRoot == [index |-> 0]
EmptyTable == [slot \in Range(Slots) |-> EmptyEntry]
FreshMemory(table, generation, unique) ==
    [table |-> table, generation |-> generation, polls |-> 0, nodes |-> 0,
     kinds |-> [main |-> 0, quiescence |-> 0, root |-> 0], aborted |-> FALSE,
     height |-> [ply \in 0 .. MaxPath - 1 |-> 0],
     unique |-> [ply \in 0 .. MaxPath - 1 |-> ply = 0 /\ unique],
     score |-> 0, move |-> NoMove]

NoRepetition(h) == IsInjective(h)
Publish == published' = best'

Init ==
    /\ line \in Games /\ eval \in Evaluations
    /\ options \in OptionSets
    /\ stopAt \in Stops /\ budget \in Budgets
    /\ mem = FreshMemory(EmptyTable, 0, FALSE)
    /\ order = <<>> /\ scores = <<>> /\ best = NoMove /\ published = NoMove
    /\ pc = "idle" /\ depth = 0 /\ root = NoRoot /\ searches = 0

\* search_start: the context's table is kept unless the options that shape its
\* scores changed, and the generation moves on.
Start ==
    /\ pc = "idle" /\ searches < MaxSearches
    /\ ~Finished(line)
    /\ options' \in IF searches = 0 THEN {options} ELSE {o \in OptionSets : o.margin = options.margin}
    /\ mem' = LET same == options'.qhash = options.qhash /\ options'.prepass = options.prepass
                          /\ options'.shallow = options.shallow
                  table == IF same THEN mem.table ELSE EmptyTable
                  generation == IF same THEN mem.generation ELSE 0
              IN  FreshMemory(table, (generation + 1) % 256, NoRepetition(line))
    /\ order' = Successors[Last(line)]
    /\ scores' = [q \in Range(order') |-> 0]
    /\ published' = NoMove /\ best' = NoMove
    /\ depth' = 0 /\ root' = NoRoot
    /\ pc' = "order" /\ searches' = searches + 1
    /\ UNCHANGED <<line, eval, stopAt, budget>>

\* alpha_beta_root_prepass: a static score per move, one poll and one counted
\* node each, and a move to fall back on.
RECURSIVE Prepass(_, _, _)
Prepass(m, given, i) ==
    LET polled == Poll(m)
        q == order[i]
        child == Append(line, q)
        score == IF Finished(child) THEN -FinishedScore(child, 1) ELSE -eval[q]
    IN  IF i > Len(order) THEN [m |-> m, by |-> given]
        ELSE IF ShouldStop(polled) THEN [m |-> polled, by |-> given]
        ELSE Prepass(Count(polled, "root"), [given EXCEPT ![q] = score], i + 1)

OrderRoot ==
    /\ pc = "order"
    /\ LET unscored == [q \in Range(order) |-> -Infinity]
           pre == Prepass(mem, unscored, 1)
           evaluated == \E q \in Range(order) : pre.by[q] # -Infinity
       IN  IF ~options.prepass
           THEN /\ scores' = [q \in Range(order) |-> OrderScore]
                /\ best' = [move |-> order[1], score |-> OrderScore, depth |-> 0, upTo |-> 0]
                /\ Publish
                /\ UNCHANGED <<mem, order>>
           ELSE /\ mem' = pre.m
                /\ IF ~evaluated THEN UNCHANGED <<order, scores, best, published>>
                   ELSE /\ order' = Sorted(order, pre.by)
                        /\ scores' = pre.by
                        /\ best' = [move |-> order'[1], score |-> pre.by[order'[1]], depth |-> 0, upTo |-> 0]
                        /\ Publish
    /\ depth' = 0 /\ pc' = "next"
    /\ UNCHANGED <<line, eval, options, stopAt, budget, root, searches>>

Window(low, high) ==
    [index |-> 1, low |-> low, high |-> high, alpha |-> low, top |-> -Infinity,
     move |-> order'[1], by |-> scores, again |-> FALSE]

\* The next iteration, around the score of the last one.
NextDepth ==
    /\ pc = "next"
    /\ mem' = IF depth < MaxDepth THEN Poll(mem) ELSE mem
    /\ IF depth = MaxDepth \/ ShouldStop(mem')
       THEN /\ pc' = "finished"
            /\ UNCHANGED <<order, root, depth>>
       ELSE /\ depth' = depth + 1
            /\ order' = Sorted(order, scores)
            /\ root' = LET last == IF best = NoMove THEN 0 ELSE best.score
                       IN  Window(Larger(-Infinity, last - Aspiration),
                              Smaller(Infinity, last + Aspiration))
            /\ pc' = "moves"
    /\ UNCHANGED <<line, eval, options, stopAt, budget, scores, best, published, searches>>

\* A bug to be caught: the score of an aborted child is taken at face value.
InterruptedIgnored(m) == FALSE
Interrupted(m) == ShouldStop(m) \/ m.aborted

\* One root move: the poll before it, its search, the poll after it, and the
\* early publication of a score that is exact.
RootMove ==
    LET q == order[root.index]
        n == [h |-> line, depth |-> depth, beta |-> root.high, ply |-> 0, ext |-> 0]
        score == -mem'.score
    IN  /\ pc = "moves" /\ root.index <= Len(order) /\ root.alpha < root.high
        /\ mem' = IF Interrupted(Poll(mem)) THEN Poll(mem)
                  ELSE Poll(SearchChild(Poll(mem), n, q, root.index = 1, 0, root.alpha))
        /\ IF Interrupted(mem')
           THEN pc' = "finished" /\ UNCHANGED <<root, best, published>>
           ELSE /\ IF options.partial /\ score > root.alpha /\ score < root.high
                   THEN /\ best' = [move |-> q, score |-> score, upTo |-> depth,
                                    depth |-> IF best = NoMove THEN 0 ELSE best.depth]
                        /\ Publish
                   ELSE UNCHANGED <<best, published>>
                /\ root' = [root EXCEPT !.index = @ + 1, !.by[q] = score,
                                        !.alpha = Larger(@, score), !.top = Larger(@, score),
                                        !.move = IF score > root.top THEN q ELSE @]
                /\ pc' = pc
        /\ UNCHANGED <<line, eval, options, stopAt, budget, order, scores, depth, searches>>

\* The end of alpha_beta_root_depth: again with an open window after a failure
\* on either side, otherwise the iteration is complete and published.
EndDepth ==
    /\ pc = "moves" /\ (root.index > Len(order) \/ root.alpha >= root.high)
    /\ mem' = Poll(mem)
    /\ LET failed == ~root.again /\ (root.top <= root.low \/ root.top >= root.high)
       IN  IF ShouldStop(mem')
           THEN /\ pc' = "finished"
                /\ UNCHANGED <<root, scores, best, published>>
           ELSE IF failed
           THEN /\ root' = [index |-> 1, low |-> -Infinity, high |-> Infinity, alpha |-> -Infinity,
                            top |-> -Infinity, move |-> order[1], by |-> scores, again |-> TRUE]
                /\ UNCHANGED <<pc, scores, best, published>>
           ELSE /\ scores' = root.by
                /\ best' = [move |-> root.move, score |-> root.top, depth |-> depth, upTo |-> depth]
                /\ Publish
                /\ root' = NoRoot
                /\ pc' = "next"
    /\ UNCHANGED <<line, eval, options, stopAt, budget, order, depth, searches>>

\* The job is joined and destroyed; its move and some reply are played.
Finish ==
    /\ pc = "finished"
    /\ LET moved == Append(line, IF best = NoMove THEN order[1] ELSE best.move)
       IN  line' \in {Append(moved, r) : r \in Range(Successors[Last(moved)])} \cup {moved}
    /\ pc' = "idle" /\ root' = NoRoot
    /\ UNCHANGED <<eval, options, stopAt, budget, mem, order, scores, best, published, depth, searches>>

Next == Start \/ OrderRoot \/ NextDepth \/ RootMove \/ EndDepth \/ Finish
Spec == Init /\ [][Next]_vars

(***************************************************************************)
(* What the search may answer.  Span(h, d) is the interval of the scores,  *)
(* seen from the last position of h, that some search of h no shallower    *)
(* than d gives: the table lets any part of it be deeper.  Depths 0 and    *)
(* below are those of quiescence.                                          *)
(***************************************************************************)
RECURSIVE Span(_, _, _)
Span(h, d, ply) ==
    LET p == Last(h)
        Children(moves, dd) == {Span(Append(h, q), dd, ply + 1) : q \in moves}
        Raised(base, kids) == <<Max({base} \cup {-k[2] : k \in kids}), Max({base} \cup {-k[1] : k \in kids})>>
        Whole(dd) == Raised(-Infinity, Children(Range(Successors[p]), dd))
        Floor(dd) == Larger(-QuiescenceDepth, dd - 1)
        Quiet(dd) ==
            IF p \in InCheck THEN Whole(Floor(dd))
            ELSE IF dd = -QuiescenceDepth THEN <<eval[p], eval[p]>>
            ELSE Raised(eval[p], Children(Range(Tactical(p)), dd - 1))
        either == {Whole(0)} \cup {Quiet(dd) : dd \in d .. 0}
    IN  IF Finished(h) THEN <<FinishedScore(h, ply), FinishedScore(h, ply)>>
        ELSE IF d >= 1 THEN Whole(d - 1)
        ELSE <<Min({s[1] : s \in either}), Max({s[2] : s \in either})>>

RECURSIVE LinesOf(_, _)
LinesOf(h, plies) ==
    {h} \cup IF plies = 0 \/ Finished(h) THEN {}
             ELSE UNION {LinesOf(Append(h, q), plies - 1) : q \in Range(Successors[Last(h)])}

\* Pruning by margins and reductions gives up exactness.
ExactSearch == options.margin >= Infinity

\* Every score in the table is right for every line that would be allowed to
\* use it: the one it was found in, and, with shallow transpositions, every
\* line free of repetitions that reaches the same position.  Aborted searches,
\* aspiration, colliding slots and earlier searches leave no wrong entry.
TableIsSound ==
    ExactSearch => \A slot \in DOMAIN mem.table :
        LET e == mem.table[slot] IN
        e.key # NoMove =>
            \A h \in {e.history} \cup {l \in LinesOf(line, MaxDepth + 1) : Last(l) = e.key} :
                Compatible(e, h, NoRepetition(h)) =>
                    LET span == Span(h, e.depth, 0)
                    IN  /\ e.bound # Upper => e.score <= span[2]
                        /\ e.bound # Lower => e.score >= span[1]

\* What a reader of the published word gets is a legal root move with a score
\* that a finished search of that move gives, and after a finished iteration
\* the best any root move reaches; an abort never shows through.
PublishedIsSearched ==
    pc \in {"next", "moves", "finished"} /\ published # NoMove =>
        /\ published.move \in Range(Successors[Last(line)])
        /\ ExactSearch /\ published.upTo >= 1 =>
             LET child == Span(Append(line, published.move), published.upTo - 1, 1)
                 whole == Span(line, published.depth, 0)
             IN  /\ published.score \in -child[2] .. -child[1]
                 /\ published.upTo = published.depth => published.score \in whole[1] .. whole[2]

\* A node limit is overrun by the configured share at most, however deep the
\* recursion is when it is reached; what is held against it counts each node
\* once, as a main, quiescence or root node, whichever recursion visits it.
NodesWithinBudget ==
    /\ mem.nodes = mem.kinds.main + mem.kinds.quiescence + mem.kinds.root
    /\ budget # 0 => mem.nodes <= BudgetWithOverrun
=============================================================================
