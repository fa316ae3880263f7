----------------------------- MODULE MctsTree ------------------------------
(***************************************************************************)
(* One Monte-Carlo worker of src/search.c and its private tree: the node   *)
(* pool and its index by position, expansion and selection under virtual   *)
(* losses, single simulations (run_simulation) and batches of lanes        *)
(* evaluated together (run_neural_batch), back-propagation, and the adds   *)
(* to the shared root that a reader may observe half done.                 *)
(*                                                                         *)
(* Nodes are numbered in the order of the pool, 1 being the root; a child  *)
(* with node 0 has none.  Values are counted in half wins of the root's    *)
(* side.  Which selectable child the formula of UCT prefers is left open.  *)
(***************************************************************************)
EXTENDS GameGraph

CONSTANTS
    Histories,      \* the lines a search may start from
    Capacities,     \* how many nodes the pool may have
    MaxPlies,       \* SEARCH_NEURAL_MAX_DEPTH: iterations of one descent
    Batch,          \* lanes evaluated together
    LeafValues,     \* what a rollout or the network may say of a leaf, of 0..2
    Faults,         \* what may fail: subset of {"alloc", "eval"}
    MaxSimulations  \* bound on the simulations of a run

ASSUME MctsAssumption ==
    /\ Histories \subseteq Seq(Positions) \ {<<>>}
    /\ Capacities \subseteq Nat \ {0} /\ MaxPlies \in Nat \ {0} /\ Batch \in Nat \ {0}
    /\ LeafValues \subseteq 0 .. 2
    /\ MaxSimulations \in Nat
\* A game went on from every position of its history but the last; a move
\* passes the turn, which is part of the position.
ASSUME TurnAssumption ==
    /\ \A line \in Histories : \A i \in 1 .. Len(line) - 1 : Successors[line[i]] # <<>>
    /\ \E side \in [Positions -> 0 .. 1] :
          \A p \in Positions : \A i \in DOMAIN Successors[p] : side[Successors[p][i]] # side[p]

VARIABLES
    history,    \* job->root_position's history
    capacity,   \* tree->node_capacity
    neural,     \* job->neural_mcts: batches of lanes, verdicts kept at the nodes
    stop,       \* should_stop has said yes
    tree,       \* the nodes in use
    lanes,      \* the lanes of the batch; a simulation is a batch of one
    pc,         \* "claim", "descend", "score", "finish", "publish" or "stopped"
    at,         \* the lane being descended or finished
    tally,      \* [index -> [visits, value]]: root_visits and root_values of the batch
    pending,    \* adds to the shared root not yet done: <<index, field, amount>>
    published,  \* [index -> [visits, value]]: children of the shared root
    done,       \* simulations finished, those with an empty path apart
    report      \* what a reader of the shared root has put together
fixed == <<history, capacity, neural>>
vars == <<fixed, stop, tree, lanes, pc, at, tally, pending, published, done, report>>

Root == 1
RootIndices == DOMAIN Successors[Last(history)]
Nothing == [i \in RootIndices |-> [visits |-> 0, value |-> 0]]
NewNode(p) == [pos |-> p, expanded |-> FALSE, terminal |-> FALSE, verdict |-> 0,
               next |-> 0, selectable |-> 0, visits |-> 0, value |-> 0, kids |-> <<>>]
NewLane == [line |-> history, node |-> Root, path |-> <<>>, value |-> 1, terminal |-> FALSE]

\* tree_find_hash: the node of a position, 0 when there is none.
NodeOf(t, p) == IF \E n \in DOMAIN t : t[n].pos = p THEN CHOOSE n \in DOMAIN t : t[n].pos = p ELSE 0

\* node_expand: one child per legal move; a pool that cannot hold them leaves
\* the node expanded with none.
Expand(t, n, moves) ==
    IF t[n].expanded THEN t
    ELSE [t EXCEPT ![n].expanded = TRUE,
                   ![n].kids = [i \in DOMAIN moves |-> [node |-> 0, visits |-> 0, value |-> 0, loss |-> 0]]]

\* The verdict for the side that moves at the root.
OwnVerdict(line) ==
    LET same == (Len(line) - Len(history)) % 2 = 0
    IN  CASE Verdict(line) = "draw" -> 1
          [] Verdict(line) = "won" -> IF same THEN 2 ELSE 0
          [] OTHER -> IF same THEN 0 ELSE 2

\* expand_one: the next child in order gets the node of its position, an old
\* one or the next of the pool; with the pool full it stays without.
ChildPosition(t, n, i) == Successors[t[n].pos][i]
CanExpand(t, n) == t[n].next < Len(t[n].kids)
Place(t, n) ==
    LET p == ChildPosition(t, n, t[n].next + 1)
    IN  IF NodeOf(t, p) # 0 THEN NodeOf(t, p) ELSE IF Len(t) < capacity THEN Len(t) + 1 ELSE 0
Consumed(t, n) == [t EXCEPT ![n].next = @ + 1]
\* A bug to be caught: the counters of a node found in the index start anew.
AttachedAnew(t, n) ==
    LET i == t[n].next + 1
        c == Place(t, n)
        pool == IF c > Len(t) THEN Append(t, NewNode(ChildPosition(t, n, i)))
                ELSE [t EXCEPT ![c].visits = 0, ![c].value = 0]
    IN  IF c = 0 THEN Consumed(t, n)
        ELSE [Consumed(pool, n) EXCEPT ![n].selectable = i, ![n].kids[i].node = c]
Attached(t, n) ==
    LET i == t[n].next + 1
        c == Place(t, n)
        pool == IF c > Len(t) THEN Append(t, NewNode(ChildPosition(t, n, i))) ELSE t
    IN  IF c = 0 THEN Consumed(t, n)
        ELSE [Consumed(pool, n) EXCEPT ![n].selectable = i, ![n].kids[i].node = c]

\* A bug to be caught: a child chosen for the first time gets no virtual loss.
RaiseLossLater(t, n, i) == IF t[n].kids[i].visits = 0 THEN t ELSE [t EXCEPT ![n].kids[i].loss = @ + 1]
RaiseLoss(t, n, i) == [t EXCEPT ![n].kids[i].loss = @ + 1]
Selectable(t, n) ==
    1 .. (IF t[n].selectable < Len(t[n].kids) THEN t[n].selectable ELSE Len(t[n].kids))

Lane == lanes[at]
Into(lane, n, i) == [lane EXCEPT !.path = Append(@, <<n, i>>)]
Advance(lane, t, n, i) ==
    [Into(lane, n, i) EXCEPT !.line = Append(@, ChildPosition(t, n, i)), !.node = t[n].kids[i].node]

\* The descent of the current lane ends with this lane and this tree.
Descended(lane, t) ==
    /\ lanes' = [lanes EXCEPT ![at] = lane]
    /\ tree' = t
    /\ IF at < Len(lanes) THEN at' = at + 1 /\ pc' = pc
       ELSE at' = 1 /\ pc' = IF neural THEN "score" ELSE "finish"
\* A simulation that is not decided by the rules is played out or evaluated.
Leaf(lane, t) ==
    IF neural THEN Descended(lane, t)
    ELSE \E v \in LeafValues : Descended([lane EXCEPT !.value = v], t)
\* A lane that cannot be evaluated counts as even.
Broken(lane, t) ==
    IF neural THEN Descended([lane EXCEPT !.value = 1, !.terminal = TRUE], t) ELSE Leaf(lane, t)

Init ==
    /\ history \in Histories /\ capacity \in Capacities
    /\ neural \in BOOLEAN /\ stop = FALSE
    /\ tree = Expand(<<NewNode(Last(history))>>, Root, Successors[Last(history)])
    /\ lanes = <<>> /\ pc = "claim" /\ at = 1
    /\ tally = Nothing /\ pending = {} /\ published = Nothing
    /\ done = [counted |-> 0, empty |-> 0]
    /\ report = [used |-> {}, lines |-> <<>>, line |-> 0]

RequestStop ==
    /\ ~stop /\ stop' = TRUE
    /\ UNCHANGED <<fixed, tree, lanes, pc, at, tally, pending, published, done, report>>

\* run_mcts_worker: the next simulation, or the next batch, is claimed.
Claim ==
    /\ pc = "claim"
    /\ LET started == done.counted + done.empty
       IN  IF stop \/ started = MaxSimulations
           THEN pc' = "stopped" /\ UNCHANGED <<lanes, at>>
           ELSE \E k \in 1 .. (IF neural THEN Batch ELSE 1) :
                    /\ started + k <= MaxSimulations
                    /\ lanes' = [i \in 1 .. k |-> NewLane]
                    /\ at' = 1 /\ pc' = "descend"
    /\ UNCHANGED <<fixed, stop, tree, tally, pending, published, done, report>>

\* The simulation looks at the flag before every ply, a lane never.
BreakOff ==
    /\ pc = "descend" /\ ~neural /\ stop
    /\ Leaf(Lane, tree)
    /\ UNCHANGED <<fixed, stop, tally, pending, published, done, report>>

AtLimit == Len(Lane.path) = MaxPlies
Descending == pc = "descend" /\ ~(stop /\ ~neural) /\ ~AtLimit

DepthLimit ==
    /\ pc = "descend" /\ ~(stop /\ ~neural) /\ AtLimit
    /\ Leaf(Lane, tree)
    /\ UNCHANGED <<fixed, stop, tally, pending, published, done, report>>

\* The game is over here.  The simulation judges its own line each time; the
\* lane judges a node when it expands it and keeps the verdict there.
\* A bug to be caught: the simulation, too, judges only nodes it expands.
JudgesOnce(lane, t) == ~t[lane.node].expanded
Judges(lane, t) == ~neural \/ ~t[lane.node].expanded
GameOver ==
    /\ Descending /\ Judges(Lane, tree) /\ Finished(Lane.line)
    /\ LET v == OwnVerdict(Lane.line)
           t == Expand(tree, Lane.node, <<>>)
           over == [Lane EXCEPT !.value = v, !.terminal = TRUE]
       IN  IF neural
           THEN Descended(over, [t EXCEPT ![Lane.node].terminal = TRUE, ![Lane.node].verdict = v])
           ELSE Descended(over, tree)
    /\ UNCHANGED <<fixed, stop, tally, pending, published, done, report>>
KnownOver ==
    /\ Descending /\ neural /\ tree[Lane.node].terminal
    /\ Descended([Lane EXCEPT !.value = tree[Lane.node].verdict, !.terminal = TRUE], tree)
    /\ UNCHANGED <<fixed, stop, tally, pending, published, done, report>>

GoesOn == Descending /\ ~(Judges(Lane, tree) /\ Finished(Lane.line)) /\ ~(neural /\ tree[Lane.node].terminal)
Opened == Expand(tree, Lane.node, Successors[Last(Lane.line)])

\* The arena cannot hold the node's children: it stays expanded with none.
OutOfMemory ==
    /\ GoesOn /\ ~tree[Lane.node].expanded /\ "alloc" \in Faults
    /\ Leaf(Lane, Expand(tree, Lane.node, <<>>))
    /\ UNCHANGED <<fixed, stop, tally, pending, published, done, report>>

\* A new child is entered and is the leaf; the incremental evaluator may
\* refuse the move, which is then taken back.
ExpandOne ==
    /\ GoesOn
    /\ LET n == Lane.node
           i == Opened[n].next + 1
           t == Attached(Opened, n)
       IN  /\ CanExpand(Opened, n) /\ Place(Opened, n) # 0
           /\ \/ Leaf(Advance(Lane, t, n, i), RaiseLoss(t, n, i))
              \/ "eval" \in Faults /\ Broken(Lane, t)
    /\ UNCHANGED <<fixed, stop, tally, pending, published, done, report>>

\* Nothing to expand, or no node left for it: one of the selectable children.
SelectChild ==
    /\ GoesOn
    /\ LET n == Lane.node
           t == IF CanExpand(Opened, n) THEN Consumed(Opened, n) ELSE Opened
       IN  /\ CanExpand(Opened, n) => Place(Opened, n) = 0
           /\ IF Selectable(t, n) = {} THEN Leaf(Lane, t)
              ELSE \E i \in Selectable(t, n) :
                \/ LET next == Advance(Lane, t, n, i)
                   IN  IF next.node = 0 THEN Leaf(next, RaiseLoss(t, n, i))
                       ELSE /\ lanes' = [lanes EXCEPT ![at] = next]
                            /\ tree' = RaiseLoss(t, n, i)
                            /\ UNCHANGED <<pc, at>>
                \/ "eval" \in Faults /\ Leaf(Into(Lane, n, i), RaiseLoss(t, n, i))
    /\ UNCHANGED <<fixed, stop, tally, pending, published, done, report>>

\* The leaves of the batch are scored together; a batch that fails is even.
ScoreBatch ==
    /\ pc = "score"
    /\ \E given \in [DOMAIN lanes -> LeafValues] \cup {[i \in DOMAIN lanes |-> 1]} :
          lanes' = [i \in DOMAIN lanes |->
                       IF lanes[i].terminal THEN lanes[i] ELSE [lanes[i] EXCEPT !.value = given[i]]]
    /\ pc' = "finish" /\ at' = 1
    /\ UNCHANGED <<fixed, stop, tree, tally, pending, published, done, report>>

\* backpropagate, first edge first; an edge may occur twice on a path.
CreditEdge(t, e, v) ==
    LET edge == [t EXCEPT ![e[1]].kids[e[2]].loss = @ - 1, ![e[1]].kids[e[2]].visits = @ + 1,
                          ![e[1]].kids[e[2]].value = @ + v]
        c == t[e[1]].kids[e[2]].node
    IN  IF c = 0 THEN edge ELSE [edge EXCEPT ![c].visits = @ + 1, ![c].value = @ + v]
Credit(t, path, v) == FoldLeft(LAMBDA acc, e : CreditEdge(acc, e, v), t, path)

\* A bug to be caught: a batch publishes one visit per child, however many
\* of its lanes took it.
AddsOfOne(sums) ==
    UNION {{<<i, "visits", 1>>, <<i, "value", sums[i].value>>} :
              i \in {j \in DOMAIN sums : sums[j].visits > 0}}
Adds(sums) ==
    UNION {{<<i, "visits", sums[i].visits>>, <<i, "value", sums[i].value>>} :
              i \in {j \in DOMAIN sums : sums[j].visits > 0}}

FinishLane ==
    /\ pc = "finish"
    /\ LET path == Lane.path
           rooted == [tree EXCEPT ![Root].visits = @ + 1, ![Root].value = @ + Lane.value]
           sums == IF path = <<>> THEN tally
                   ELSE [tally EXCEPT ![path[1][2]] = [visits |-> @.visits + 1, value |-> @.value + Lane.value]]
       IN  /\ tree' = Credit(rooted, path, Lane.value)
           /\ done' = IF path = <<>> THEN [done EXCEPT !.empty = @ + 1] ELSE [done EXCEPT !.counted = @ + 1]
           /\ lanes' = [lanes EXCEPT ![at] = NewLane]
           /\ IF at < Len(lanes)
              THEN at' = at + 1 /\ pc' = pc /\ tally' = sums /\ pending' = pending
              ELSE at' = 1 /\ pc' = "publish" /\ tally' = Nothing /\ pending' = Adds(sums)
    /\ UNCHANGED <<fixed, stop, published, report>>

\* The shared root: relaxed adds, one per field, seen in any order.
Publish ==
    /\ pc = "publish"
    /\ \/ \E add \in pending :
              /\ published' = [published EXCEPT ![add[1]][add[2]] = @ + add[3]]
              /\ pending' = pending \ {add}
              /\ UNCHANGED <<pc, lanes>>
       \/ /\ pending = {} /\ pc' = "claim" /\ lanes' = <<>>
          /\ UNCHANGED <<published, pending>>
    /\ UNCHANGED <<fixed, stop, tree, at, tally, done, report>>

(***************************************************************************)
(* search_get_root_lines, run by another thread: the most visited child    *)
(* not yet listed, then its score from visits and value read anew.         *)
(***************************************************************************)
Unlisted == {i \in RootIndices \ report.used : published[i].visits > 0}
MostVisited(S) ==
    CHOOSE i \in S : \A j \in S \ {i} :
        \/ published[i].visits > published[j].visits
        \/ published[i].visits = published[j].visits /\ i < j
ListLine ==
    /\ report.line = 0 /\ Unlisted # {}
    /\ LET i == MostVisited(Unlisted)
       IN  report' = [report EXCEPT !.used = @ \cup {i}, !.line = i]
    /\ UNCHANGED <<fixed, stop, tree, lanes, pc, at, tally, pending, published, done>>

Clamped(score) == IF score > 1000 THEN 1000 ELSE IF score < -1000 THEN -1000 ELSE score
RootScore(i) ==
    LET gain == (published[i].value - published[i].visits) * 1000
    IN  IF published[i].visits = 0 THEN 0
        ELSE Clamped(IF gain < 0 THEN -((-gain) \div published[i].visits)
                     ELSE gain \div published[i].visits)
ScoreLine ==
    /\ report.line # 0
    /\ report' = [report EXCEPT !.lines = Append(@, [move |-> report.line, score |-> RootScore(report.line)]),
                                !.line = 0]
    /\ UNCHANGED <<fixed, stop, tree, lanes, pc, at, tally, pending, published, done>>

Worker == Claim \/ BreakOff \/ DepthLimit \/ GameOver \/ KnownOver \/ OutOfMemory
            \/ ExpandOne \/ SelectChild \/ ScoreBatch \/ FinishLane \/ Publish
Next == Worker \/ RequestStop \/ ListLine \/ ScoreLine
Spec == Init /\ [][Next]_vars

----------------------------------------------------------------------------
Nodes == DOMAIN tree
Edge(e) == tree[e[1]].kids[e[2]]
Visited(e) == Edge(e).visits

EdgesOf(n) == {<<n, i>> : i \in DOMAIN tree[n].kids}
AllEdges == UNION {EdgesOf(n) : n \in Nodes}

\* Visits flow through the tree without loss: a node was visited as often as
\* the edges into it, the root once more per simulation, although positions
\* are shared by transposition, met twice on one line, or without a node.
FlowIsConserved ==
    \A n \in Nodes :
        tree[n].visits = MapThenSumSet(Visited, {e \in AllEdges : Edge(e).node = n})
                         + IF n = Root THEN done.counted + done.empty ELSE 0

\* The virtual losses on an edge are the unfinished lanes that took it: none
\* is forgotten on any way out of a descent, so that no child stays repellent.
LossIsInFlight ==
    \A e \in AllEdges :
        Edge(e).loss = MapThenSumSet(LAMBDA k : Cardinality({j \in DOMAIN lanes[k].path : lanes[k].path[j] = e}),
                                     DOMAIN lanes)

\* A simulation never plays on after the end of its own game, and is worth what
\* the rules say of its own line.  Lanes, that keep verdicts at shared nodes,
\* may take over or overlook a verdict only where positions repeat.
VerdictIsOwn ==
    \A k \in DOMAIN lanes :
        LET lane == lanes[k] IN
        /\ \A last \in Len(history) .. Len(lane.line) - 1 :
              LET before == SubSeq(lane.line, 1, last)
              IN  Finished(before) => neural /\ Repeated(before)
        /\ lane.terminal /\ Finished(lane.line) =>
              \/ lane.value = OwnVerdict(lane.line)
              \/ neural /\ Repeated(lane.line)

\* Every simulation that made a move is published exactly once, under the
\* child it began with, whether at once or summed over a batch.
PublishedOnce ==
    LET visitsOf(i) == published[i].visits + tally[i].visits
        waiting == {add \in pending : add[2] = "visits"}
    IN  /\ MapThenSumSet(visitsOf, RootIndices) + MapThenSumSet(LAMBDA add : add[3], waiting) = done.counted
        /\ \A i \in RootIndices : published[i].visits <= tree[Root].kids[i].visits

=============================================================================
