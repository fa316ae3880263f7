----------------------------- MODULE SearchJob -----------------------------
(***************************************************************************)
(* The life of a search job of src/search.c: search_start validates the    *)
(* request, expands the root and spawns the workers; the workers claim     *)
(* simulations against the node budget; search_request_stop,               *)
(* search_ponderhit and the clock reach them through atomics; search_join  *)
(* waits for every thread and chooses the result; search_destroy frees the *)
(* job.  A context lends each worker index a tree that outlives the job.   *)
(*                                                                         *)
(* One caller thread drives the jobs, one after the other, as the USI      *)
(* driver, self-play and the browser engine do.  The job runs MCTS: the    *)
(* classic workers claim one simulation at a time, the neural ones         *)
(* (run_neural_batch) a batch.  What a simulation does inside its own tree *)
(* is the subject of MctsTree; here it either records a visit at the root  *)
(* or, cut short before its first edge, does not.                          *)
(***************************************************************************)
EXTENDS Integers, FiniteSets

CONSTANTS
    MaxThreads,     \* most workers a job may have (64 in the code)
    Requests,       \* what callers ask search_start for
    Batch,          \* leaf_batch_size of the neural workers
    MaxSims         \* where the counters of an unlimited search saturate

\* The root position: whether a legal move passes the searchmoves filter,
\* whether the side to move may declare a win, and what shogi_game_result says
\* of it before it counts the moves.
Roots == {r \in [moves : BOOLEAN, declares : BOOLEAN, verdict : {"ongoing", "draw", "win", "loss"}] :
            r.declares => r.verdict # "ongoing"}

ASSUME SearchJobAssumption ==
    /\ MaxThreads \in Nat \ {0}
    /\ Requests \subseteq
         [limits : [nodes : Nat, infinite : BOOLEAN, ponder : BOOLEAN, timed : BOOLEAN],
          root : Roots, neural : BOOLEAN, with_context : BOOLEAN, threads : 1 .. MaxThreads]
    /\ Batch \in Nat \ {0}
    /\ MaxSims \in Nat \ {0}

Workers == 0 .. MaxThreads - 1

\* A request: the SearchLimits as far as the life of the job depends on them;
\* the root; of the options, the kind of worker, whether there is a context,
\* and the number of threads.
NoRequest == [limits |-> [nodes |-> 0, infinite |-> FALSE, ponder |-> FALSE, timed |-> FALSE],
              root |-> [moves |-> TRUE, declares |-> FALSE, verdict |-> "ongoing"],
              neural |-> FALSE, with_context |-> FALSE, threads |-> 1]

VARIABLES
    caller,         \* where the calling thread is
    cursor,         \* the worker index it is at while starting or joining
    request,        \* the job's copy of the request
    stop, pondering, deadline,              \* what should_stop reads
    worker_count, workers_done, joined, result,
    simulations,    \* the shared claim counter
    visits,         \* visits published at the job's root
    pc,             \* each worker thread
    expected,       \* the counter value its compare-and-exchange expects
    claimed,        \* the simulations it has claimed and not yet run
    holds,          \* whether it has the context's tree of its index
    in_use,         \* the flag of each context tree
    at_home         \* whether the tree's memory is in the context

control == <<stop, pondering, deadline>>
outcome == <<worker_count, joined, result>>
counters == <<workers_done, simulations, visits>>
locals == <<pc, expected, claimed, holds>>
context == <<in_use, at_home>>
vars == <<caller, cursor, request, control, outcome, counters, locals, context>>

CallerPCs == {"idle", "starting", "holding", "joining", "destroying", "aborting"}
WorkerPCs == {"absent", "prepare", "check", "claim", "cas", "simulate", "backprop",
              "release", "done", "cleanup", "exited"}

Init ==
    /\ caller = "idle" /\ cursor = 0
    /\ request = NoRequest
    /\ stop = FALSE /\ pondering = FALSE /\ deadline = "none"
    /\ worker_count = 0 /\ joined = FALSE /\ result = {}
    /\ workers_done = 0 /\ simulations = 0 /\ visits = 0
    /\ pc = [w \in Workers |-> "absent"]
    /\ expected = [w \in Workers |-> 0]
    /\ claimed = [w \in Workers |-> 0]
    /\ holds = [w \in Workers |-> FALSE]
    /\ in_use = [w \in Workers |-> FALSE]
    /\ at_home = [w \in Workers |-> TRUE]

-----------------------------------------------------------------------------

(***************************************************************************)
(* What the workers look at.                                               *)
(***************************************************************************)

\* search_deadline: pondering and infinite searches have none, a node limit
\* alone has none; anything else is timed, by default.
SearchDeadline(l) ==
    IF l.infinite \/ l.ponder \/ (l.nodes # 0 /\ ~l.timed) THEN "none" ELSE "armed"

\* should_stop.  The node budget is that of MCTS, without the overrun.
ShouldStop ==
    \/ stop
    \/ deadline = "passed"
    \/ request.limits.nodes # 0 /\ simulations >= request.limits.nodes

\* An unlimited search counts on for ever; its counters saturate.
Plus(n, k) == IF request.limits.nodes = 0 /\ n + k > MaxSims THEN MaxSims ELSE n + k

Spawned(w) == pc[w] # "absent"
Finished(w) == pc[w] \in {"cleanup", "exited"}

\* Bug: done one worker early.
Bug_DoneEarly == workers_done + 1 >= worker_count

\* search_is_done
IsDone == workers_done >= worker_count

-----------------------------------------------------------------------------

(***************************************************************************)
(* The calling thread.                                                     *)
(***************************************************************************)

\* search_start up to the creation of the threads.  A root without moves
\* gets its result at once and no workers.
Start(r) ==
    /\ caller = "idle"
    /\ request' = r
    /\ stop' = FALSE /\ pondering' = r.limits.ponder
    /\ deadline' = SearchDeadline(r.limits)
    /\ workers_done' = 0 /\ simulations' = 0 /\ visits' = 0
    /\ joined' = FALSE /\ cursor' = 0
    /\ pc' = [w \in Workers |-> "absent"]
    /\ IF r.root.moves
       THEN caller' = "starting" /\ worker_count' = r.threads /\ result' = {}
       ELSE /\ caller' = "holding" /\ worker_count' = 0
            /\ result' = {IF r.root.verdict = "win" THEN "declaration_win" ELSE "resign"}
    /\ UNCHANGED <<expected, claimed, holds, context>>

\* One round of the creation loop: take the context's tree of this index if
\* nobody has it, and create the thread.
Spawn ==
    /\ caller = "starting" /\ cursor < worker_count
    /\ LET took == request.with_context /\ ~in_use[cursor]
       IN  /\ holds' = [holds EXCEPT ![cursor] = took]
           /\ in_use' = [in_use EXCEPT ![cursor] = @ \/ took]
    /\ pc' = [pc EXCEPT ![cursor] = "prepare"]
    /\ claimed' = [claimed EXCEPT ![cursor] = 0]
    /\ expected' = [expected EXCEPT ![cursor] = 0]
    /\ cursor' = cursor + 1
    /\ UNCHANGED <<caller, request, control, outcome, counters, at_home>>

\* Bug: the failure path joins nobody.
Bug_AbortForgetsWorkers ==
    /\ caller = "starting" /\ cursor < worker_count
    /\ stop' = TRUE /\ worker_count' = 0 /\ cursor' = 0
    /\ caller' = "aborting"
    /\ UNCHANGED <<request, pondering, deadline, joined, result, counters, locals, context>>

\* The allocation of a worker or its pthread_create fails: the flag is given
\* back, the workers already running are stopped, joined, and the job freed.
SpawnFails ==
    /\ caller = "starting" /\ cursor < worker_count
    /\ stop' = TRUE /\ worker_count' = cursor /\ cursor' = 0
    /\ caller' = "aborting"
    /\ UNCHANGED <<request, pondering, deadline, joined, result, counters, locals, context>>

\* search_start returns the job.
Started ==
    /\ caller = "starting" /\ cursor = worker_count
    /\ caller' = "holding" /\ cursor' = 0
    /\ UNCHANGED <<request, control, outcome, counters, locals, context>>

\* search_request_stop
RequestStop ==
    /\ caller = "holding"
    /\ stop' = TRUE
    /\ UNCHANGED <<caller, cursor, request, pondering, deadline, outcome, counters, locals, context>>

\* Bug: the deadline is computed from limits that still say ponder.
Bug_PonderHitKeepsLimits ==
    /\ caller = "holding" /\ pondering
    /\ pondering' = FALSE
    /\ deadline' = SearchDeadline(request.limits)
    /\ UNCHANGED <<caller, cursor, request, stop, outcome, counters, locals, context>>

\* search_ponderhit: only the first one finds pondering set; it arms the
\* deadline that the limits give without pondering.
PonderHit ==
    /\ caller = "holding" /\ pondering
    /\ pondering' = FALSE
    /\ deadline' = SearchDeadline([request.limits EXCEPT !.ponder = FALSE])
    /\ UNCHANGED <<caller, cursor, request, stop, outcome, counters, locals, context>>

\* search_join, called on a job that is not joined yet.
Join ==
    /\ caller = "holding" /\ ~joined
    /\ caller' = "joining" /\ cursor' = 0
    /\ UNCHANGED <<request, control, outcome, counters, locals, context>>

\* search_destroy: a job that may still run is stopped and joined first.
Destroy ==
    /\ caller = "holding"
    /\ caller' = "destroying"
    /\ stop' = (stop \/ (~joined /\ worker_count # 0))
    /\ cursor' = IF joined THEN worker_count ELSE 0
    /\ UNCHANGED <<request, pondering, deadline, outcome, counters, locals, context>>

\* pthread_join of one worker.
JoinWorker ==
    /\ caller \in {"joining", "destroying", "aborting"} /\ cursor < worker_count
    /\ pc[cursor] = "exited"
    /\ cursor' = cursor + 1
    /\ UNCHANGED <<caller, request, control, outcome, counters, locals, context>>

\* choose_result adds its flag to what search_start preset.  Without a
\* visited child the first root move is played.
ChooseResult ==
    result \cup
      {IF request.root.declares THEN "declaration_win" ELSE IF request.root.moves THEN "move" ELSE "resign"}

\* search_join has joined every thread.
Joined ==
    /\ caller = "joining" /\ cursor = worker_count
    /\ joined' = TRUE /\ result' = ChooseResult
    /\ caller' = "holding" /\ cursor' = 0
    /\ UNCHANGED <<request, control, worker_count, counters, locals, context>>

\* The job is freed, by search_destroy or by search_start on its way to
\* NULL: its fields are gone.
Freed ==
    /\ caller \in {"destroying", "aborting"} /\ cursor = worker_count
    /\ caller' = "idle" /\ cursor' = 0
    /\ request' = NoRequest
    /\ stop' = FALSE /\ pondering' = FALSE /\ deadline' = "none"
    /\ worker_count' = 0 /\ joined' = FALSE /\ result' = {}
    /\ workers_done' = 0 /\ simulations' = 0 /\ visits' = 0
    /\ UNCHANGED <<locals, context>>

Caller ==
    \/ \E r \in Requests : Start(r)
    \/ Spawn \/ SpawnFails \/ Started \/ RequestStop \/ PonderHit
    \/ Join \/ Destroy \/ JoinWorker \/ Joined \/ Freed

\* monotonic_ns reaches the armed deadline.
DeadlinePasses ==
    /\ deadline = "armed" /\ caller # "idle"
    /\ deadline' = "passed"
    /\ UNCHANGED <<caller, cursor, request, stop, pondering, outcome, counters, locals, context>>

-----------------------------------------------------------------------------

(***************************************************************************)
(* A worker thread: run_mcts_worker.                                       *)
(***************************************************************************)

Goto(w, label) == pc' = [pc EXCEPT ![w] = label]

\* worker_tree_prepare moves the context's tree into the worker and resets
\* it; when the allocation fails the worker goes straight to the release.
Prepare(w) ==
    /\ pc[w] = "prepare"
    /\ at_home' = [at_home EXCEPT ![w] = @ /\ ~holds[w]]
    /\ \E success \in BOOLEAN : Goto(w, IF success THEN "check" ELSE "release")
    /\ UNCHANGED <<caller, cursor, request, control, outcome, counters, expected, claimed, holds, in_use>>

\* The loop condition, and for a batch that is not full the one of
\* claim_simulation_batch.
Check(w) ==
    /\ pc[w] = "check"
    /\ Goto(w, IF ~ShouldStop THEN "claim"
               ELSE IF claimed[w] = 0 THEN "release" ELSE "simulate")
    /\ UNCHANGED <<caller, cursor, request, control, outcome, counters, expected, claimed, holds, context>>

\* Without a budget a fetch-and-add claims; with one, the counter is loaded.
Claim(w) ==
    /\ pc[w] = "claim"
    /\ IF request.limits.nodes = 0
       THEN LET k == IF request.neural THEN Batch ELSE 1
            IN  /\ simulations' = Plus(simulations, k)
                /\ claimed' = [claimed EXCEPT ![w] = k]
                /\ Goto(w, "simulate")
                /\ UNCHANGED expected
       ELSE /\ expected' = [expected EXCEPT ![w] = simulations]
            /\ Goto(w, "cas")
            /\ UNCHANGED <<simulations, claimed>>
    /\ UNCHANGED <<caller, cursor, request, control, outcome, workers_done, visits, holds, context>>

\* Bug: the claim is a test followed by an unconditional increment.
Bug_ClaimWithoutCompare(w) ==
    /\ pc[w] = "cas"
    /\ IF expected[w] >= request.limits.nodes
       THEN /\ Goto(w, IF claimed[w] = 0 THEN "release" ELSE "simulate")
            /\ UNCHANGED <<simulations, claimed>>
       ELSE /\ simulations' = simulations + 1
            /\ claimed' = [claimed EXCEPT ![w] = @ + 1]
            /\ Goto(w, IF request.neural /\ claimed[w] + 1 < Batch THEN "check" ELSE "simulate")
    /\ UNCHANGED <<caller, cursor, request, control, outcome, workers_done, visits, expected, holds, context>>

\* One round of the loop around the weak compare-and-exchange, which reloads
\* the expected value when it fails and may fail spuriously.
CompareExchange(w) ==
    /\ pc[w] = "cas"
    /\ \/ /\ expected[w] >= request.limits.nodes
          /\ Goto(w, IF claimed[w] = 0 THEN "release" ELSE "simulate")
          /\ UNCHANGED <<expected, simulations, claimed>>
       \/ /\ expected[w] < request.limits.nodes /\ expected[w] = simulations
          /\ simulations' = simulations + 1
          /\ claimed' = [claimed EXCEPT ![w] = @ + 1]
          /\ Goto(w, IF request.neural /\ claimed[w] + 1 < Batch THEN "check" ELSE "simulate")
          /\ UNCHANGED expected
       \/ /\ expected[w] < request.limits.nodes
          /\ expected' = [expected EXCEPT ![w] = simulations]
          /\ UNCHANGED <<pc, simulations, claimed>>
    /\ UNCHANGED <<caller, cursor, request, control, outcome, workers_done, visits, holds, context>>

\* The descent.  A classic simulation asks should_stop, and whether the game
\* is over, before its first edge, and then records nothing; a neural lane
\* asks neither at the root.  (The evaluator's updates do not fail.)
Simulate(w) ==
    /\ pc[w] = "simulate"
    /\ IF ~request.neural /\ (ShouldStop \/ request.root.verdict # "ongoing")
       THEN Goto(w, "check") /\ claimed' = [claimed EXCEPT ![w] = 0]
       ELSE Goto(w, "backprop") /\ UNCHANGED claimed
    /\ UNCHANGED <<caller, cursor, request, control, outcome, counters, expected, holds, context>>

\* The fetch-and-add of the claimed simulations at the job's root.
Backprop(w) ==
    /\ pc[w] = "backprop"
    /\ visits' = Plus(visits, claimed[w])
    /\ claimed' = [claimed EXCEPT ![w] = 0]
    /\ Goto(w, "check")
    /\ UNCHANGED <<caller, cursor, request, control, outcome, workers_done, simulations, expected, holds, context>>

\* worker_tree_release: the tree's memory goes back before the flag is
\* cleared, one release store that publishes both.
Release(w) ==
    /\ pc[w] = "release"
    /\ at_home' = [at_home EXCEPT ![w] = @ \/ holds[w]]
    /\ in_use' = [in_use EXCEPT ![w] = @ /\ ~holds[w]]
    /\ holds' = [holds EXCEPT ![w] = FALSE]
    /\ Goto(w, "done")
    /\ UNCHANGED <<caller, cursor, request, control, outcome, counters, expected, claimed>>

\* The release increment that search_is_done acquires.
CountDone(w) ==
    /\ pc[w] = "done"
    /\ workers_done' = workers_done + 1
    /\ Goto(w, "cleanup")
    /\ UNCHANGED <<caller, cursor, request, control, outcome, simulations, visits, expected, claimed, holds, context>>

\* Evaluator states and the worker itself are freed; the thread ends.
Cleanup(w) ==
    /\ pc[w] = "cleanup"
    /\ Goto(w, "exited")
    /\ UNCHANGED <<caller, cursor, request, control, outcome, counters, expected, claimed, holds, context>>

Worker(w) ==
    \/ Prepare(w) \/ Check(w) \/ Claim(w) \/ CompareExchange(w) \/ Simulate(w)
    \/ Backprop(w) \/ Release(w) \/ CountDone(w) \/ Cleanup(w)

Next == Caller \/ DeadlinePasses \/ \E w \in Workers : Worker(w)

Spec == Init /\ [][Next]_vars

\* Threads run and time passes; a call that has been made proceeds.  Nobody
\* has to stop, join or start anything.  A compare-and-exchange does not fail
\* for ever.
CallProceeds == Spawn \/ Started \/ JoinWorker \/ Joined \/ Freed

Fairness ==
    /\ WF_vars(CallProceeds)
    /\ WF_vars(DeadlinePasses)
    /\ \A w \in Workers :
         /\ WF_vars(Worker(w))
         /\ WF_vars(CompareExchange(w) /\ pc'[w] # "cas")

FairSpec == Spec /\ Fairness

-----------------------------------------------------------------------------

TypeOK ==
    /\ caller \in CallerPCs /\ cursor \in 0 .. MaxThreads
    /\ request \in Requests \cup {NoRequest}
    /\ stop \in BOOLEAN /\ pondering \in BOOLEAN
    /\ deadline \in {"none", "armed", "passed"}
    /\ worker_count \in 0 .. MaxThreads /\ joined \in BOOLEAN
    /\ result \subseteq {"move", "declaration_win", "resign"}
    /\ workers_done \in Nat /\ simulations \in Nat /\ visits \in Nat
    /\ pc \in [Workers -> WorkerPCs]
    /\ expected \in [Workers -> Nat] /\ claimed \in [Workers -> Nat]
    /\ holds \in [Workers -> BOOLEAN]
    /\ in_use \in [Workers -> BOOLEAN] /\ at_home \in [Workers -> BOOLEAN]

\* The node limit is a hard cap: however the workers' claims race, they never
\* claim more than the caller allowed.
WithinBudget == request.limits.nodes # 0 => simulations <= request.limits.nodes

\* Once search_is_done answers true, every worker is past its last access of
\* what progress, root lines and root policy read.
DoneMeansQuiet ==
    caller = "holding" /\ IsDone =>
        \A w \in Workers : Spawned(w) => Finished(w)

\* A freed job has no thread left that could still touch it, and every tree
\* it borrowed is back in the context, whichever way search_start or the
\* caller got there.
NothingOutlivesTheJob ==
    caller = "idle" =>
        /\ \A w \in Workers : pc[w] \in {"absent", "exited"}
        /\ \A w \in Workers : ~in_use[w] /\ at_home[w]

\* A tree is out of the context only in the hands of the worker that raised
\* its flag.
TreeHasOneOwner ==
    \A w \in Workers :
        /\ holds[w] => in_use[w] /\ Spawned(w) /\ ~Finished(w)
        /\ ~at_home[w] => holds[w]

\* A joined search with a legal move always has a move to play (or a win to
\* declare), even one that was stopped before its first visit.
JoinedHasOutcome ==
    joined /\ request.root.moves => result \cap {"move", "declaration_win"} # {}

\* A search that is neither infinite nor pondering ends by itself, by its
\* budget or by a deadline, also one that search_ponderhit has just released:
\* the caller's join returns.
SearchEndsByItself ==
    caller = "joining" /\ ~request.limits.infinite /\ ~pondering ~> caller # "joining"

-----------------------------------------------------------------------------

(***************************************************************************)
(* The inductive invariant behind the safety properties.                   *)
(***************************************************************************)

\* How far the calling thread is determines which threads exist, and joining
\* never runs ahead of a thread that still works.
CallerInv ==
    /\ cursor =< worker_count
    /\ caller = "idle" => \A w \in Workers : pc[w] \in {"absent", "exited"}
    /\ caller = "starting" => ~joined /\ \A w \in Workers : Spawned(w) <=> w < cursor
    /\ caller \notin {"idle", "starting"} =>
           \A w \in Workers : Spawned(w) <=> w < worker_count
    /\ caller \in {"joining", "destroying", "aborting"} =>
           \A w \in Workers : w < cursor => pc[w] = "exited"
    /\ joined => \A w \in Workers : w < worker_count => pc[w] = "exited"

\* workers_done is the number of workers past their increment.
WorkersCounted ==
    caller # "idle" => workers_done = Cardinality({w \in Workers : Finished(w)})

\* A flag is raised exactly while its worker holds the tree, which it does
\* only before its release.
TreesLent ==
    \A w \in Workers :
        /\ holds[w] <=> in_use[w]
        /\ holds[w] => pc[w] \in {"prepare", "check", "claim", "cas", "simulate", "backprop", "release"}
        /\ ~at_home[w] => holds[w]

IInv ==
    /\ TypeOK /\ CallerInv /\ WorkersCounted /\ TreesLent
    /\ WithinBudget /\ JoinedHasOutcome

=============================================================================
