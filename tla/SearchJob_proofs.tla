-------------------------- MODULE SearchJob_proofs --------------------------
(***************************************************************************)
(* The safety of a search job, for every number of workers, every batch    *)
(* size and every request: the inductive invariant IInv of SearchJob and   *)
(* what follows from it.                                                   *)
(***************************************************************************)
EXTENDS SearchJob, FiniteSetTheorems, TLAPS

USE SearchJobAssumption

LEMMA MaxThreadsType == MaxThreads \in Nat \ {0}
BY DEF SearchJobAssumption

\* What the requests are made of.
LEMMA RequestFields ==
    ASSUME NEW r \in Requests \cup {NoRequest}
    PROVE  /\ r.limits.nodes \in Nat /\ r.threads \in 1 .. MaxThreads
           /\ r.limits.infinite \in BOOLEAN /\ r.limits.ponder \in BOOLEAN
           /\ r.limits.timed \in BOOLEAN /\ r.with_context \in BOOLEAN
           /\ r.neural \in BOOLEAN
<1>1. CASE r \in Requests
  <2>. DEFINE Limits == [nodes : Nat, infinite : BOOLEAN, ponder : BOOLEAN, timed : BOOLEAN]
  <2>1. r \in [limits : Limits, root : Roots, neural : BOOLEAN, with_context : BOOLEAN,
               threads : 1 .. MaxThreads]
    BY <1>1 DEF SearchJobAssumption
  <2>2. r.limits \in Limits
    BY <2>1
  <2>. QED BY <2>1, <2>2
<1>2. CASE r = NoRequest
  <2>1. /\ r.limits = [nodes |-> 0, infinite |-> FALSE, ponder |-> FALSE, timed |-> FALSE]
        /\ r.threads = 1 /\ r.neural = FALSE /\ r.with_context = FALSE
    BY <1>2 DEF NoRequest
  <2>2. /\ r.limits.nodes = 0 /\ r.limits.infinite = FALSE
        /\ r.limits.ponder = FALSE /\ r.limits.timed = FALSE
    BY <2>1
  <2>3. r.limits.nodes \in Nat /\ r.threads \in 1 .. MaxThreads
    BY <2>1, <2>2, MaxThreadsType
  <2>4. /\ r.limits.infinite \in BOOLEAN /\ r.limits.ponder \in BOOLEAN
        /\ r.limits.timed \in BOOLEAN
    BY <2>2, Zenon
  <2>5. r.neural \in BOOLEAN /\ r.with_context \in BOOLEAN
    BY <2>1, Zenon
  <2>. QED BY <2>3, <2>4, <2>5
<1>. QED BY <1>1, <1>2

\* The workers that are past their increment can be counted.
LEMMA FinishedIsFinite ==
    /\ IsFiniteSet(Workers)
    /\ IsFiniteSet({w \in Workers : Finished(w)})
    /\ Cardinality({w \in Workers : Finished(w)}) \in Nat
<1>1. IsFiniteSet(Workers)
  BY MaxThreadsType, FS_Interval DEF Workers
<1>2. {w \in Workers : Finished(w)} \in SUBSET Workers
  OBVIOUS
<1>. QED BY <1>1, <1>2, FS_Subset, FS_CardinalityType

LEMMA InitEstablishes == Init => IInv
<1>. SUFFICES ASSUME Init PROVE IInv
  OBVIOUS
<1>. USE MaxThreadsType DEF Init
<1>1. TypeOK
  <2>1. request \in Requests \cup {NoRequest} /\ result \subseteq {"move", "declaration_win", "resign"}
    OBVIOUS
  <2>2. /\ caller \in CallerPCs /\ cursor \in 0 .. MaxThreads /\ worker_count \in 0 .. MaxThreads
        /\ workers_done \in Nat /\ simulations \in Nat /\ visits \in Nat
        /\ deadline \in {"none", "armed", "passed"}
    BY DEF CallerPCs
  <2>3. stop \in BOOLEAN /\ pondering \in BOOLEAN /\ joined \in BOOLEAN
    OBVIOUS
  <2>4. /\ pc \in [Workers -> WorkerPCs]
        /\ expected \in [Workers -> Nat] /\ claimed \in [Workers -> Nat]
        /\ holds \in [Workers -> BOOLEAN]
        /\ in_use \in [Workers -> BOOLEAN] /\ at_home \in [Workers -> BOOLEAN]
    BY DEF WorkerPCs
  <2>. QED BY <2>1, <2>2, <2>3, <2>4 DEF TypeOK
<1>2. CallerInv /\ WorkersCounted
  BY DEF CallerInv, WorkersCounted
<1>3. TreesLent
  BY DEF TreesLent
<1>4. WithinBudget /\ JoinedHasOutcome
  BY DEF WithinBudget, JoinedHasOutcome, NoRequest
<1>. QED BY <1>1, <1>2, <1>3, <1>4 DEF IInv

-----------------------------------------------------------------------------

(***************************************************************************)
(* The calling thread's steps.                                             *)
(***************************************************************************)

LEMMA StartKeeps ==
    ASSUME IInv, NEW r \in Requests, Start(r)
    PROVE  IInv'
<1>. USE MaxThreadsType DEF Start, IInv
<1>0. /\ r.threads \in 1 .. MaxThreads /\ r \in Requests \cup {NoRequest}
      /\ r.limits.ponder \in BOOLEAN
  BY RequestFields
<1>1. pc' = [w \in Workers |-> "absent"] /\ UNCHANGED <<expected, claimed, holds, in_use, at_home>>
  BY DEF context
<1>2. \/ caller' = "starting" /\ worker_count' = r.threads
      \/ caller' = "holding" /\ worker_count' = 0
  OBVIOUS
<1>3. TypeOK'
  <2>1. result' \subseteq {"move", "declaration_win", "resign"}
    OBVIOUS
  <2>2. stop' \in BOOLEAN /\ joined' \in BOOLEAN
    OBVIOUS
  <2>3. /\ caller' \in CallerPCs /\ cursor' \in 0 .. MaxThreads /\ worker_count' \in 0 .. MaxThreads
        /\ workers_done' \in Nat /\ simulations' \in Nat /\ visits' \in Nat
    BY <1>0, <1>2 DEF CallerPCs
  <2>4. deadline' \in {"none", "armed", "passed"}
    BY DEF SearchDeadline
  <2>5. pc' \in [Workers -> WorkerPCs]
    BY <1>1 DEF WorkerPCs
  <2>6. request' \in Requests \cup {NoRequest} /\ pondering' \in BOOLEAN
    BY <1>0
  <2>. QED BY <1>1, <2>1, <2>2, <2>3, <2>4, <2>5, <2>6 DEF TypeOK
<1>4. CallerInv'
  BY <1>0, <1>1, <1>2 DEF CallerInv, Spawned, Workers
<1>5. WorkersCounted'
  <2>1. {w \in Workers : Finished(w)}' = {}
    BY <1>1 DEF Finished
  <2>. QED BY <2>1, FS_EmptySet DEF WorkersCounted
<1>6. TreesLent'
  <2>1. \A w \in Workers : ~holds[w]
    BY DEF TreesLent, CallerInv
  <2>. QED BY <1>1, <2>1 DEF TreesLent
<1>7. WithinBudget' /\ JoinedHasOutcome'
  BY <1>0, RequestFields DEF WithinBudget, JoinedHasOutcome
<1>. QED BY <1>3, <1>4, <1>5, <1>6, <1>7

LEMMA SpawnKeeps == IInv /\ Spawn => IInv'
<1>. SUFFICES ASSUME IInv, Spawn PROVE IInv'
  OBVIOUS
<1>. DEFINE took == request.with_context /\ ~in_use[cursor]
<1>. USE MaxThreadsType DEF IInv
<1>0. /\ cursor \in Workers /\ cursor < worker_count /\ caller = "starting"
      /\ cursor \in Nat /\ worker_count \in 0 .. MaxThreads
  BY DEF Spawn, TypeOK, Workers
<1>1. /\ pc' = [pc EXCEPT ![cursor] = "prepare"]
      /\ claimed' = [claimed EXCEPT ![cursor] = 0]
      /\ expected' = [expected EXCEPT ![cursor] = 0]
      /\ holds' = [holds EXCEPT ![cursor] = took]
      /\ in_use' = [in_use EXCEPT ![cursor] = @ \/ took]
      /\ cursor' = cursor + 1
      /\ UNCHANGED <<caller, request, control, outcome, counters, at_home>>
  BY DEF Spawn
<1>2. took \in BOOLEAN /\ (in_use[cursor] \/ took) \in BOOLEAN
  OBVIOUS
<1>3. TypeOK'
  <2>1. /\ pc' \in [Workers -> WorkerPCs]
        /\ expected' \in [Workers -> Nat] /\ claimed' \in [Workers -> Nat]
    BY <1>0, <1>1 DEF TypeOK, WorkerPCs
  <2>2. holds' \in [Workers -> BOOLEAN] /\ in_use' \in [Workers -> BOOLEAN]
    <3>. HIDE DEF took
    <3>. QED BY <1>0, <1>1, <1>2 DEF TypeOK
  <2>. QED BY <1>0, <1>1, <2>1, <2>2 DEF TypeOK, control, outcome, counters
<1>4. pc[cursor] = "absent" /\ \A w \in Workers : Spawned(w) <=> w < cursor
  BY <1>0 DEF CallerInv, Spawned
<1>5. CallerInv'
  <2>1. \A w \in Workers : Spawned(w)' <=> w < cursor'
    BY <1>0, <1>1, <1>4 DEF Spawned, TypeOK, Workers
  <2>. QED BY <1>0, <1>1, <2>1 DEF CallerInv, outcome
<1>6. WorkersCounted'
  <2>1. \A w \in Workers : Finished(w)' <=> Finished(w)
    BY <1>0, <1>1, <1>4 DEF Finished, TypeOK
  <2>2. {w \in Workers : Finished(w)}' = {w \in Workers : Finished(w)}
    BY <2>1
  <2>. QED BY <1>0, <1>1, <2>2 DEF WorkersCounted, counters
<1>7. TreesLent'
  <2>1. ~holds[cursor] /\ ~in_use[cursor] /\ at_home[cursor]
    BY <1>0, <1>4 DEF TreesLent
  <2>2. /\ holds'[cursor] = request.with_context /\ in_use'[cursor] = request.with_context
        /\ \A w \in Workers : w # cursor => holds'[w] = holds[w] /\ in_use'[w] = in_use[w]
    <3>1. took = request.with_context /\ (in_use[cursor] \/ took) = request.with_context
      BY <2>1, RequestFields DEF TypeOK
    <3>. QED BY <1>0, <1>1, <3>1 DEF TypeOK
  <2>3. \A w \in Workers : pc'[w] = IF w = cursor THEN "prepare" ELSE pc[w]
    BY <1>0, <1>1 DEF TypeOK
  <2>. QED BY <1>0, <1>1, <2>1, <2>2, <2>3 DEF TreesLent
<1>8. WithinBudget' /\ JoinedHasOutcome'
  BY <1>1 DEF WithinBudget, JoinedHasOutcome, outcome, counters
<1>. QED BY <1>3, <1>5, <1>6, <1>7, <1>8

\* A step of the calling thread that leaves every thread alone.
LEMMA CallerOnlyKeeps ==
    ASSUME IInv, UNCHANGED <<request, counters, locals, context>>,
           caller # "idle",
           SpawnFails \/ Started \/ RequestStop \/ PonderHit \/ Join \/ Destroy
             \/ JoinWorker \/ Joined \/ DeadlinePasses
    PROVE  IInv'
<1>. USE MaxThreadsType DEF IInv
<1>1. TypeOK'
  <2>1. UNCHANGED <<request, workers_done, simulations, visits, pc, expected, claimed, holds, in_use, at_home>>
    BY DEF counters, locals, context
  <2>2. /\ caller' \in CallerPCs /\ cursor' \in 0 .. MaxThreads
        /\ worker_count' \in 0 .. MaxThreads
    BY DEF TypeOK, CallerInv, CallerPCs, SpawnFails, Started, RequestStop, PonderHit, Join, Destroy,
           JoinWorker, Joined, DeadlinePasses, outcome
  <2>3. stop' \in BOOLEAN /\ pondering' \in BOOLEAN /\ joined' \in BOOLEAN
    BY DEF TypeOK, SpawnFails, Started, RequestStop, PonderHit, Join, Destroy,
           JoinWorker, Joined, DeadlinePasses, outcome, control
  <2>4. deadline' \in {"none", "armed", "passed"}
    BY DEF TypeOK, SpawnFails, Started, RequestStop, PonderHit, Join, Destroy,
           JoinWorker, Joined, DeadlinePasses, control, SearchDeadline
  <2>5. result' \subseteq {"move", "declaration_win", "resign"}
    BY DEF TypeOK, SpawnFails, Started, RequestStop, PonderHit, Join, Destroy,
           JoinWorker, Joined, DeadlinePasses, outcome, ChooseResult
  <2>. QED BY <2>1, <2>2, <2>3, <2>4, <2>5 DEF TypeOK
<1>2. CallerInv'
  <2>1. UNCHANGED pc
    BY DEF locals
  <2>. USE DEF TypeOK, CallerInv, Spawned, Workers, outcome
  <2>2. CASE SpawnFails
    BY <2>1, <2>2 DEF SpawnFails
  <2>3. CASE Started
    BY <2>1, <2>3 DEF Started
  <2>4. CASE RequestStop \/ PonderHit \/ DeadlinePasses
    BY <2>1, <2>4 DEF RequestStop, PonderHit, DeadlinePasses
  <2>5. CASE Join
    BY <2>1, <2>5 DEF Join
  <2>6. CASE Destroy
    BY <2>1, <2>6 DEF Destroy
  <2>7. CASE JoinWorker
    BY <2>1, <2>7 DEF JoinWorker
  <2>8. CASE Joined
    BY <2>1, <2>8 DEF Joined
  <2>. QED BY <2>2, <2>3, <2>4, <2>5, <2>6, <2>7, <2>8
<1>3. WorkersCounted'
  BY DEF WorkersCounted, Finished, counters, locals
<1>4. TreesLent'
  BY DEF TreesLent, locals, context
<1>5. WithinBudget'
  BY DEF WithinBudget, counters
<1>6. JoinedHasOutcome'
  BY DEF JoinedHasOutcome, SpawnFails, Started, RequestStop, PonderHit, Join, Destroy,
         JoinWorker, Joined, DeadlinePasses, outcome, ChooseResult
<1>. QED BY <1>1, <1>2, <1>3, <1>4, <1>5, <1>6

LEMMA FreedKeeps == IInv /\ Freed => IInv'
<1>. SUFFICES ASSUME IInv, Freed PROVE IInv'
  OBVIOUS
<1>. USE MaxThreadsType DEF IInv, Freed
<1>0. UNCHANGED <<pc, expected, claimed, holds, in_use, at_home>>
  BY DEF locals, context
<1>1. TypeOK'
  <2>1. request' \in Requests \cup {NoRequest} /\ result' \subseteq {"move", "declaration_win", "resign"}
    OBVIOUS
  <2>2. stop' \in BOOLEAN /\ pondering' \in BOOLEAN /\ joined' \in BOOLEAN
    OBVIOUS
  <2>3. /\ caller' \in CallerPCs /\ cursor' \in 0 .. MaxThreads /\ worker_count' \in 0 .. MaxThreads
        /\ workers_done' \in Nat /\ simulations' \in Nat /\ visits' \in Nat
        /\ deadline' \in {"none", "armed", "passed"}
    BY DEF CallerPCs
  <2>. QED BY <1>0, <2>1, <2>2, <2>3 DEF TypeOK
<1>2. CallerInv'
  BY <1>0 DEF CallerInv, Spawned, TypeOK, Workers, WorkerPCs
<1>3. WorkersCounted' /\ TreesLent'
  BY <1>0 DEF WorkersCounted, TreesLent
<1>4. WithinBudget' /\ JoinedHasOutcome'
  BY DEF WithinBudget, JoinedHasOutcome, NoRequest
<1>. QED BY <1>1, <1>2, <1>3, <1>4

-----------------------------------------------------------------------------

(***************************************************************************)
(* The workers' steps.                                                     *)
(***************************************************************************)

\* A worker that moves on inside its loop changes nothing the caller and the
\* count of finished workers depend on.
LEMMA GotoKeeps ==
    ASSUME IInv, NEW w \in Workers, NEW l \in WorkerPCs, Goto(w, l),
           pc[w] \notin {"absent", "cleanup", "exited"},
           l \notin {"absent", "cleanup", "exited"},
           UNCHANGED <<caller, cursor, worker_count, joined, workers_done>>
    PROVE  CallerInv' /\ WorkersCounted' /\ pc' \in [Workers -> WorkerPCs]
<1>1. /\ \A v \in Workers : pc'[v] = IF v = w THEN l ELSE pc[v]
      /\ pc' \in [Workers -> WorkerPCs]
  BY DEF Goto, IInv, TypeOK
<1>2. /\ \A v \in Workers : Spawned(v)' <=> Spawned(v)
      /\ \A v \in Workers : Finished(v)' <=> Finished(v)
      /\ \A v \in Workers : pc[v] = "exited" => pc'[v] = "exited"
  BY <1>1 DEF Spawned, Finished
<1>3. caller # "idle"
  BY DEF IInv, CallerInv
<1>4. CallerInv'
  BY <1>2, <1>3 DEF IInv, CallerInv
<1>5. {v \in Workers : Finished(v)}' = {v \in Workers : Finished(v)}
  BY <1>2
<1>. QED BY <1>1, <1>4, <1>5 DEF IInv, WorkersCounted

\* A worker that keeps its tree, or has none, keeps the trees lent.
LEMMA GotoKeepsTrees ==
    ASSUME IInv, NEW w \in Workers, NEW l \in WorkerPCs, Goto(w, l),
           holds[w] => l \in {"prepare", "check", "claim", "cas", "simulate", "backprop", "release"},
           UNCHANGED <<holds, context>>
    PROVE  TreesLent'
<1>1. \A v \in Workers : pc'[v] = IF v = w THEN l ELSE pc[v]
  BY DEF Goto, IInv, TypeOK
<1>2. UNCHANGED <<in_use, at_home>>
  BY DEF context
<1>. QED BY <1>1, <1>2 DEF IInv, TreesLent

LEMMA PrepareKeeps ==
    ASSUME IInv, NEW w \in Workers, Prepare(w)
    PROVE  IInv'
<1>1. PICK l \in {"check", "release"} : Goto(w, l)
  BY DEF Prepare
<1>2. /\ pc[w] = "prepare" /\ l \in WorkerPCs
      /\ at_home' = [at_home EXCEPT ![w] = @ /\ ~holds[w]]
      /\ UNCHANGED <<caller, cursor, request, control, outcome, counters, expected, claimed, holds, in_use>>
  BY DEF Prepare, WorkerPCs
<1>3. CallerInv' /\ WorkersCounted' /\ pc' \in [Workers -> WorkerPCs]
  BY <1>1, <1>2, GotoKeeps DEF outcome, counters
<1>4. at_home' \in [Workers -> BOOLEAN]
  <2>1. (at_home[w] /\ ~holds[w]) \in BOOLEAN
    OBVIOUS
  <2>. QED BY <1>2, <2>1 DEF IInv, TypeOK
<1>5. TypeOK'
  BY <1>2, <1>3, <1>4 DEF IInv, TypeOK, control, outcome, counters
<1>6. TreesLent'
  <2>1. /\ \A v \in Workers : pc'[v] = IF v = w THEN l ELSE pc[v]
        /\ \A v \in Workers : v # w => at_home'[v] = at_home[v]
        /\ holds'[w] = holds[w] /\ in_use' = in_use
    BY <1>1, <1>2 DEF Goto, IInv, TypeOK
  <2>2. ~at_home'[w] => holds[w]
    BY <1>2 DEF IInv, TypeOK, TreesLent
  <2>. QED BY <1>1, <1>2, <2>1, <2>2 DEF IInv, TreesLent
<1>7. WithinBudget' /\ JoinedHasOutcome'
  BY <1>2 DEF IInv, WithinBudget, JoinedHasOutcome, outcome, counters
<1>. QED BY <1>3, <1>5, <1>6, <1>7 DEF IInv

\* The steps between the preparation and the release.
LEMMA LoopKeeps ==
    ASSUME IInv, NEW w \in Workers,
           Check(w) \/ Claim(w) \/ CompareExchange(w) \/ Simulate(w) \/ Backprop(w)
    PROVE  IInv'
<1>. DEFINE Loop == {"check", "claim", "cas", "simulate", "backprop", "release"}
<1>1. /\ pc[w] \in {"check", "claim", "cas", "simulate", "backprop"}
      /\ \/ \E l \in Loop : Goto(w, l)
         \/ UNCHANGED pc
  BY DEF Check, Claim, CompareExchange, Simulate, Backprop
<1>2. PICK l \in Loop : Goto(w, l)
  <2>1. CASE UNCHANGED pc
    BY <1>1, <2>1 DEF Goto, IInv, TypeOK
  <2>. QED BY <1>1, <2>1
<1>3. UNCHANGED <<caller, cursor, request, control, outcome, workers_done, holds, context>>
  BY DEF Check, Claim, CompareExchange, Simulate, Backprop, counters
<1>4. CallerInv' /\ WorkersCounted' /\ pc' \in [Workers -> WorkerPCs]
  BY <1>1, <1>2, <1>3, GotoKeeps DEF outcome, WorkerPCs
<1>5. TreesLent'
  BY <1>2, <1>3, GotoKeepsTrees DEF WorkerPCs
<1>6. /\ request.limits.nodes \in Nat /\ simulations \in Nat /\ visits \in Nat
      /\ Batch \in Nat /\ MaxSims \in Nat
      /\ expected \in [Workers -> Nat] /\ claimed \in [Workers -> Nat]
  BY RequestFields DEF IInv, TypeOK, SearchJobAssumption
<1>6a. \A n, k \in Nat : Plus(n, k) \in Nat
  BY <1>6 DEF Plus
<1>6b. claimed[w] \in Nat /\ claimed[w] + 1 \in Nat
  BY <1>6
<1>. DEFINE Counts == /\ simulations' \in Nat /\ visits' \in Nat
                      /\ expected' \in [Workers -> Nat] /\ claimed' \in [Workers -> Nat]
<1>7. Counts /\ WithinBudget'
  <2>1. CASE Check(w)
    BY <1>6, <2>1 DEF Check, counters, IInv, WithinBudget
  <2>2. CASE Claim(w)
    <3>1. visits' = visits
      BY <2>2 DEF Claim
    <3>2. CASE request.limits.nodes = 0
      <4>. DEFINE k == IF request.neural THEN Batch ELSE 1
      <4>1. /\ simulations' = Plus(simulations, k) /\ expected' = expected
            /\ claimed' = [claimed EXCEPT ![w] = k]
        BY <2>2, <3>2 DEF Claim
      <4>2. k \in Nat
        BY <1>6
      <4>. HIDE DEF k
      <4>. QED BY <1>3, <1>6, <1>6a, <3>1, <3>2, <4>1, <4>2 DEF WithinBudget
    <3>3. CASE request.limits.nodes # 0
      <4>1. /\ expected' = [expected EXCEPT ![w] = simulations]
            /\ UNCHANGED <<simulations, claimed>>
        BY <2>2, <3>3 DEF Claim
      <4>. QED BY <1>3, <1>6, <3>1, <4>1 DEF IInv, WithinBudget
    <3>. QED BY <3>2, <3>3
  <2>3. CASE CompareExchange(w)
    <3>1. visits' = visits
      BY <2>3 DEF CompareExchange
    <3>2. CASE UNCHANGED <<expected, simulations, claimed>>
      BY <1>3, <1>6, <3>1, <3>2 DEF IInv, WithinBudget
    <3>3. CASE /\ expected[w] < request.limits.nodes /\ expected[w] = simulations
               /\ simulations' = simulations + 1 /\ UNCHANGED expected
               /\ claimed' = [claimed EXCEPT ![w] = @ + 1]
      <4>1. request' = request /\ simulations < request.limits.nodes
        BY <1>3, <3>3
      <4>2. simulations' \in Nat /\ simulations' =< request.limits.nodes
        BY <1>6, <3>3, <4>1
      <4>3. WithinBudget'
        BY <4>1, <4>2 DEF WithinBudget
      <4>4. claimed' \in [Workers -> Nat]
        BY <1>6, <1>6b, <3>3
      <4>. QED BY <1>6, <3>1, <3>3, <4>2, <4>3, <4>4
    <3>4. CASE /\ expected' = [expected EXCEPT ![w] = simulations]
               /\ UNCHANGED <<simulations, claimed>>
      BY <1>3, <1>6, <3>1, <3>4 DEF IInv, WithinBudget
    <3>. QED BY <2>3, <3>2, <3>3, <3>4 DEF CompareExchange
  <2>4. CASE Simulate(w)
    <3>1. UNCHANGED <<simulations, visits, expected>> /\ (claimed' = [claimed EXCEPT ![w] = 0] \/ claimed' = claimed)
      BY <2>4 DEF Simulate, counters
    <3>. QED BY <1>3, <1>6, <3>1 DEF IInv, WithinBudget
  <2>5. CASE Backprop(w)
    <3>1. /\ UNCHANGED <<simulations, expected>> /\ claimed' = [claimed EXCEPT ![w] = 0]
          /\ visits' = Plus(visits, claimed[w])
      BY <2>5 DEF Backprop
    <3>2. visits' \in Nat
      BY <1>6, <1>6a, <1>6b, <3>1
    <3>. QED BY <1>3, <1>6, <3>1, <3>2 DEF IInv, WithinBudget
  <2>. QED BY <2>1, <2>2, <2>3, <2>4, <2>5
<1>8. TypeOK'
  BY <1>3, <1>4, <1>7 DEF IInv, TypeOK, control, outcome, context
<1>9. JoinedHasOutcome'
  BY <1>3 DEF IInv, JoinedHasOutcome, outcome
<1>. QED BY <1>4, <1>5, <1>7, <1>8, <1>9 DEF IInv

LEMMA ReleaseKeeps ==
    ASSUME IInv, NEW w \in Workers, Release(w)
    PROVE  IInv'
<1>1. /\ pc[w] = "release" /\ Goto(w, "done")
      /\ at_home' = [at_home EXCEPT ![w] = @ \/ holds[w]]
      /\ in_use' = [in_use EXCEPT ![w] = @ /\ ~holds[w]]
      /\ holds' = [holds EXCEPT ![w] = FALSE]
      /\ UNCHANGED <<caller, cursor, request, control, outcome, counters, expected, claimed>>
  BY DEF Release
<1>2. CallerInv' /\ WorkersCounted' /\ pc' \in [Workers -> WorkerPCs]
  BY <1>1, GotoKeeps DEF outcome, counters, WorkerPCs
<1>3. /\ at_home' \in [Workers -> BOOLEAN] /\ in_use' \in [Workers -> BOOLEAN]
      /\ holds' \in [Workers -> BOOLEAN]
  <2>1. (at_home[w] \/ holds[w]) \in BOOLEAN /\ (in_use[w] /\ ~holds[w]) \in BOOLEAN
    OBVIOUS
  <2>. QED BY <1>1, <2>1 DEF IInv, TypeOK
<1>4. TypeOK'
  BY <1>1, <1>2, <1>3 DEF IInv, TypeOK, control, outcome, counters
<1>5. TreesLent'
  <2>1. /\ \A v \in Workers : pc'[v] = IF v = w THEN "done" ELSE pc[v]
        /\ \A v \in Workers : v # w =>
              at_home'[v] = at_home[v] /\ in_use'[v] = in_use[v] /\ holds'[v] = holds[v]
        /\ ~holds'[w]
    BY <1>1 DEF Goto, IInv, TypeOK
  <2>2. ~in_use'[w]
    BY <1>1 DEF IInv, TypeOK, TreesLent
  <2>3. at_home'[w]
    BY <1>1 DEF IInv, TypeOK, TreesLent
  <2>. QED BY <2>1, <2>2, <2>3 DEF IInv, TreesLent
<1>6. WithinBudget' /\ JoinedHasOutcome'
  BY <1>1 DEF IInv, WithinBudget, JoinedHasOutcome, outcome, counters
<1>. QED BY <1>2, <1>4, <1>5, <1>6 DEF IInv

LEMMA CountDoneKeeps ==
    ASSUME IInv, NEW w \in Workers, CountDone(w)
    PROVE  IInv'
<1>1. /\ pc[w] = "done" /\ Goto(w, "cleanup") /\ workers_done' = workers_done + 1
      /\ UNCHANGED <<caller, cursor, request, control, outcome, simulations, visits,
                     expected, claimed, holds, context>>
  BY DEF CountDone
<1>2. \A v \in Workers : pc'[v] = IF v = w THEN "cleanup" ELSE pc[v]
  BY <1>1 DEF Goto, IInv, TypeOK
<1>3. TypeOK'
  <2>1. pc' \in [Workers -> WorkerPCs] /\ workers_done' \in Nat
    BY <1>1 DEF Goto, IInv, TypeOK, WorkerPCs
  <2>. QED BY <1>1, <2>1 DEF IInv, TypeOK, control, outcome, context
<1>4. CallerInv'
  <2>1. /\ \A v \in Workers : Spawned(v)' <=> Spawned(v)
        /\ \A v \in Workers : pc[v] = "exited" => pc'[v] = "exited"
    BY <1>1, <1>2 DEF Spawned
  <2>2. caller # "idle"
    BY <1>1 DEF IInv, CallerInv
  <2>. QED BY <1>1, <2>1, <2>2 DEF IInv, CallerInv, outcome
<1>5. WorkersCounted'
  <2>. DEFINE F == {v \in Workers : Finished(v)}
  <2>1. F' = F \cup {w} /\ w \notin F
    BY <1>1, <1>2 DEF Finished
  <2>2. IsFiniteSet(F)
    BY FinishedIsFinite
  <2>3. caller' = caller /\ caller # "idle" /\ workers_done = Cardinality(F)
    BY <1>1 DEF IInv, CallerInv, WorkersCounted
  <2>4. Cardinality(F \cup {w}) = Cardinality(F) + 1
    <3>. HIDE DEF F
    <3>. QED BY <2>1, <2>2, FS_AddElement
  <2>. QED BY <1>1, <2>1, <2>3, <2>4 DEF WorkersCounted
<1>6. TreesLent'
  BY <1>1, GotoKeepsTrees DEF IInv, TreesLent, WorkerPCs
<1>7. WithinBudget' /\ JoinedHasOutcome'
  BY <1>1 DEF IInv, WithinBudget, JoinedHasOutcome, outcome
<1>. QED BY <1>3, <1>4, <1>5, <1>6, <1>7 DEF IInv

LEMMA CleanupKeeps ==
    ASSUME IInv, NEW w \in Workers, Cleanup(w)
    PROVE  IInv'
<1>1. /\ pc[w] = "cleanup" /\ Goto(w, "exited")
      /\ UNCHANGED <<caller, cursor, request, control, outcome, counters,
                     expected, claimed, holds, context>>
  BY DEF Cleanup
<1>2. \A v \in Workers : pc'[v] = IF v = w THEN "exited" ELSE pc[v]
  BY <1>1 DEF Goto, IInv, TypeOK
<1>3. TypeOK'
  <2>1. pc' \in [Workers -> WorkerPCs]
    BY <1>1 DEF Goto, IInv, TypeOK, WorkerPCs
  <2>. QED BY <1>1, <2>1 DEF IInv, TypeOK, control, outcome, counters, context
<1>4. CallerInv' /\ WorkersCounted'
  <2>1. /\ \A v \in Workers : Spawned(v)' <=> Spawned(v)
        /\ \A v \in Workers : pc[v] = "exited" => pc'[v] = "exited"
        /\ \A v \in Workers : Finished(v)' <=> Finished(v)
    BY <1>1, <1>2 DEF Spawned, Finished
  <2>2. caller # "idle"
    BY <1>1 DEF IInv, CallerInv
  <2>3. {v \in Workers : Finished(v)}' = {v \in Workers : Finished(v)}
    BY <2>1
  <2>. QED BY <1>1, <2>1, <2>2, <2>3 DEF IInv, CallerInv, WorkersCounted, outcome, counters
<1>5. TreesLent'
  BY <1>1, GotoKeepsTrees DEF IInv, TreesLent, WorkerPCs
<1>6. WithinBudget' /\ JoinedHasOutcome'
  BY <1>1 DEF IInv, WithinBudget, JoinedHasOutcome, outcome, counters
<1>. QED BY <1>3, <1>4, <1>5, <1>6 DEF IInv

-----------------------------------------------------------------------------

LEMMA StepPreserves == IInv /\ [Next]_vars => IInv'
<1>. SUFFICES ASSUME IInv, [Next]_vars PROVE IInv'
  OBVIOUS
<1>1. ASSUME NEW r \in Requests, Start(r) PROVE IInv'
  BY <1>1, StartKeeps
<1>2. CASE Spawn
  BY <1>2, SpawnKeeps
<1>3. CASE Freed
  BY <1>3, FreedKeeps
<1>4. CASE SpawnFails \/ Started \/ RequestStop \/ PonderHit \/ Join \/ Destroy
             \/ JoinWorker \/ Joined \/ DeadlinePasses
  <2>1. UNCHANGED <<request, counters, locals, context>> /\ caller # "idle"
    BY <1>4 DEF SpawnFails, Started, RequestStop, PonderHit, Join, Destroy, JoinWorker,
                Joined, DeadlinePasses
  <2>. QED BY <1>4, <2>1, CallerOnlyKeeps
<1>5. ASSUME NEW w \in Workers, Worker(w) PROVE IInv'
  BY <1>5, PrepareKeeps, LoopKeeps, ReleaseKeeps, CountDoneKeeps, CleanupKeeps DEF Worker
<1>6. CASE UNCHANGED vars
  BY <1>6 DEF vars, control, outcome, counters, locals, context, IInv, TypeOK, CallerInv,
              WorkersCounted, TreesLent, WithinBudget, JoinedHasOutcome, Spawned, Finished
<1>. QED BY <1>1, <1>2, <1>3, <1>4, <1>5, <1>6 DEF Next, Caller

\* The inductive invariant holds in every reachable state of a job and its workers.
THEOREM Invariance == Spec => []IInv
<1>1. Init => IInv
  BY InitEstablishes
<1>2. IInv /\ [Next]_vars => IInv'
  BY StepPreserves
<1>. QED BY <1>1, <1>2, PTL DEF Spec

\* claim_simulation_batch and the classic claim: the node limit of the caller
\* is a hard cap.
THEOREM NodeBudgetIsHard == Spec => []WithinBudget
<1>1. IInv => WithinBudget
  BY DEF IInv
<1>. QED BY <1>1, Invariance, PTL

\* search_is_done: when it answers true to the holder of a job, no worker
\* writes what a report reads any more.
THEOREM DoneIsQuiet == Spec => []DoneMeansQuiet
<1>1. IInv => DoneMeansQuiet
  <2>. SUFFICES ASSUME IInv, caller = "holding", IsDone,
                       NEW w \in Workers, Spawned(w)
                PROVE  Finished(w)
    BY DEF DoneMeansQuiet
  <2>. DEFINE F == {v \in Workers : Finished(v)}
              S == 0 .. worker_count - 1
  <2>1. worker_count \in 0 .. MaxThreads /\ MaxThreads \in Nat \ {0}
    BY MaxThreadsType DEF IInv, TypeOK
  <2>2. S = {v \in Workers : Spawned(v)}
    BY <2>1 DEF IInv, CallerInv, Workers
  <2>3. F \in SUBSET S
    BY <2>2 DEF Finished, Spawned
  <2>4. IsFiniteSet(S) /\ Cardinality(S) = worker_count
    BY <2>1, FS_Interval
  <2>5. IsFiniteSet(F) /\ Cardinality(F) =< Cardinality(S) /\ (Cardinality(S) = Cardinality(F) => S = F)
    <3>. HIDE DEF F, S
    <3>. QED BY <2>3, <2>4, FS_Subset
  <2>6. Cardinality(F) \in Nat /\ Cardinality(F) >= worker_count
    BY FinishedIsFinite DEF IInv, WorkersCounted, IsDone
  <2>7. S = F
    <3>. HIDE DEF F, S
    <3>. QED BY <2>1, <2>4, <2>5, <2>6
  <2>8. w \in S
    BY <2>2
  <2>. QED BY <2>7, <2>8
<1>. QED BY <1>1, Invariance, PTL

\* search_destroy and the failure paths of search_start: what a job borrowed
\* and what it started is back and over before it is freed.
THEOREM JobLeavesNothingBehind == Spec => []NothingOutlivesTheJob
<1>1. IInv => NothingOutlivesTheJob
  BY DEF IInv, TypeOK, CallerInv, TreesLent, NothingOutlivesTheJob
<1>. QED BY <1>1, Invariance, PTL

\* worker_tree_prepare and worker_tree_release: a context tree has one owner.
THEOREM OneOwnerPerTree == Spec => []TreeHasOneOwner
<1>1. IInv => TreeHasOneOwner
  BY DEF IInv, TypeOK, TreesLent, TreeHasOneOwner, Spawned, Finished
<1>. QED BY <1>1, Invariance, PTL

\* choose_result: a search with a legal move ends with a move or a win.
THEOREM EveryJoinHasAnOutcome == Spec => []JoinedHasOutcome
<1>1. IInv => JoinedHasOutcome
  BY DEF IInv
<1>. QED BY <1>1, Invariance, PTL

=============================================================================
