------------------------- MODULE NnueTrainer_proofs -------------------------
(*****************************************************************************)
(* The ranks of the trainer never stand in different collective calls,       *)
(* never hold different replicated parameters, use every record once in an   *)
(* epoch, write checkpoints of whole epochs and lose nothing of the rows they*)
(* step lazily: whatever their number, the lengths of their shards, the      *)
(* owners of the buckets, the shuffles and the files they resume from, as    *)
(* long as those are of one epoch, and for the rows even if they are not.    *)
(*****************************************************************************)
EXTENDS NnueTrainer, SequenceTheorems, FiniteSetTheorems, WellFoundedInduction, TLAPS

\* The collective call a rank will make next.
Bound(r) ==
    CASE pc[r] = "count" -> "census"
      [] pc[r] = "save" -> "saved"
      [] pc[r] = "load" /\ resuming -> "agree"
      [] pc[r] = "epoch" \/ (pc[r] = "load" /\ ~resuming) ->
            IF mem[r].epoch < Epochs THEN IF 0 < StepsPerEpoch THEN "size" ELSE "report"
            ELSE "gather"
      [] pc[r] = "fill" -> IF mem[r].step < StepsPerEpoch THEN "size" ELSE "report"
      [] OTHER -> pc[r]

\* The step of the epoch in which it will make it.
StepOf(r) == IF pc[r] \in {"load", "epoch"} THEN 0 ELSE mem[r].step

InStep == {"size", "sync", "head", "loss"}

\* Two ranks are bound for the same call, in the same epoch, step and round.
Abreast(r, s) ==
    /\ Bound(r) = Bound(s)
    /\ Bound(r) # "agree" => mem[r].epoch = mem[s].epoch
    /\ Bound(r) \in InStep => StepOf(r) = StepOf(s)
    /\ Bound(r) = "route" => mem[r].rounds = mem[s].rounds

Lockstep == job = "running" /\ ~torn => \A r, s \in Ranks : Abreast(r, s)

\* A rank's memory has its fields; between two jobs it is fresh.
Fields == {"rounds", "epoch", "step", "model", "ok", "batch", "offset", "kept", "shard"}
MemoryInv ==
    /\ DOMAIN pc = Ranks
    /\ DOMAIN mem = Ranks
    /\ mem = [r \in Ranks |-> mem[r]]
    /\ \A r \in Ranks : Fields \subseteq DOMAIN mem[r]
    /\ torn \in BOOLEAN
    /\ job = "running" => why = ""
    /\ job # "running" => \A r \in Ranks : mem[r].epoch = 0

IInv == MemoryInv /\ Lockstep /\ RanksMeet

-----------------------------------------------------------------------------

\* A job that is over leaves fresh memories and no rank in a call.
LEMMA OverKeeps ==
  ASSUME NEW how \in {"aborted", "done", "killed"}, NEW message, Over(how, message),
         torn \in BOOLEAN, torn' = torn
  PROVE  IInv'
<1>1. MemoryInv'
  BY DEF MemoryInv, Over, FreshMemory, Fields
<1>2. job' # "running" /\ job' # "undefined"
  BY DEF Over
<1>. QED
  BY <1>1, <1>2 DEF IInv, Lockstep, RanksMeet

LEMMA AbortKeeps ==
  ASSUME NEW message, AbortMpi(message), torn \in BOOLEAN
  PROVE  IInv'
BY OverKeeps DEF AbortMpi, history

\* What a rank does alone keeps it bound for the call it was bound for.
LEMMA AloneKeeps ==
  ASSUME IInv, NEW r \in Ranks,
         job = "running", job' = job, why' = why, torn' = torn, resuming' = resuming,
         StepsPerEpoch' = StepsPerEpoch,
         NEW label, pc' = [pc EXCEPT ![r] = label],
         NEW m, mem' = [mem EXCEPT ![r] = m], Fields \subseteq DOMAIN m,
         Bound(r)' = Bound(r),
         Bound(r) # "agree" => m.epoch = mem[r].epoch,
         Bound(r) \in InStep => StepOf(r)' = StepOf(r),
         Bound(r) = "route" => m.rounds = mem[r].rounds
  PROVE  IInv'
<1>1. MemoryInv'
  BY DEF IInv, MemoryInv
<1>2. Lockstep'
  <2>. SUFFICES ASSUME ~torn, NEW s \in Ranks, NEW t \in Ranks
                PROVE  Abreast(s, t)'
    BY DEF Lockstep
  <2>1. Abreast(s, t)
    BY DEF IInv, Lockstep
  <2>2. ASSUME NEW u \in Ranks
        PROVE  /\ Bound(u)' = Bound(u)
               /\ Bound(u) # "agree" => mem'[u].epoch = mem[u].epoch
               /\ Bound(u) \in InStep => StepOf(u)' = StepOf(u)
               /\ Bound(u) = "route" => mem'[u].rounds = mem[u].rounds
    <3>1. CASE u = r
      BY <3>1 DEF IInv, MemoryInv
    <3>2. CASE u # r
      <4>1. pc'[u] = pc[u] /\ mem'[u] = mem[u]
        BY <3>2 DEF IInv, MemoryInv
      <4>. QED
        BY <4>1 DEF Bound, StepOf
    <3>. QED
      BY <3>1, <3>2
  <2>. QED
    BY <2>1, <2>2 DEF Abreast
<1>3. RanksMeet'
  BY DEF IInv, RanksMeet
<1>. QED
  BY <1>1, <1>2, <1>3 DEF IInv

\* Ranks that leave a call together leave it abreast.
LEMMA TogetherKeeps ==
  ASSUME IInv, job = "running", job' = job, why' = why,
         torn' \in BOOLEAN, DOMAIN pc' = Ranks, DOMAIN mem' = Ranks,
         mem' = [r \in Ranks |-> mem'[r]],
         \A r \in Ranks : Fields \subseteq DOMAIN mem'[r],
         ~torn' => \A r, s \in Ranks :
             /\ pc'[r] = pc'[s]
             /\ mem'[r].epoch = mem'[s].epoch
             /\ pc'[r] \in InStep \cup {"fill"} => mem'[r].step = mem'[s].step
             /\ pc'[r] = "route" => mem'[r].rounds = mem'[s].rounds
  PROVE  IInv'
<1>1. MemoryInv'
  BY DEF IInv, MemoryInv
<1>2. ASSUME ~torn', NEW r \in Ranks, NEW s \in Ranks
      PROVE  Abreast(r, s)'
  <2>1. /\ pc'[r] = pc'[s]
        /\ mem'[r].epoch = mem'[s].epoch
        /\ pc'[r] \in InStep \cup {"fill"} => mem'[r].step = mem'[s].step
        /\ pc'[r] = "route" => mem'[r].rounds = mem'[s].rounds
    BY <1>2
  <2>2. Bound(r)' = Bound(s)'
    BY <2>1 DEF Bound
  <2>3. Bound(r)' \in InStep => pc'[r] \in InStep \cup {"fill", "load", "epoch"}
    BY DEF Bound, InStep
  <2>4. Bound(r)' = "route" => pc'[r] = "route"
    BY DEF Bound
  <2>5. Bound(r)' \in InStep => StepOf(r)' = StepOf(s)'
    BY <2>1, <2>3 DEF StepOf
  <2>. QED
    BY <2>1, <2>2, <2>4, <2>5 DEF Abreast
<1>. QED
  BY <1>1, <1>2 DEF IInv, Lockstep, RanksMeet

-----------------------------------------------------------------------------

LEMMA InitHolds == Init => IInv
<1>. SUFFICES ASSUME Init PROVE IInv
  OBVIOUS
<1>1. MemoryInv
  BY DEF Init, MemoryInv, FreshMemory, Fields
<1>2. Lockstep
  BY DEF Init, Lockstep, Abreast, Bound, InStep, FreshMemory
<1>. QED
  BY <1>1, <1>2 DEF IInv, Init, RanksMeet

\* Where StepsPerEpoch and the choice of resuming stay as they are.
LEMMA LocalFrame ==
  ASSUME options' = options
  PROVE  StepsPerEpoch' = StepsPerEpoch
BY DEF StepsPerEpoch, GlobalCount, Corpus

LEMMA AloneSteps ==
  ASSUME IInv, NEW r \in Ranks, Alone(r) \/ CheckpointFails(r)
  PROVE  IInv'
<1>0. /\ DOMAIN mem = Ranks
      /\ mem = [s \in Ranks |-> mem[s]]
      /\ Fields \subseteq DOMAIN mem[r]
      /\ torn \in BOOLEAN
  BY DEF IInv, MemoryInv
<1>00. DOMAIN pc = Ranks
  BY DEF IInv, MemoryInv
<1>1. CASE CountBuckets(r)
  <2>1. CASE \E message : AbortMpi(message)
    BY <2>1, <1>0, AbortKeeps
  <2>2. CASE Goes(r, "census") /\ UNCHANGED mem /\ Local
    <3>1. mem' = [mem EXCEPT ![r] = mem[r]]
      BY <2>2, <1>0
    <3>2. Bound(r)' = Bound(r) /\ Bound(r) = "census"
      BY <1>1, <2>2, <1>00 DEF CountBuckets, At, Goes, Bound
    <3>3. StepsPerEpoch' = StepsPerEpoch
      BY <2>2, LocalFrame DEF Local, history
    <3>. QED
      BY <1>0, <1>1, <2>2, <3>1, <3>2, <3>3, AloneKeeps
      DEF CountBuckets, At, Goes, Local, history, InStep
  <2>. QED
    BY <1>1, <2>1, <2>2 DEF CountBuckets
<1>2. CASE LoadCheckpoint(r)
  <2>1. PICK m : /\ mem' = [mem EXCEPT ![r] = m]
                 /\ Fields \subseteq DOMAIN m
                 /\ resuming \/ m.epoch = mem[r].epoch
    <3>1. CASE resuming /\ files[r] = Nothing
      <4>. DEFINE m == [mem[r] EXCEPT !.ok = FALSE]
      <4>1. mem' = [mem EXCEPT ![r] = m] /\ Fields \subseteq DOMAIN m
        BY <1>0, <1>2, <3>1 DEF LoadCheckpoint
      <4>. QED
        BY <4>1, <3>1
    <3>2. CASE resuming /\ files[r] # Nothing
      <4>. DEFINE m == [mem[r] EXCEPT !.epoch = files[r].epoch, !.model = files[r].model]
      <4>1. mem' = [mem EXCEPT ![r] = m] /\ Fields \subseteq DOMAIN m
        BY <1>0, <1>2, <3>2 DEF LoadCheckpoint
      <4>. QED
        BY <4>1, <3>2
    <3>3. CASE ~resuming
      <4>. DEFINE m == [mem[r] EXCEPT !.model = InitialModel(r)]
      <4>1. /\ mem' = [mem EXCEPT ![r] = m] /\ Fields \subseteq DOMAIN m
            /\ m.epoch = mem[r].epoch
        BY <1>0, <1>2, <3>3 DEF LoadCheckpoint, Fields
      <4>. QED
        BY <4>1
    <3>. QED
      BY <3>1, <3>2, <3>3
  <2>2. /\ job = "running" /\ pc[r] = "load" /\ Local
        /\ pc' = [pc EXCEPT ![r] = IF resuming THEN "agree" ELSE "epoch"]
    BY <1>2 DEF LoadCheckpoint, At, Goes
  <2>3. StepsPerEpoch' = StepsPerEpoch
    BY <2>2, LocalFrame DEF Local, history
  <2>4. mem'[r] = m
    BY <2>1, <1>0
  <2>5. Bound(r)' = Bound(r) /\ (resuming => Bound(r) = "agree") /\ Bound(r) # "route"
    BY <2>1, <2>2, <2>3, <2>4, <1>00 DEF Bound, Local, history
  <2>6. Bound(r) \in InStep => StepOf(r)' = StepOf(r)
    BY <2>2, <2>5, <1>00 DEF StepOf, InStep
  <2>. QED
    BY <2>1, <2>2, <2>3, <2>5, <2>6, AloneKeeps DEF Local, history
<1>3. CASE BeginEpoch(r)
  <2>. DEFINE m == [mem[r] EXCEPT
                      !.kept = [b \in Buckets |->
                          IF Owns(r, b) THEN Shuffled(@[b], mem[r].epoch, b) ELSE @[b]],
                      !.offset = [b \in Buckets |-> 0], !.step = 0]
  <2>1. /\ mem' = [mem EXCEPT ![r] = m]
        /\ job = "running" /\ pc[r] = "epoch" /\ mem[r].epoch < Epochs /\ Local
        /\ pc' = [pc EXCEPT ![r] = "fill"]
    BY <1>0, <1>3 DEF BeginEpoch, At, Goes
  <2>2. Fields \subseteq DOMAIN m /\ m.epoch = mem[r].epoch /\ m.step = 0
    BY <1>0 DEF Fields
  <2>3. StepsPerEpoch' = StepsPerEpoch
    BY <2>1, LocalFrame DEF Local, history
  <2>4. mem'[r] = m
    BY <2>1, <1>0
  <2>. HIDE DEF m
  <2>5. Bound(r)' = Bound(r) /\ Bound(r) \notin {"agree", "route"}
    BY <2>1, <2>2, <2>3, <2>4, <1>00 DEF Bound
  <2>6. StepOf(r)' = StepOf(r)
    BY <2>1, <2>2, <2>4, <1>00 DEF StepOf
  <2>. QED
    BY <2>1, <2>2, <2>3, <2>5, <2>6, AloneKeeps DEF Local, history
<1>4. CASE FillBatch(r)
  <2>1. CASE \E message : AbortMpi(message)
    BY <2>1, <1>0, AbortKeeps
  <2>2. CASE ~Overflows(r)
    <3>. DEFINE m == [mem[r] EXCEPT
                        !.batch = LocalBatch(r),
                        !.offset = [b \in Buckets |->
                            IF Owns(r, b) THEN @[b] + Amount(b, mem[r].step) ELSE @[b]]]
    <3>1. /\ mem' = [mem EXCEPT ![r] = m]
          /\ job = "running" /\ pc[r] = "fill" /\ mem[r].step < StepsPerEpoch /\ Local
          /\ pc' = [pc EXCEPT ![r] = "size"]
      BY <1>0, <1>4, <2>2 DEF FillBatch, At, Goes
    <3>2. Fields \subseteq DOMAIN m /\ m.epoch = mem[r].epoch /\ m.step = mem[r].step
      BY <1>0 DEF Fields
    <3>3. StepsPerEpoch' = StepsPerEpoch
      BY <3>1, LocalFrame DEF Local, history
    <3>4. mem'[r] = m
      BY <3>1, <1>0
    <3>. HIDE DEF m
    <3>5. Bound(r)' = Bound(r) /\ Bound(r) \notin {"agree", "route"}
      BY <3>1, <3>2, <3>3, <3>4, <1>00 DEF Bound
    <3>6. StepOf(r)' = StepOf(r)
      BY <3>1, <3>2, <3>4, <1>00 DEF StepOf
    <3>. QED
      BY <3>1, <3>2, <3>3, <3>5, <3>6, AloneKeeps DEF Local, history
  <2>. QED
    BY <1>4, <2>1, <2>2 DEF FillBatch
<1>5. CASE EndEpoch(r)
  <2>1. /\ mem' = [mem EXCEPT ![r] = mem[r]]
        /\ job = "running" /\ pc[r] = "fill" /\ ~(mem[r].step < StepsPerEpoch) /\ Local
        /\ pc' = [pc EXCEPT ![r] = "report"]
    BY <1>0, <1>5 DEF EndEpoch, At, Goes
  <2>2. StepsPerEpoch' = StepsPerEpoch
    BY <2>1, LocalFrame DEF Local, history
  <2>3. Bound(r)' = Bound(r) /\ Bound(r) = "report"
    BY <2>1, <2>2, <1>00 DEF Bound
  <2>. QED
    BY <1>0, <2>1, <2>2, <2>3, AloneKeeps DEF Local, history, InStep
<1>6. CASE SaveCheckpoint(r)
  <2>1. /\ mem' = [mem EXCEPT ![r] = mem[r]]
        /\ job = "running" /\ pc[r] = "save"
        /\ pc' = [pc EXCEPT ![r] = "saved"]
        /\ UNCHANGED <<job, why, history>>
    BY <1>0, <1>6 DEF SaveCheckpoint, At, Goes
  <2>2. StepsPerEpoch' = StepsPerEpoch
    BY <2>1, LocalFrame DEF history
  <2>3. Bound(r)' = Bound(r) /\ Bound(r) = "saved"
    BY <2>1, <1>00 DEF Bound
  <2>. QED
    BY <1>0, <2>1, <2>2, <2>3, AloneKeeps DEF history, InStep
<1>7. CASE CheckpointFails(r)
  <2>. DEFINE m == [mem[r] EXCEPT !.ok = FALSE]
  <2>1. /\ mem' = [mem EXCEPT ![r] = m]
        /\ job = "running" /\ pc[r] = "save"
        /\ pc' = [pc EXCEPT ![r] = "saved"]
        /\ UNCHANGED <<job, why, options, resuming, torn>>
    BY <1>0, <1>7 DEF CheckpointFails, At, Goes
  <2>2. Fields \subseteq DOMAIN m /\ m.epoch = mem[r].epoch
    BY <1>0 DEF Fields
  <2>3. StepsPerEpoch' = StepsPerEpoch
    BY <2>1, LocalFrame
  <2>. HIDE DEF m
  <2>4. Bound(r)' = Bound(r) /\ Bound(r) = "saved"
    BY <2>1, <1>00 DEF Bound
  <2>. QED
    BY <2>1, <2>2, <2>3, <2>4, AloneKeeps DEF InStep
<1>8. CASE Flush(r)
  <2>. DEFINE m == [mem[r] EXCEPT !.model.rows =
                     [x \in Rows |-> IF Owns(r, x[1]) THEN FlushMomentum(@[x], mem[r].model.number)
                                     ELSE @[x]]]
  <2>1. /\ mem' = [mem EXCEPT ![r] = m]
        /\ job = "running" /\ pc[r] = "epoch" /\ ~(mem[r].epoch < Epochs) /\ Local
        /\ pc' = [pc EXCEPT ![r] = "gather"]
    BY <1>0, <1>8 DEF Flush, At, Goes
  <2>2. Fields \subseteq DOMAIN m /\ m.epoch = mem[r].epoch
    BY <1>0 DEF Fields
  <2>3. StepsPerEpoch' = StepsPerEpoch
    BY <2>1, LocalFrame DEF Local, history
  <2>. HIDE DEF m
  <2>4. Bound(r)' = Bound(r) /\ Bound(r) = "gather"
    BY <2>1, <2>3, <1>00 DEF Bound
  <2>. QED
    BY <2>1, <2>2, <2>3, <2>4, AloneKeeps DEF Local, history, InStep
<1>. QED
  BY <1>1, <1>2, <1>3, <1>4, <1>5, <1>6, <1>7, <1>8 DEF Alone

\* Ranks that are all in one call are there in the same epoch, step and round.
LEMMA MeetAbreast ==
  ASSUME IInv, NEW label, Meet(label), ~torn,
         label \in Calls, NEW r \in Ranks, NEW s \in Ranks
  PROVE  /\ pc[r] = label
         /\ label # "agree" => mem[r].epoch = mem[s].epoch
         /\ label \in InStep => mem[r].step = mem[s].step
         /\ label = "route" => mem[r].rounds = mem[s].rounds
<1>1. Abreast(r, s) /\ pc[r] = label /\ pc[s] = label
  BY DEF IInv, Lockstep, Meet
<1>2. Bound(r) = label
  BY <1>1 DEF Bound, Calls
<1>3. label \in InStep => StepOf(r) = mem[r].step /\ StepOf(s) = mem[s].step
  BY <1>1 DEF StepOf, InStep
<1>. QED
  BY <1>1, <1>2, <1>3 DEF Abreast

\* A collective call that leaves the memories as they are.
LEMMA PassKeeps ==
  ASSUME IInv, NEW label, Meet(label), label \in Calls \ {"agree"},
         NEW next, AllGo(next), next \notin InStep \cup {"fill"} \/ label \in InStep,
         next # "route",
         UNCHANGED <<mem, job, why, torn>>
  PROVE  IInv'
<1>1. /\ job = "running" /\ torn' \in BOOLEAN /\ DOMAIN pc' = Ranks /\ DOMAIN mem' = Ranks
      /\ mem' = [r \in Ranks |-> mem'[r]]
      /\ \A r \in Ranks : Fields \subseteq DOMAIN mem'[r]
  BY DEF IInv, MemoryInv, AllGo, Meet
<1>2. ASSUME ~torn', NEW r \in Ranks, NEW s \in Ranks
      PROVE  /\ pc'[r] = pc'[s] /\ pc'[r] = next
             /\ mem'[r].epoch = mem'[s].epoch
             /\ label \in InStep => mem'[r].step = mem'[s].step
  BY <1>2, MeetAbreast DEF AllGo
<1>. QED
  BY <1>1, <1>2, TogetherKeeps

LEMMA TogetherSteps ==
  ASSUME IInv, Together
  PROVE  IInv'
<1>0. /\ DOMAIN mem = Ranks /\ torn \in BOOLEAN
      /\ \A r \in Ranks : Fields \subseteq DOMAIN mem[r]
  BY DEF IInv, MemoryInv
<1>1. CASE Census
  <2>1. CASE AbortMpi("training set is empty")
    BY <2>1, <1>0, AbortKeeps
  <2>2. CASE AllGo("rounds") /\ UNCHANGED <<mem, job, why, disk, history>>
    <3>1. Meet("census") /\ UNCHANGED <<mem, job, why, torn>>
      BY <1>1, <2>2 DEF Census, history
    <3>2. "census" \in Calls \ {"agree"} /\ "rounds" \notin InStep \cup {"fill"}
      BY DEF Calls, InStep
    <3>. QED
      BY <2>2, <3>1, <3>2, PassKeeps
  <2>. QED
    BY <1>1, <2>1, <2>2 DEF Census
<1>2. CASE AgreeRounds
  <2>1. /\ job = "running" /\ UNCHANGED <<job, why, torn>> /\ pc' = [r \in Ranks |-> "route"]
        /\ mem' = [r \in Ranks |-> [mem[r] EXCEPT !.rounds = MaxRounds(r)]]
        /\ Meet("rounds")
    BY <1>2 DEF AgreeRounds, Meet, Local, AllGo, history
  <2>2. \A r, s \in Ranks : MaxRounds(r) = MaxRounds(s)
    BY DEF MaxRounds
  <2>3. \A r \in Ranks : /\ Fields \subseteq DOMAIN mem'[r]
                         /\ mem'[r].epoch = mem[r].epoch
                         /\ mem'[r].rounds = MaxRounds(r)
    BY <1>0, <2>1 DEF Fields
  <2>4. ~torn' => \A r, s \in Ranks : mem'[r].epoch = mem'[s].epoch
    <3>1. ~torn => \A r, s \in Ranks : mem[r].epoch = mem[s].epoch
      BY <2>1, MeetAbreast DEF Calls
    <3>. QED
      BY <2>1, <2>3, <3>1
  <2>5. mem' = [r \in Ranks |-> mem'[r]] /\ DOMAIN mem' = Ranks
    BY <2>1
  <2>6. \A r, s \in Ranks : mem'[r].rounds = mem'[s].rounds
    BY <2>2, <2>3
  <2>7. /\ DOMAIN pc' = Ranks
        /\ \A r \in Ranks : pc'[r] = "route" /\ pc'[r] \notin InStep \cup {"fill"}
    BY <2>1 DEF InStep
  <2>8. job = "running" /\ job' = job /\ why' = why /\ torn' \in BOOLEAN
    BY <1>0, <2>1
  <2>9. \A r \in Ranks : Fields \subseteq DOMAIN mem'[r]
    BY <2>3
  <2>. QED
    BY <2>4, <2>5, <2>6, <2>7, <2>8, <2>9, TogetherKeeps
<1>3. CASE RouteRound
  <2>. DEFINE next == IF mem[0].rounds = 1 THEN "tally" ELSE "route"
  <2>1. /\ job = "running" /\ UNCHANGED <<job, why, torn>> /\ pc' = [r \in Ranks |-> next]
        /\ Meet("route") /\ \A r \in Ranks : mem[r].rounds = mem[0].rounds
    BY <1>3 DEF RouteRound, Meet, Local, AllGo, history
  <2>2. /\ mem' = [r \in Ranks |-> mem'[r]] /\ DOMAIN mem' = Ranks
        /\ \A r \in Ranks : /\ Fields \subseteq DOMAIN mem'[r]
                            /\ mem'[r].epoch = mem[r].epoch
                            /\ mem'[r].rounds = mem[r].rounds - 1
    BY <1>0, <1>3 DEF RouteRound, Fields
  <2>3. ~torn' => \A r, s \in Ranks : mem'[r].epoch = mem'[s].epoch
    BY <2>1, <2>2, MeetAbreast DEF Calls
  <2>. QED
    BY <1>0, <2>1, <2>2, <2>3, TogetherKeeps DEF InStep
<1>4. CASE Tally
  <2>1. CASE AbortMpi("routed record count mismatch")
    BY <2>1, <1>0, AbortKeeps
  <2>2. CASE AllGo("load") /\ UNCHANGED mem /\ Local
    <3>1. Meet("tally") /\ UNCHANGED <<mem, job, why, torn>>
      BY <1>4, <2>2 DEF Tally, Local, history
    <3>2. "tally" \in Calls \ {"agree"} /\ "load" \notin InStep \cup {"fill"}
      BY DEF Calls, InStep
    <3>. QED
      BY <2>2, <3>1, <3>2, PassKeeps
  <2>. QED
    BY <1>4, <2>1, <2>2 DEF Tally
<1>5. CASE AgreeLoaded
  <2>1. CASE AbortMpi("cannot resume checkpoint")
    BY <2>1, <1>0, AbortKeeps
  <2>2. CASE /\ AllGo("epoch")
             /\ torn' = (torn \/ \E r \in Ranks : mem[r].epoch # mem[0].epoch)
             /\ UNCHANGED <<mem, job, why>>
    <3>1. ~torn' => \A r, s \in Ranks : mem'[r].epoch = mem'[s].epoch
      BY <1>0, <2>2
    <3>2. job = "running" /\ torn' \in BOOLEAN /\ mem' = [r \in Ranks |-> mem'[r]]
      BY <1>5, <1>0, <2>2 DEF AgreeLoaded, Meet, IInv, MemoryInv
    <3>. QED
      BY <1>0, <2>2, <3>1, <3>2, TogetherKeeps DEF AllGo, InStep
  <2>. QED
    BY <1>5, <2>1, <2>2 DEF AgreeLoaded
<1>6. CASE Size
  <2>1. CASE AllGo("sync") /\ UNCHANGED mem
    BY <1>6, <2>1, PassKeeps DEF Size, Local, history, Calls, InStep
  <2>2. CASE /\ mem' = [r \in Ranks |-> [mem[r] EXCEPT !.step = AfterEmptyStep(r)]]
             /\ AllGo("fill")
    <3>1. job = "running" /\ UNCHANGED <<job, why, torn>> /\ Meet("size")
      BY <1>6 DEF Size, Meet, Local, history
    <3>2. \A r \in Ranks : /\ Fields \subseteq DOMAIN mem'[r]
                           /\ mem'[r].epoch = mem[r].epoch
                           /\ mem'[r].step = mem[r].step + 1
      BY <1>0, <2>2 DEF Fields, AfterEmptyStep
    <3>3. ~torn' => \A r, s \in Ranks : /\ mem'[r].epoch = mem'[s].epoch
                                        /\ mem'[r].step = mem'[s].step
      BY <3>1, <3>2, MeetAbreast DEF Calls, InStep
    <3>4. mem' = [r \in Ranks |-> mem'[r]] /\ DOMAIN mem' = Ranks
      BY <2>2
    <3>5. DOMAIN pc' = Ranks /\ \A r \in Ranks : pc'[r] = "fill"
      BY <2>2 DEF AllGo
    <3>. QED
      BY <1>0, <3>1, <3>2, <3>3, <3>4, <3>5, TogetherKeeps
  <2>. QED
    BY <1>6, <2>1, <2>2 DEF Size
<1>7. CASE Sync
  <2>. DEFINE next == IF options.optimizer = "muon" THEN "head" ELSE "loss"
  <2>1. /\ job = "running" /\ UNCHANGED <<job, why, torn>> /\ Meet("sync")
        /\ pc' = [r \in Ranks |-> next]
    BY <1>7 DEF Sync, Meet, AllGo, Local, history
  <2>2. /\ mem' = [r \in Ranks |-> mem'[r]] /\ DOMAIN mem' = Ranks
        /\ \A r \in Ranks : /\ Fields \subseteq DOMAIN mem'[r]
                            /\ mem'[r].epoch = mem[r].epoch
                            /\ mem'[r].step = mem[r].step
    BY <1>0, <1>7 DEF Sync, Fields
  <2>3. ~torn' => \A r, s \in Ranks : /\ mem'[r].epoch = mem'[s].epoch
                                      /\ mem'[r].step = mem'[s].step
    BY <2>1, <2>2, MeetAbreast DEF Calls, InStep
  <2>. QED
    BY <1>0, <2>1, <2>2, <2>3, TogetherKeeps
<1>8. CASE Broadcast
  <2>1. /\ job = "running" /\ UNCHANGED <<job, why, torn>> /\ Meet("head")
        /\ pc' = [r \in Ranks |-> "loss"]
    BY <1>8 DEF Broadcast, Meet, AllGo, Local, history
  <2>2. /\ mem' = [r \in Ranks |-> mem'[r]] /\ DOMAIN mem' = Ranks
        /\ \A r \in Ranks : /\ Fields \subseteq DOMAIN mem'[r]
                            /\ mem'[r].epoch = mem[r].epoch
                            /\ mem'[r].step = mem[r].step
    BY <1>0, <1>8 DEF Broadcast, Fields
  <2>3. ~torn' => \A r, s \in Ranks : /\ mem'[r].epoch = mem'[s].epoch
                                      /\ mem'[r].step = mem'[s].step
    BY <2>1, <2>2, MeetAbreast DEF Calls, InStep
  <2>. QED
    BY <1>0, <2>1, <2>2, <2>3, TogetherKeeps
<1>9. CASE Loss
  <2>1. /\ job = "running" /\ UNCHANGED <<job, why, torn>> /\ Meet("loss")
        /\ pc' = [r \in Ranks |-> "fill"]
    BY <1>9 DEF Loss, Meet, AllGo, Local, history
  <2>2. /\ mem' = [r \in Ranks |-> mem'[r]] /\ DOMAIN mem' = Ranks
        /\ \A r \in Ranks : /\ Fields \subseteq DOMAIN mem'[r]
                            /\ mem'[r].epoch = mem[r].epoch
                            /\ mem'[r].step = mem[r].step + 1
    BY <1>0, <1>9 DEF Loss, Fields
  <2>3. ~torn' => \A r, s \in Ranks : /\ mem'[r].epoch = mem'[s].epoch
                                      /\ mem'[r].step = mem'[s].step
    BY <2>1, <2>2, MeetAbreast DEF Calls, InStep
  <2>. QED
    BY <1>0, <2>1, <2>2, <2>3, TogetherKeeps
<1>10. CASE Report
  <2>1. /\ job = "running" /\ UNCHANGED <<job, why, torn>> /\ Meet("report")
        /\ pc' = [r \in Ranks |-> IF Due(mem[r].epoch) THEN "save" ELSE "epoch"]
        /\ mem' = [r \in Ranks |-> [mem[r] EXCEPT !.epoch = IF Due(@) THEN @ ELSE @ + 1]]
    BY <1>10 DEF Report, Meet, Local, history
  <2>2. \A r \in Ranks : /\ Fields \subseteq DOMAIN mem'[r]
                         /\ mem'[r].epoch = IF Due(mem[r].epoch) THEN mem[r].epoch
                                            ELSE mem[r].epoch + 1
    BY <1>0, <2>1 DEF Fields
  <2>3. ~torn' => \A r, s \in Ranks : /\ mem'[r].epoch = mem'[s].epoch
                                      /\ pc'[r] = pc'[s]
    BY <2>1, <2>2, MeetAbreast DEF Calls
  <2>4. \A r \in Ranks : pc'[r] \notin InStep \cup {"fill"} /\ pc'[r] # "route"
    BY <2>1 DEF InStep
  <2>5. /\ mem' = [r \in Ranks |-> mem'[r]] /\ DOMAIN mem' = Ranks
        /\ DOMAIN pc' = Ranks /\ torn' \in BOOLEAN
    BY <1>0, <2>1
  <2>6. job = "running" /\ job' = job /\ why' = why
    BY <2>1
  <2>7. \A r \in Ranks : Fields \subseteq DOMAIN mem'[r]
    BY <2>2
  <2>. QED
    BY <2>3, <2>4, <2>5, <2>6, <2>7, TogetherKeeps
<1>11. CASE AgreeSaved
  <2>1. CASE AbortMpi("cannot write checkpoint")
    BY <2>1, <1>0, AbortKeeps
  <2>2. CASE /\ mem' = [r \in Ranks |-> [mem[r] EXCEPT !.epoch = @ + 1]]
             /\ AllGo("epoch") /\ Local
    <3>1. job = "running" /\ UNCHANGED <<job, why, torn>> /\ Meet("saved")
      BY <1>11, <2>2 DEF AgreeSaved, Meet, Local, history
    <3>2. \A r \in Ranks : /\ Fields \subseteq DOMAIN mem'[r]
                           /\ mem'[r].epoch = mem[r].epoch + 1
      BY <1>0, <2>2 DEF Fields
    <3>3. ~torn' => \A r, s \in Ranks : mem'[r].epoch = mem'[s].epoch
      BY <3>1, <3>2, MeetAbreast DEF Calls
    <3>4. mem' = [r \in Ranks |-> mem'[r]] /\ DOMAIN mem' = Ranks
      BY <2>2
    <3>5. DOMAIN pc' = Ranks /\ \A r \in Ranks : pc'[r] = "epoch"
      BY <2>2 DEF AllGo
    <3>. QED
      BY <1>0, <3>1, <3>2, <3>3, <3>4, <3>5, TogetherKeeps DEF InStep
  <2>. QED
    BY <1>11, <2>1, <2>2 DEF AgreeSaved
<1>12. CASE GatherAndSave
  BY <1>0, <1>12, OverKeeps DEF GatherAndSave, history
<1>13. CASE Mismatch
  <2>1. torn
    <3>. SUFFICES ASSUME ~torn PROVE FALSE
      BY <1>0
    <3>1. \A r \in Ranks : Bound(r) = pc[r]
      BY <1>13 DEF Mismatch, Bound, Calls
    <3>2. 0 \in Ranks
      BY NumRanksAssumption DEF Ranks
    <3>3. \A r \in Ranks : pc[r] = pc[0]
      BY <1>13, <3>1, <3>2 DEF Mismatch, IInv, Lockstep, Abreast
    <3>4. \A r \in Ranks : pc[0] = "route" => mem[r].rounds = mem[0].rounds
      BY <1>13, <3>1, <3>2 DEF Mismatch, IInv, Lockstep, Abreast
    <3>. QED
      BY <1>13, <3>3, <3>4 DEF Mismatch
  <2>2. torn' /\ torn' \in BOOLEAN /\ job' = "undefined"
    BY <1>0, <1>13, <2>1 DEF Mismatch, Over, history
  <2>3. MemoryInv'
    BY <1>13, <2>2 DEF Mismatch, Over, MemoryInv, FreshMemory, Fields
  <2>. QED
    BY <2>2, <2>3 DEF IInv, Lockstep, RanksMeet
<1>. QED
  BY <1>1, <1>2, <1>3, <1>4, <1>5, <1>6, <1>7, <1>8, <1>9, <1>10, <1>11, <1>12, <1>13
  DEF Together

LEMMA OtherSteps ==
  ASSUME IInv, SaveFails \/ Crash \/ Restart \/ UNCHANGED vars
  PROVE  IInv'
<1>0. torn \in BOOLEAN
  BY DEF IInv, MemoryInv
<1>1. CASE SaveFails
  BY <1>0, <1>1, OverKeeps DEF SaveFails
<1>2. CASE Crash
  BY <1>0, <1>2, OverKeeps DEF Crash
<1>3. CASE Restart
  <2>1. job # "running" /\ \A r \in Ranks : mem[r].epoch = 0
    BY <1>3 DEF Restart, IInv, MemoryInv, WriteErrors
  <2>2. MemoryInv'
    BY <1>3 DEF Restart, IInv, MemoryInv
  <2>3. \A r \in Ranks : Bound(r)' = "census" /\ mem'[r].epoch = 0
    BY <1>3, <2>1 DEF Restart, Bound
  <2>4. Lockstep'
    BY <2>3 DEF Lockstep, Abreast, InStep
  <2>. QED
    BY <1>3, <2>2, <2>4 DEF Restart, IInv, RanksMeet
<1>4. CASE UNCHANGED vars
  <2>1. StepsPerEpoch' = StepsPerEpoch
    BY <1>4, LocalFrame DEF vars
  <2>2. MemoryInv' /\ RanksMeet'
    BY <1>4 DEF vars, IInv, MemoryInv, RanksMeet
  <2>3. \A r \in Ranks : Bound(r)' = Bound(r) /\ StepOf(r)' = StepOf(r)
    BY <1>4, <2>1 DEF vars, Bound, StepOf
  <2>4. Lockstep'
    BY <1>4, <2>3 DEF vars, IInv, Lockstep, Abreast
  <2>. QED
    BY <2>2, <2>4 DEF IInv
<1>. QED
  BY <1>1, <1>2, <1>3, <1>4

LEMMA NextKeeps == IInv /\ [Next]_vars => IInv'
BY AloneSteps, TogetherSteps, OtherSteps DEF Next

-----------------------------------------------------------------------------

\* For any number of ranks, any data, shards of any lengths, any checkpoints
\* and any crashes: ranks of a job that began in one epoch never stand in
\* different collective calls, or in different rounds of the routing.
THEOREM RanksAlwaysMeet == Spec => []RanksMeet
<1>1. IInv => RanksMeet
  BY DEF IInv
<1>. QED
  BY InitHolds, NextKeeps, <1>1, PTL DEF Spec

-----------------------------------------------------------------------------
(***************************************************************************)
(* The replicas.  While no job has mixed epochs: ranks past the loading    *)
(* hold one model; the files hold beginnings of it, one per epoch; and a   *)
(* job that starts afresh finds no file.                                   *)
(***************************************************************************)
Early == {"off", "count", "census", "rounds", "route", "tally", "load"}
Late == {"epoch", "fill", "size", "sync", "head", "loss", "report", "save", "saved", "gather"}
Saving == {"save", "saved"}

IsSeq(s) == \E S : s \in Seq(S)
Begins(a, b) == Len(a) <= Len(b) /\ \A i \in 1 .. Len(a) : a[i] = b[i]

ModelFields == {"number", "rows", "dense", "replica", "head"}

\* A model that has counted its steps, with matrices that have made them all,
\* or all but the last.
Counted(m) == ModelFields \subseteq DOMAIN m /\ IsSeq(m.replica) /\ m.number = Len(m.replica)
Whole(m) == Counted(m) /\ m.head = [side \in Sides |-> m.replica]
Pending(m, batch) ==
    /\ Counted(m)
    /\ \E h : IsSeq(h) /\ m.replica = Append(h, batch) /\ m.head = [side \in Sides |-> h]
Alike(m, n) == m.number = n.number /\ m.replica = n.replica /\ m.head = n.head

\* What a rank holds where it stands: label, memory, file and global batch.
Holds(label, m, f, batch) ==
    /\ label \in Early \cup Late \cup {"agree"}
    /\ label \in Early => m.model = Nothing /\ m.epoch = 0 /\ m.ok
    /\ label = "agree" =>
          IF f = Nothing THEN ~m.ok /\ m.model = Nothing
          ELSE m.epoch = f.epoch /\ m.model = f.model
    /\ label \in Late \ {"head"} => Whole(m.model)
    /\ label = "head" => Pending(m.model, batch)
    /\ label \in Late => m.epoch \in Nat
    /\ label \in Saving => CheckpointEpochs > 0 /\ (m.epoch + 1) % CheckpointEpochs = 0

FileOK(f) ==
    /\ Whole(f.model) /\ f.epoch \in Nat
    /\ CheckpointEpochs > 0 /\ f.epoch % CheckpointEpochs = 0
FitTogether(f, g) ==
    /\ Begins(f.model.replica, g.model.replica) \/ Begins(g.model.replica, f.model.replica)
    /\ f.epoch = g.epoch => f.model.replica = g.model.replica
    /\ g.epoch <= f.epoch + CheckpointEpochs

\* The file f is of the end of this epoch, or of the last one saved before it.
IsNew(f, m) == f.epoch = m.epoch + 1 /\ f.model.replica = m.model.replica
IsOld(f, m) == f.epoch <= m.epoch /\ m.epoch < f.epoch + CheckpointEpochs
Follows(f, label, m) ==
    /\ Begins(f.model.replica, m.model.replica)
    /\ IsOld(f, m) \/ (label \in Saving /\ IsNew(f, m))

GlobalOf(m) == UNION {m[r].batch : r \in Ranks}
Replicated(p, m, f) ==
    /\ \A r \in Ranks : Holds(p[r], m[r], f[r], GlobalOf(m))
    /\ \A r, s \in Ranks : p[r] \in Late /\ p[s] \in Late => Alike(m[r].model, m[s].model)
    /\ \A r \in Ranks : f[r] # Nothing => FileOK(f[r])
    /\ \A r, s \in Ranks : f[r] # Nothing /\ f[s] # Nothing => FitTogether(f[r], f[s])
    /\ \A r, s \in Ranks : p[r] \in Late /\ f[s] # Nothing => Follows(f[s], p[r], m[r])
    /\ \A r \in Ranks : p[r] = "saved" /\ m[r].ok => IsNew(f[r], m[r])
FreshStart(p, m, f) ==
    \A r, s \in Ranks : p[r] \in Early =>
          f[s] = Nothing /\ (p[s] \in Late => m[s].model.replica = <<>>)

ReplicaInv ==
    /\ DOMAIN files = Ranks
    /\ job # "running" => \A r \in Ranks : pc[r] = "off"
    /\ ~torn => /\ Replicated(pc, mem, files)
                /\ job = "running" /\ ~resuming => FreshStart(pc, mem, files)

-----------------------------------------------------------------------------
(***************************************************************************)
(* Sequences and models.                                                   *)
(***************************************************************************)
LEMMA AppendFacts ==
  ASSUME NEW s, IsSeq(s), NEW e
  PROVE  /\ IsSeq(Append(s, e)) /\ Len(s) \in Nat /\ Len(Append(s, e)) = Len(s) + 1
         /\ \A i \in 1 .. Len(s) : Append(s, e)[i] = s[i]
<1>1. PICK S : s \in Seq(S)
  BY DEF IsSeq
<1>2. s \in Seq(S \cup {e}) /\ e \in S \cup {e}
  BY <1>1
<1>3. Append(s, e) \in Seq(S \cup {e})
  BY <1>2
<1>. QED
  BY <1>1, <1>3 DEF IsSeq

LEMMA BeginsFacts ==
  /\ \A a : IsSeq(a) => Begins(a, a)
  /\ \A a, b, e : IsSeq(a) /\ IsSeq(b) /\ Begins(a, b) => Begins(a, Append(b, e))
  /\ \A a, b : IsSeq(a) /\ IsSeq(b) /\ Begins(a, b) /\ Len(a) = Len(b) => a = b
<1>0. \A a : IsSeq(a) => Len(a) \in Nat
  BY DEF IsSeq
<1>1. ASSUME NEW a, IsSeq(a) PROVE Begins(a, a)
  BY <1>0, <1>1 DEF Begins
<1>2. ASSUME NEW a, NEW b, NEW e, IsSeq(a), IsSeq(b), Begins(a, b) PROVE Begins(a, Append(b, e))
  <2>. DEFINE k == Len(a)
              n == Len(b)
              c == Append(b, e)
  <2>1. /\ k \in Nat /\ n \in Nat /\ k <= n /\ Len(c) = n + 1
        /\ \A i \in 1 .. n : c[i] = b[i]
        /\ \A i \in 1 .. k : a[i] = b[i]
    BY <1>0, <1>2, AppendFacts DEF Begins
  <2>. HIDE DEF k, n, c
  <2>2. k <= n + 1 /\ \A i \in 1 .. k : i \in 1 .. n
    BY <2>1
  <2>3. Len(a) = k /\ Len(c) = n + 1
    BY <2>1 DEF k
  <2>. QED
    BY <2>1, <2>2, <2>3 DEF Begins, c
<1>3. ASSUME NEW a, NEW b, IsSeq(a), IsSeq(b), Begins(a, b), Len(a) = Len(b) PROVE a = b
  <2>1. PICK S : a \in Seq(S)
    BY <1>3 DEF IsSeq
  <2>2. PICK T : b \in Seq(T)
    BY <1>3 DEF IsSeq
  <2>3. a \in Seq(S \cup T) /\ b \in Seq(S \cup T)
    BY <2>1, <2>2
  <2>4. \A i \in 1 .. Len(a) : a[i] = b[i]
    BY <1>3 DEF Begins
  <2>. QED
    BY <2>3, <2>4, <1>3, SeqEqual
<1>. QED
  BY <1>1, <1>2, <1>3

LEMMA EmptyIsSeq == IsSeq(<<>>) /\ Len(<<>>) = 0
<1>1. <<>> \in Seq({})
  OBVIOUS
<1>. QED
  BY <1>1 DEF IsSeq

\* One step of the optimizer, without Muon and with it.
LEMMA StepOfModel ==
  ASSUME NEW m, Whole(m), NEW batch, NEW global
  PROVE  LET n == Updated(m, batch, global) IN
         /\ n.replica = Append(m.replica, global)
         /\ options.optimizer = "muon" => Pending(n, global) /\ n.head = m.head
         /\ options.optimizer # "muon" => Whole(n)
<1>. DEFINE n == Updated(m, batch, global)
<1>1. ModelFields \subseteq DOMAIN m /\ IsSeq(m.replica) /\ m.number = Len(m.replica)
      /\ m.head = [side \in Sides |-> m.replica]
  BY DEF Whole, Counted
<1>2. /\ DOMAIN n = DOMAIN m /\ n.number = m.number + 1 /\ n.replica = Append(m.replica, global)
      /\ n.head = IF options.optimizer = "muon" THEN m.head
                  ELSE [side \in Sides |-> Append(m.head[side], global)]
  BY <1>1 DEF Updated, ModelFields
<1>. HIDE DEF n
<1>3. Counted(n)
  BY <1>1, <1>2, AppendFacts DEF Counted
<1>4. CASE options.optimizer = "muon"
  BY <1>1, <1>2, <1>3, <1>4 DEF Pending, n
<1>5. CASE options.optimizer # "muon"
  <2>1. \A side \in Sides : m.head[side] = m.replica
    BY <1>1
  <2>2. n.head = [side \in Sides |-> n.replica]
    BY <1>2, <1>5, <2>1
  <2>. QED
    BY <1>2, <1>3, <1>5, <2>2 DEF Whole, n
<1>. QED
  BY <1>4, <1>5

\* Multiples of the distance between checkpoints.
LEMMA NextMultiple ==
  ASSUME CheckpointEpochs > 0, NEW f \in Nat, NEW e \in Nat, f % CheckpointEpochs = 0,
         e < f + CheckpointEpochs, (e + 1) % CheckpointEpochs # 0
  PROVE  e + 1 < f + CheckpointEpochs
<1>. DEFINE C == CheckpointEpochs
            q == f \div C
<1>1. C \in Nat /\ C > 0
  BY CheckpointAssumption DEF CheckpointAssumption
<1>2. q \in Nat /\ f % C = f - C * q
  <2>. HIDE DEF C
  <2>. QED
    BY <1>1
<1>3. f = C * q
  BY <1>2, <1>1
<1>. SUFFICES ASSUME e + 1 = f + C PROVE FALSE
  BY <1>1
<1>4. e + 1 = C * (q + 1) /\ q + 1 \in Nat
  <2>. HIDE DEF C, q
  <2>. QED
    BY <1>1, <1>2, <1>3
<1>5. (C * (q + 1)) % C = 0
  <2>. DEFINE k == q + 1
  <2>1. k \in Nat
    BY <1>4
  <2>. HIDE DEF C, k
  <2>. QED
    BY <1>1, <2>1
<1>. QED
  BY <1>4, <1>5

-----------------------------------------------------------------------------
(***************************************************************************)
(* Steps that leave the models alone.                                      *)
(***************************************************************************)
Same(x, y) ==
    /\ y.epoch = x.epoch /\ y.ok = x.ok
    /\ y.model.number = x.model.number /\ y.model.replica = x.model.replica
    /\ y.model.head = x.model.head
    /\ Whole(x.model) => Whole(y.model)
Quiet(label, x, next, y) ==
    \/ label = next /\ label # "head" /\ x = y
    \/ label \in Early /\ next \in Early /\ Same(x, y) /\ y.model = x.model
    \/ label \in Late \ (Saving \cup {"head"}) /\ next \in Late \ (Saving \cup {"head"}) /\ Same(x, y)

LEMMA QuietKeeps ==
  ASSUME NEW p, NEW m, NEW q, NEW n, NEW f, Replicated(p, m, f),
         \A r \in Ranks : Quiet(p[r], m[r], q[r], n[r])
  PROVE  Replicated(q, n, f) /\ (FreshStart(p, m, f) => FreshStart(q, n, f))
<1>1. ASSUME NEW r \in Ranks
      PROVE  /\ q[r] \in Late <=> p[r] \in Late
             /\ q[r] \in Early <=> p[r] \in Early
             /\ q[r] = p[r] \/ (q[r] \notin Saving /\ p[r] \notin Saving)
             /\ q[r] # "head"
             /\ n[r].epoch = m[r].epoch /\ n[r].ok = m[r].ok
             /\ n[r].model.number = m[r].model.number
             /\ n[r].model.replica = m[r].model.replica
             /\ n[r].model.head = m[r].model.head
             /\ Whole(m[r].model) => Whole(n[r].model)
  <2>1. Quiet(p[r], m[r], q[r], n[r])
    OBVIOUS
  <2>2. Same(m[r], n[r])
    BY <2>1 DEF Quiet, Same
  <2>. QED
    BY <2>1, <2>2 DEF Quiet, Same, Early, Late, Saving
<1>2. ASSUME NEW r \in Ranks PROVE Holds(q[r], n[r], f[r], GlobalOf(n))
  <2>1. Holds(p[r], m[r], f[r], GlobalOf(m)) /\ Quiet(p[r], m[r], q[r], n[r])
    BY DEF Replicated
  <2>2. CASE p[r] = q[r] /\ p[r] # "head" /\ m[r] = n[r]
    BY <2>1, <2>2 DEF Holds
  <2>3. CASE p[r] \in Early /\ q[r] \in Early /\ n[r].model = m[r].model
    BY <1>1, <2>1, <2>3 DEF Holds, Early, Late, Saving
  <2>4. CASE p[r] \in Late \ (Saving \cup {"head"}) /\ q[r] \in Late \ (Saving \cup {"head"})
    BY <1>1, <2>1, <2>4 DEF Holds, Early, Late, Saving
  <2>. QED
    BY <2>1, <2>2, <2>3, <2>4 DEF Quiet
<1>3. ASSUME NEW r \in Ranks, NEW s \in Ranks, q[r] \in Late, q[s] \in Late
      PROVE  Alike(n[r].model, n[s].model)
  <2>1. Alike(m[r].model, m[s].model)
    BY <1>1, <1>3 DEF Replicated
  <2>. QED
    BY <1>1, <2>1 DEF Alike
<1>4. ASSUME NEW r \in Ranks, NEW s \in Ranks, q[r] \in Late, f[s] # Nothing
      PROVE  Follows(f[s], q[r], n[r])
  <2>1. Follows(f[s], p[r], m[r])
    BY <1>1, <1>4 DEF Replicated
  <2>. QED
    BY <1>1, <2>1 DEF Follows, IsNew, IsOld
<1>5. ASSUME NEW r \in Ranks, q[r] = "saved", n[r].ok PROVE IsNew(f[r], n[r])
  <2>1. p[r] = "saved" /\ m[r].ok
    BY <1>1, <1>5 DEF Saving
  <2>2. IsNew(f[r], m[r])
    BY <2>1 DEF Replicated
  <2>. QED
    BY <1>1, <2>2 DEF IsNew
<1>6. ASSUME FreshStart(p, m, f) PROVE FreshStart(q, n, f)
  BY <1>1, <1>6 DEF FreshStart
<1>. QED
  BY <1>2, <1>3, <1>4, <1>5, <1>6 DEF Replicated

\* A job that is over keeps its files.
LEMMA OverReplicas ==
  ASSUME ReplicaInv, NEW how, how # "running", NEW message, Over(how, message),
         files' = files, torn' = torn
  PROVE  ReplicaInv'
<1>. DEFINE p == [r \in Ranks |-> "off"]
            m == [r \in Ranks |-> FreshMemory(r)]
<1>1. pc' = p /\ mem' = m /\ job' # "running"
  BY DEF Over
<1>2. ASSUME ~torn PROVE Replicated(p, m, files)
  <2>1. Replicated(pc, mem, files)
    BY <1>2 DEF ReplicaInv
  <2>2. \A r \in Ranks : /\ m[r].model = Nothing /\ m[r].epoch = 0 /\ m[r].ok = TRUE
                         /\ p[r] = "off"
    BY DEF FreshMemory
  <2>. HIDE DEF p, m
  <2>3. \A r \in Ranks : Holds(p[r], m[r], files[r], GlobalOf(m))
    BY <2>2 DEF Holds, Early, Late, Saving
  <2>. QED
    BY <2>1, <2>2, <2>3 DEF Replicated, Late
<1>3. \A r \in Ranks : pc'[r] = "off"
  BY <1>1
<1>4. ~torn' => Replicated(pc', mem', files')
  BY <1>1, <1>2
<1>. QED
  BY <1>1, <1>3, <1>4 DEF ReplicaInv, Replicated, Holds, FileOK, FitTogether, Follows, IsNew, IsOld, GlobalOf

\* In a running job.
LEMMA RunningReplicas ==
  ASSUME ReplicaInv, job = "running", job' = job, resuming' = resuming,
         DOMAIN files' = Ranks, ~torn' => ~torn,
         ~torn' => Replicated(pc', mem', files'),
         ~torn' /\ ~resuming => FreshStart(pc', mem', files')
  PROVE  ReplicaInv'
BY DEF ReplicaInv, Replicated, FreshStart, Holds, FileOK, FitTogether, Follows, IsNew, IsOld, GlobalOf

LEMMA QuietReplicas ==
  ASSUME ReplicaInv, job = "running", UNCHANGED <<job, resuming, torn, files>>,
         ~torn => \A r \in Ranks : Quiet(pc[r], mem[r], pc'[r], mem'[r])
  PROVE  ReplicaInv'
<1>1. ASSUME ~torn
      PROVE  /\ Replicated(pc', mem', files')
             /\ ~resuming => FreshStart(pc', mem', files')
  <2>1. Replicated(pc, mem, files) /\ (~resuming => FreshStart(pc, mem, files))
    BY <1>1 DEF ReplicaInv
  <2>. DEFINE q == pc'
              n == mem'
  <2>2. \A r \in Ranks : Quiet(pc[r], mem[r], q[r], n[r])
    BY <1>1
  <2>. HIDE DEF q, n
  <2>3. Replicated(q, n, files) /\ (FreshStart(pc, mem, files) => FreshStart(q, n, files))
    BY <2>1, <2>2, QuietKeeps
  <2>. QED
    BY <2>1, <2>3 DEF q, n
<1>. QED
  BY <1>1, RunningReplicas DEF ReplicaInv

\* Where the ranks stand while no job has mixed epochs: a broadcast is of all
\* ranks, a checkpoint too, and none trains while another has only loaded its file.
LEMMA Standing ==
  ASSUME IInv, job = "running", ~torn, NEW r \in Ranks, NEW s \in Ranks
  PROVE  /\ pc[r] = "head" => pc[s] = "head"
         /\ pc[r] \in Saving => pc[s] \in Saving /\ mem[s].epoch = mem[r].epoch
         /\ pc[r] = "agree" => pc[s] \notin Late
<1>1. Abreast(r, s)
  BY DEF IInv, Lockstep
<1>2. pc[r] = "head" => Bound(r) = "head"
  BY DEF Bound
<1>3. pc[r] = "agree" => Bound(r) = "agree"
  BY DEF Bound
<1>4. pc[r] \in Saving => Bound(r) = "saved"
  BY DEF Bound, Saving
<1>5. Bound(s) = "head" => pc[s] = "head"
  BY DEF Bound
<1>6. Bound(s) = "saved" => pc[s] \in Saving
  BY DEF Bound, Saving
<1>7. Bound(s) = "agree" => pc[s] \notin Late
  BY DEF Bound, Late
<1>. QED
  BY <1>1, <1>2, <1>3, <1>4, <1>5, <1>6, <1>7 DEF Abreast

-----------------------------------------------------------------------------
(***************************************************************************)
(* What a rank does alone.                                                 *)
(***************************************************************************)
\* A rank that neither loads nor saves, while no broadcast goes on.
LEMMA QuietAlone ==
  ASSUME IInv, ReplicaInv, NEW r \in Ranks, job = "running",
         UNCHANGED <<job, resuming, torn, files>>,
         pc[r] # "head",
         NEW label, pc' = [pc EXCEPT ![r] = label],
         NEW m, mem' = [mem EXCEPT ![r] = m],
         ~torn => Quiet(pc[r], mem[r], label, m)
  PROVE  ReplicaInv'
<1>1. ASSUME ~torn, NEW s \in Ranks PROVE Quiet(pc[s], mem[s], pc'[s], mem'[s])
  <2>1. pc[s] # "head"
    BY <1>1, Standing
  <2>2. DOMAIN pc = Ranks /\ DOMAIN mem = Ranks
    BY DEF IInv, MemoryInv
  <2>3. CASE s = r
    BY <1>1, <2>2, <2>3
  <2>4. CASE s # r
    BY <2>1, <2>2, <2>4 DEF Quiet
  <2>. QED
    BY <2>3, <2>4
<1>. QED
  BY <1>1, QuietReplicas

\* The initial weights of the ranks are alike, and no step has been made.
LEMMA InitialModelIsWhole ==
  ASSUME NEW r
  PROVE  LET n == InitialModel(r) IN
         Whole(n) /\ n.number = 0 /\ n.replica = <<>> /\ n.head = [side \in Sides |-> <<>>]
<1>. DEFINE n == InitialModel(r)
<1>1. ModelFields \subseteq DOMAIN n
  BY DEF InitialModel, ModelFields
<1>2. n.number = 0 /\ n.replica = <<>> /\ n.head = [side \in Sides |-> <<>>]
  BY DEF InitialModel
<1>. HIDE DEF n
<1>3. Whole(n)
  BY <1>1, <1>2, EmptyIsSeq DEF Whole, Counted
<1>. QED
  BY <1>2, <1>3 DEF n

\* A rank of a fresh job gets its initial weights.
LEMMA FreshModelKeeps ==
  ASSUME NEW p, NEW m, NEW f, Replicated(p, m, f), FreshStart(p, m, f), NEW r \in Ranks,
         p[r] = "load", DOMAIN p = Ranks, DOMAIN m = Ranks, Fields \subseteq DOMAIN m[r],
         NEW q, q = [p EXCEPT ![r] = "epoch"],
         NEW n, n = [m EXCEPT ![r] = [m[r] EXCEPT !.model = InitialModel(r)]]
  PROVE  Replicated(q, n, f) /\ FreshStart(q, n, f)
<1>. DEFINE x == InitialModel(r)
<1>1. /\ q[r] = "epoch" /\ n[r].model = x /\ n[r].epoch = m[r].epoch /\ n[r].batch = m[r].batch
      /\ \A s \in Ranks : s # r => q[s] = p[s] /\ n[s] = m[s]
  BY DEF Fields
<1>2. Whole(x) /\ x.number = 0 /\ x.replica = <<>> /\ x.head = [side \in Sides |-> <<>>]
  BY InitialModelIsWhole
<1>. HIDE DEF x
<1>3. m[r].epoch = 0 /\ \A s \in Ranks : f[s] = Nothing
  BY DEF Replicated, Holds, FreshStart, Early
<1>4. ASSUME NEW s \in Ranks, p[s] \in Late
      PROVE  Whole(m[s].model) /\ p[s] # "head" /\ Alike(m[s].model, x)
  <2>1. m[s].model.replica = <<>>
    BY <1>4 DEF FreshStart, Early
  <2>2. p[s] # "head"
    <3>. SUFFICES ASSUME p[s] = "head" PROVE FALSE
      OBVIOUS
    <3>1. Pending(m[s].model, GlobalOf(m))
      BY DEF Replicated, Holds
    <3>2. PICK h : IsSeq(h) /\ <<>> = Append(h, GlobalOf(m))
      BY <2>1, <3>1 DEF Pending
    <3>3. Len(<<>>) = Len(h) + 1 /\ Len(h) \in Nat
      BY <3>2, AppendFacts
    <3>. QED
      BY <3>3, EmptyIsSeq
  <2>3. Whole(m[s].model)
    BY <1>4, <2>2 DEF Replicated, Holds
  <2>. QED
    BY <1>2, <2>1, <2>2, <2>3, EmptyIsSeq DEF Alike, Whole, Counted
<1>5. \A s \in Ranks : Holds(q[s], n[s], f[s], GlobalOf(n))
  <2>1. Holds(q[r], n[r], f[r], GlobalOf(n))
    BY <1>1, <1>2, <1>3 DEF Holds, Early, Late, Saving
  <2>2. \A s \in Ranks : s # r => Holds(p[s], m[s], f[s], GlobalOf(n))
    BY <1>4 DEF Replicated, Holds, Late
  <2>. QED
    BY <1>1, <2>1, <2>2
<1>6. \A s \in Ranks : q[s] \in Late => n[s].model.replica = <<>> /\ Alike(n[s].model, x)
  BY <1>1, <1>2, <1>4 DEF Alike
<1>7. \A s, t \in Ranks : q[s] \in Late /\ q[t] \in Late => Alike(n[s].model, n[t].model)
  BY <1>6 DEF Alike
<1>8. \A s \in Ranks : q[s] = "saved" /\ n[s].ok => IsNew(f[s], n[s])
  BY <1>1 DEF Replicated
<1>. QED
  BY <1>1, <1>3, <1>5, <1>6, <1>7, <1>8 DEF Replicated, FreshStart, Early

\* A rank writes its file: those of the others are as new, or of the last time.
LEMMA NewFileKeeps ==
  ASSUME NEW p, NEW m, NEW f, Replicated(p, m, f), NEW r \in Ranks, p[r] = "save",
         DOMAIN p = Ranks, DOMAIN f = Ranks,
         \A s \in Ranks : p[s] \in Saving /\ m[s].epoch = m[r].epoch,
         NEW q, q = [p EXCEPT ![r] = "saved"],
         NEW g, g = [f EXCEPT ![r] = [epoch |-> EpochToResume(r), model |-> m[r].model]],
         EpochToResume(r) = m[r].epoch + 1
  PROVE  Replicated(q, m, g) /\ FreshStart(q, m, g)
<1>. DEFINE new == [epoch |-> EpochToResume(r), model |-> m[r].model]
            e == m[r].epoch
            C == CheckpointEpochs
<1>1. /\ q[r] = "saved" /\ g[r] = new /\ new.epoch = e + 1 /\ new.model = m[r].model
      /\ \A s \in Ranks : s # r => q[s] = p[s] /\ g[s] = f[s]
      /\ \A s \in Ranks : q[s] \in Saving /\ (p[s] = q[s] \/ s = r)
  BY DEF Saving
<1>2. /\ Whole(m[r].model) /\ e \in Nat /\ C > 0 /\ C \in Nat /\ (e + 1) % C = 0
  BY CheckpointAssumption DEF Replicated, Holds, Late, Saving, CheckpointAssumption
<1>. HIDE DEF new
<1>3. FileOK(new)
  BY <1>1, <1>2 DEF FileOK
<1>4. ASSUME NEW s \in Ranks, f[s] # Nothing
      PROVE  /\ FileOK(f[s])
             /\ Begins(f[s].model.replica, new.model.replica)
             /\ f[s].epoch = e + 1 => f[s].model.replica = new.model.replica
             /\ e + 1 <= f[s].epoch + C /\ f[s].epoch <= e + 1
  <2>1. Follows(f[s], p[r], m[r]) /\ FileOK(f[s])
    BY <1>4 DEF Replicated, Late
  <2>2. f[s].epoch \in Nat
    BY <2>1 DEF FileOK
  <2>. QED
    BY <1>1, <1>2, <2>1, <2>2 DEF Follows, IsOld, IsNew
<1>5. ASSUME NEW s \in Ranks
      PROVE  new.model.replica = m[s].model.replica /\ Begins(new.model.replica, m[s].model.replica)
  <2>1. Alike(m[r].model, m[s].model)
    BY DEF Replicated, Late, Saving
  <2>. QED
    BY <1>1, <1>2, <2>1, BeginsFacts DEF Alike, Whole, Counted
<1>6. \A s \in Ranks : Holds(q[s], m[s], g[s], GlobalOf(m))
  <2>1. \A s \in Ranks : Holds(p[s], m[s], f[s], GlobalOf(m)) /\ p[s] \in Saving
    BY DEF Replicated
  <2>2. Holds(q[r], m[r], g[r], GlobalOf(m))
    BY <1>1, <2>1 DEF Holds, Early, Late, Saving
  <2>. QED
    BY <1>1, <2>1, <2>2
<1>7. \A s \in Ranks : g[s] # Nothing => FileOK(g[s])
  BY <1>1, <1>3 DEF Replicated
<1>8. FitTogether(new, new) /\ \A s \in Ranks : f[s] # Nothing =>
          FitTogether(new, f[s]) /\ FitTogether(f[s], new)
  <2>1. FitTogether(new, new)
    BY <1>1, <1>2, <1>5 DEF FitTogether
  <2>2. ASSUME NEW s \in Ranks, f[s] # Nothing
        PROVE  FitTogether(new, f[s]) /\ FitTogether(f[s], new)
    <3>1. f[s].epoch \in Nat
      BY <2>2, <1>4 DEF FileOK
    <3>. QED
      BY <1>1, <1>2, <1>4, <2>2, <3>1 DEF FitTogether
  <2>. QED
    BY <2>1, <2>2
<1>9. \A s, t \in Ranks : g[s] # Nothing /\ g[t] # Nothing => FitTogether(g[s], g[t])
  BY <1>1, <1>8 DEF Replicated
<1>10. \A s, t \in Ranks : q[s] \in Late /\ g[t] # Nothing => Follows(g[t], q[s], m[s])
  <2>. SUFFICES ASSUME NEW s \in Ranks, NEW t \in Ranks, g[t] # Nothing
                PROVE  Follows(g[t], q[s], m[s])
    OBVIOUS
  <2>1. CASE t = r
    BY <1>1, <1>5, <2>1 DEF Follows, IsNew
  <2>2. CASE t # r
    <3>1. Follows(f[t], p[s], m[s])
      BY <1>1, <2>2 DEF Replicated, Late, Saving
    <3>. QED
      BY <1>1, <2>2, <3>1 DEF Follows
  <2>. QED
    BY <2>1, <2>2
<1>11. \A s \in Ranks : q[s] = "saved" /\ m[s].ok => IsNew(g[s], m[s])
  BY <1>1 DEF Replicated, IsNew
<1>12. \A s, t \in Ranks : q[s] \in Late /\ q[t] \in Late => Alike(m[s].model, m[t].model)
  BY DEF Replicated, Late, Saving
<1>13. FreshStart(q, m, g)
  BY <1>1 DEF FreshStart, Early, Saving
<1>. QED
  BY <1>6, <1>7, <1>9, <1>10, <1>11, <1>12, <1>13 DEF Replicated

LEMMA AloneReplicas ==
  ASSUME IInv, ReplicaInv, NEW r \in Ranks, Alone(r) \/ CheckpointFails(r)
  PROVE  ReplicaInv'
<1>0. /\ DOMAIN pc = Ranks /\ DOMAIN mem = Ranks /\ DOMAIN files = Ranks
      /\ mem = [s \in Ranks |-> mem[s]] /\ Fields \subseteq DOMAIN mem[r]
  BY DEF IInv, MemoryInv, ReplicaInv
<1>00. ASSUME NEW message, AbortMpi(message) PROVE ReplicaInv'
  BY <1>00, OverReplicas DEF AbortMpi, disk, history
<1>1. CASE CountBuckets(r)
  <2>1. CASE \E message : AbortMpi(message)
    BY <2>1, <1>00
  <2>2. CASE Goes(r, "census") /\ UNCHANGED mem /\ Local
    <3>1. mem' = [mem EXCEPT ![r] = mem[r]]
      BY <2>2, <1>0
    <3>2. Quiet(pc[r], mem[r], "census", mem[r])
      BY <1>1 DEF CountBuckets, At, Quiet, Same, Early
    <3>. QED
      BY <1>1, <2>2, <3>1, <3>2, QuietAlone DEF CountBuckets, At, Goes, Local, disk, history
  <2>. QED
    BY <1>1, <2>1, <2>2 DEF CountBuckets
<1>2. CASE LoadCheckpoint(r)
  <2>0. job = "running" /\ pc[r] = "load" /\ UNCHANGED <<job, resuming, torn, files>>
    BY <1>2 DEF LoadCheckpoint, At, Local, disk, history
  <2>1. CASE ~resuming
    <3>1. /\ pc' = [pc EXCEPT ![r] = "epoch"]
          /\ mem' = [mem EXCEPT ![r] = [mem[r] EXCEPT !.model = InitialModel(r)]]
      BY <1>0, <1>2, <2>1 DEF LoadCheckpoint, Goes
    <3>2. ASSUME ~torn PROVE Replicated(pc', mem', files) /\ FreshStart(pc', mem', files)
      <4>1. Replicated(pc, mem, files) /\ FreshStart(pc, mem, files)
        BY <2>0, <2>1, <3>2 DEF ReplicaInv
      <4>. DEFINE q == [pc EXCEPT ![r] = "epoch"]
                  n == [mem EXCEPT ![r] = [mem[r] EXCEPT !.model = InitialModel(r)]]
      <4>2. Replicated(q, n, files) /\ FreshStart(q, n, files)
        BY <1>0, <2>0, <4>1, FreshModelKeeps
      <4>. QED
        BY <3>1, <4>2
    <3>. QED
      BY <1>0, <2>0, <3>2, RunningReplicas
  <2>2. CASE resuming
    <3>. DEFINE m == IF files[r] = Nothing THEN [mem[r] EXCEPT !.ok = FALSE]
                     ELSE [mem[r] EXCEPT !.epoch = files[r].epoch, !.model = files[r].model]
                q == [pc EXCEPT ![r] = "agree"]
                n == [mem EXCEPT ![r] = m]
    <3>1. pc' = q /\ mem' = n
      BY <1>0, <1>2, <2>2 DEF LoadCheckpoint, Goes
    <3>2. /\ q[r] = "agree" /\ n[r] = m
          /\ \A s \in Ranks : s # r => q[s] = pc[s] /\ n[s] = mem[s]
      BY <1>0
    <3>3. /\ files[r] = Nothing => ~m.ok /\ m.model = mem[r].model
          /\ files[r] # Nothing => m.epoch = files[r].epoch /\ m.model = files[r].model
      BY <1>0 DEF Fields
    <3>. HIDE DEF q, n, m
    <3>4. ASSUME ~torn PROVE Replicated(q, n, files)
      <4>0. Replicated(pc, mem, files)
        BY <3>4 DEF ReplicaInv
      <4>1. Holds(q[r], n[r], files[r], GlobalOf(n))
        <5>1. mem[r].model = Nothing
          BY <2>0, <4>0 DEF Replicated, Holds, Early
        <5>. QED
          BY <3>2, <3>3, <5>1 DEF Holds, Early, Late, Saving
      <4>2. ASSUME NEW s \in Ranks, s # r PROVE Holds(q[s], n[s], files[s], GlobalOf(n))
        <5>1. pc[s] # "head"
          BY <2>0, <3>4, Standing
        <5>. QED
          BY <3>2, <4>0, <4>2, <5>1 DEF Replicated, Holds
      <4>3. \A s \in Ranks : q[s] \in Late => pc[s] \in Late /\ n[s] = mem[s] /\ q[s] = pc[s]
        BY <3>2 DEF Late
      <4>. QED
        BY <4>0, <4>1, <4>2, <4>3 DEF Replicated, Late
    <3>. QED
      BY <1>0, <2>0, <2>2, <3>1, <3>4, RunningReplicas
  <2>. QED
    BY <2>1, <2>2
<1>3. CASE BeginEpoch(r)
  <2>. DEFINE m == [mem[r] EXCEPT
                      !.kept = [b \in Buckets |->
                          IF Owns(r, b) THEN Shuffled(@[b], mem[r].epoch, b) ELSE @[b]],
                      !.offset = [b \in Buckets |-> 0], !.step = 0]
  <2>1. /\ mem' = [mem EXCEPT ![r] = m]
        /\ job = "running" /\ pc[r] = "epoch" /\ UNCHANGED <<job, resuming, torn, files>>
        /\ pc' = [pc EXCEPT ![r] = "fill"]
    BY <1>0, <1>3 DEF BeginEpoch, At, Goes, Local, disk, history
  <2>2. m.epoch = mem[r].epoch /\ m.ok = mem[r].ok /\ m.model = mem[r].model
    BY <1>0 DEF Fields
  <2>. HIDE DEF m
  <2>3. Quiet(pc[r], mem[r], "fill", m)
    BY <2>1, <2>2 DEF Quiet, Same, Late, Saving
  <2>. QED
    BY <2>1, <2>3, QuietAlone
<1>4. CASE FillBatch(r)
  <2>1. CASE \E message : AbortMpi(message)
    BY <2>1, <1>00
  <2>2. CASE ~Overflows(r)
    <3>. DEFINE m == [mem[r] EXCEPT
                        !.batch = LocalBatch(r),
                        !.offset = [b \in Buckets |->
                            IF Owns(r, b) THEN @[b] + Amount(b, mem[r].step) ELSE @[b]]]
    <3>1. /\ mem' = [mem EXCEPT ![r] = m]
          /\ job = "running" /\ pc[r] = "fill" /\ UNCHANGED <<job, resuming, torn, files>>
          /\ pc' = [pc EXCEPT ![r] = "size"]
      BY <1>0, <1>4, <2>2 DEF FillBatch, At, Goes, Local, disk, history
    <3>2. m.epoch = mem[r].epoch /\ m.ok = mem[r].ok /\ m.model = mem[r].model
      BY <1>0 DEF Fields
    <3>. HIDE DEF m
    <3>3. Quiet(pc[r], mem[r], "size", m)
      BY <3>1, <3>2 DEF Quiet, Same, Late, Saving
    <3>. QED
      BY <3>1, <3>3, QuietAlone
  <2>. QED
    BY <1>4, <2>1, <2>2 DEF FillBatch
<1>5. CASE EndEpoch(r)
  <2>1. /\ mem' = [mem EXCEPT ![r] = mem[r]]
        /\ job = "running" /\ pc[r] = "fill" /\ UNCHANGED <<job, resuming, torn, files>>
        /\ pc' = [pc EXCEPT ![r] = "report"]
    BY <1>0, <1>5 DEF EndEpoch, At, Goes, Local, disk, history
  <2>2. Quiet(pc[r], mem[r], "report", mem[r])
    BY <2>1 DEF Quiet, Same, Late, Saving
  <2>. QED
    BY <2>1, <2>2, QuietAlone
<1>6. CASE SaveCheckpoint(r)
  <2>1. /\ job = "running" /\ pc[r] = "save" /\ UNCHANGED <<job, resuming, torn, mem>>
        /\ pc' = [pc EXCEPT ![r] = "saved"]
        /\ files' = [files EXCEPT ![r] = [epoch |-> EpochToResume(r), model |-> mem[r].model]]
    BY <1>6 DEF SaveCheckpoint, At, Goes, history
  <2>2. ASSUME ~torn PROVE Replicated(pc', mem', files') /\ FreshStart(pc', mem', files')
    <3>. DEFINE q == [pc EXCEPT ![r] = "saved"]
                g == [files EXCEPT ![r] = [epoch |-> EpochToResume(r), model |-> mem[r].model]]
    <3>1. Replicated(pc, mem, files)
      BY <2>2 DEF ReplicaInv
    <3>2. \A s \in Ranks : pc[s] \in Saving /\ mem[s].epoch = mem[r].epoch
      BY <2>1, <2>2, Standing DEF Saving
    <3>3. EpochToResume(r) = mem[r].epoch + 1
      BY DEF EpochToResume
    <3>4. Replicated(q, mem, g) /\ FreshStart(q, mem, g)
      BY <1>0, <2>1, <3>1, <3>2, <3>3, NewFileKeeps
    <3>. QED
      BY <2>1, <3>4
  <2>. QED
    BY <1>0, <2>1, <2>2, RunningReplicas
<1>7. CASE CheckpointFails(r)
  <2>. DEFINE m == [mem[r] EXCEPT !.ok = FALSE]
              q == [pc EXCEPT ![r] = "saved"]
              n == [mem EXCEPT ![r] = m]
  <2>1. /\ job = "running" /\ pc[r] = "save" /\ UNCHANGED <<job, resuming, torn, files>>
        /\ pc' = q /\ mem' = n
    BY <1>0, <1>7 DEF CheckpointFails, At, Goes, disk
  <2>2. /\ q[r] = "saved" /\ n[r] = m
        /\ \A s \in Ranks : s # r => q[s] = pc[s] /\ n[s] = mem[s]
        /\ m.ok = FALSE /\ m.model = mem[r].model /\ m.epoch = mem[r].epoch
    BY <1>0 DEF Fields
  <2>. HIDE DEF q, n, m
  <2>3. ASSUME ~torn PROVE Replicated(q, n, files) /\ FreshStart(q, n, files)
    <3>0. Replicated(pc, mem, files)
      BY <2>3 DEF ReplicaInv
    <3>1. \A s \in Ranks : pc[s] \in Saving
      BY <2>1, <2>3, Standing DEF Saving
    <3>2. \A s \in Ranks : /\ q[s] \in Saving /\ n[s].model = mem[s].model
                           /\ n[s].epoch = mem[s].epoch /\ (q[s] = pc[s] \/ s = r)
      BY <2>2, <3>1 DEF Saving
    <3>3. \A s \in Ranks : Holds(q[s], n[s], files[s], GlobalOf(n))
      BY <2>2, <3>0, <3>1, <3>2 DEF Replicated, Holds, Early, Late, Saving
    <3>4. \A s, t \in Ranks : files[t] # Nothing => Follows(files[t], q[s], n[s])
      <4>1. \A s, t \in Ranks : files[t] # Nothing => Follows(files[t], pc[s], mem[s])
        BY <3>0, <3>1 DEF Replicated, Late, Saving
      <4>. QED
        BY <2>2, <3>1, <3>2, <4>1 DEF Follows, IsOld, IsNew
    <3>5. \A s, t \in Ranks : Alike(n[s].model, n[t].model)
      BY <2>2, <3>0, <3>1 DEF Replicated, Late, Saving
    <3>6. \A s \in Ranks : q[s] = "saved" /\ n[s].ok => IsNew(files[s], n[s])
      BY <2>2, <3>0 DEF Replicated
    <3>7. FreshStart(q, n, files)
      BY <3>2 DEF FreshStart, Early, Saving
    <3>. QED
      BY <3>0, <3>3, <3>4, <3>5, <3>6, <3>7 DEF Replicated
  <2>. QED
    BY <1>0, <2>1, <2>3, RunningReplicas
<1>8. CASE Flush(r)
  <2>. DEFINE x == [mem[r].model EXCEPT !.rows =
                     [y \in Rows |-> IF Owns(r, y[1]) THEN FlushMomentum(@[y], mem[r].model.number)
                                     ELSE @[y]]]
              m == [mem[r] EXCEPT !.model = x]
  <2>1. /\ mem' = [mem EXCEPT ![r] = m]
        /\ job = "running" /\ pc[r] = "epoch" /\ UNCHANGED <<job, resuming, torn, files>>
        /\ pc' = [pc EXCEPT ![r] = "gather"]
    BY <1>0, <1>8 DEF Flush, At, Goes, Local, disk, history
  <2>2. m.epoch = mem[r].epoch /\ m.ok = mem[r].ok /\ m.model = x
    BY <1>0 DEF Fields
  <2>3. ~torn => ModelFields \subseteq DOMAIN mem[r].model
    BY <2>1 DEF ReplicaInv, Replicated, Holds, Late, Whole, Counted
  <2>4. ~torn => /\ x.number = mem[r].model.number /\ x.replica = mem[r].model.replica
                 /\ x.head = mem[r].model.head /\ DOMAIN x = DOMAIN mem[r].model
    BY <2>3 DEF ModelFields
  <2>. HIDE DEF m, x
  <2>5. ~torn => Quiet(pc[r], mem[r], "gather", m)
    BY <2>1, <2>2, <2>4 DEF Quiet, Same, Late, Saving, Whole, Counted
  <2>. QED
    BY <2>1, <2>5, QuietAlone
<1>. QED
  BY <1>1, <1>2, <1>3, <1>4, <1>5, <1>6, <1>7, <1>8 DEF Alone

-----------------------------------------------------------------------------
(***************************************************************************)
(* Collective calls.                                                       *)
(***************************************************************************)
\* A call from which all ranks go on with the models they had.
LEMMA QuietCall ==
  ASSUME IInv, ReplicaInv, NEW label, Meet(label), NEW next, AllGo(next),
         UNCHANGED <<job, resuming, torn, files>>,
         \A r \in Ranks : /\ mem'[r].model = mem[r].model
                          /\ mem'[r].epoch = mem[r].epoch /\ mem'[r].ok = mem[r].ok,
         \/ label \in Early /\ next \in Early
         \/ label \in Late \ (Saving \cup {"head"}) /\ next \in Late \ (Saving \cup {"head"})
  PROVE  ReplicaInv'
<1>1. job = "running" /\ \A r \in Ranks : pc[r] = label /\ pc'[r] = next
  BY DEF Meet, AllGo
<1>2. \A r \in Ranks : Quiet(pc[r], mem[r], pc'[r], mem'[r])
  BY <1>1 DEF Quiet, Same
<1>. QED
  BY <1>1, <1>2, QuietReplicas

\* All ranks make the step of the optimizer.
LEMMA SyncKeeps ==
  ASSUME NEW m, NEW f, NEW p, Replicated(p, m, f), \A r \in Ranks : p[r] = "sync",
         NEW q, NEW n,
         \A r \in Ranks : q[r] = IF options.optimizer = "muon" THEN "head" ELSE "loss",
         \A r \in Ranks : /\ n[r].model = Updated(m[r].model, m[r].batch, GlobalOf(m))
                          /\ n[r].epoch = m[r].epoch /\ n[r].ok = m[r].ok
                          /\ n[r].batch = m[r].batch
  PROVE  Replicated(q, n, f)
<1>. DEFINE global == GlobalOf(m)
<1>1. GlobalOf(n) = global
  <2>1. {n[r].batch : r \in Ranks} = {m[r].batch : r \in Ranks}
    OBVIOUS
  <2>. QED
    BY <2>1 DEF GlobalOf
<1>. HIDE DEF global
<1>2. ASSUME NEW r \in Ranks
      PROVE  /\ Whole(m[r].model) /\ m[r].epoch \in Nat
             /\ n[r].model.replica = Append(m[r].model.replica, global)
             /\ options.optimizer = "muon" => /\ Pending(n[r].model, global)
                                              /\ n[r].model.head = m[r].model.head
             /\ options.optimizer # "muon" => Whole(n[r].model)
  <2>1. Whole(m[r].model) /\ m[r].epoch \in Nat
    BY DEF Replicated, Holds, Late
  <2>. DEFINE x == m[r].model
              y == Updated(x, m[r].batch, global)
  <2>2. n[r].model = y
    BY DEF global
  <2>3. /\ y.replica = Append(x.replica, global)
        /\ options.optimizer = "muon" => Pending(y, global) /\ y.head = x.head
        /\ options.optimizer # "muon" => Whole(y)
    <3>1. Whole(x)
      BY <2>1
    <3>. HIDE DEF x
    <3>. QED
      BY <3>1, StepOfModel
  <2>. QED
    BY <2>1, <2>2, <2>3
<1>3. \A r \in Ranks : Holds(q[r], n[r], f[r], GlobalOf(n))
  BY <1>1, <1>2 DEF Holds, Early, Late, Saving
<1>4. ASSUME NEW r \in Ranks, NEW s \in Ranks PROVE Alike(n[r].model, n[s].model)
  <2>1. Alike(m[r].model, m[s].model)
    BY DEF Replicated, Late
  <2>2. Counted(n[r].model) /\ Counted(n[s].model)
    BY <1>2 DEF Pending, Whole
  <2>3. n[r].model.replica = n[s].model.replica
    BY <1>2, <2>1 DEF Alike
  <2>4. n[r].model.head = n[s].model.head
    BY <1>2, <2>1, <2>3 DEF Alike, Whole
  <2>. QED
    BY <2>2, <2>3, <2>4 DEF Alike, Counted
<1>5. ASSUME NEW r \in Ranks, NEW s \in Ranks, f[s] # Nothing PROVE Follows(f[s], q[r], n[r])
  <2>1. Follows(f[s], p[r], m[r]) /\ FileOK(f[s])
    BY <1>5 DEF Replicated, Late
  <2>. DEFINE a == f[s].model.replica
              b == m[r].model.replica
  <2>0. IsSeq(a) /\ IsSeq(b) /\ Begins(a, b) /\ n[r].model.replica = Append(b, global)
    BY <1>2, <2>1 DEF Follows, FileOK, Whole, Counted
  <2>. HIDE DEF a, b
  <2>2. Begins(a, n[r].model.replica)
    BY <2>0, BeginsFacts
  <2>3. IsOld(f[s], n[r])
    BY <2>1 DEF Follows, IsOld, Saving
  <2>. QED
    BY <2>2, <2>3 DEF Follows, a
<1>. QED
  BY <1>3, <1>4, <1>5 DEF Replicated

\* The owner of a matrix gives it to all.
WithHeads(x, m) ==
    [x EXCEPT !.head =
        [side \in Sides |-> Append(m[BroadcastRoot(side)].model.head[side], GlobalOf(m))]]

LEMMA BroadcastKeeps ==
  ASSUME NEW m, NEW f, NEW p, Replicated(p, m, f), \A r \in Ranks : p[r] = "head",
         NEW q, NEW n, \A r \in Ranks : q[r] = "loss",
         \A r \in Ranks :
             /\ n[r].model = WithHeads(m[r].model, m)
             /\ n[r].epoch = m[r].epoch /\ n[r].ok = m[r].ok
  PROVE  Replicated(q, n, f)
<1>. DEFINE global == GlobalOf(m)
<1>. HIDE DEF global
<1>1. \A side \in Sides : BroadcastRoot(side) \in Ranks
  BY NumRanksAssumption DEF BroadcastRoot, Ranks, Sides
<1>2. ASSUME NEW r \in Ranks
      PROVE  /\ Pending(m[r].model, global) /\ m[r].epoch \in Nat
             /\ \A side \in Sides : Append(m[r].model.head[side], global) = m[r].model.replica
  <2>1. Pending(m[r].model, global) /\ m[r].epoch \in Nat
    BY DEF Replicated, Holds, Late, global
  <2>2. PICK h : m[r].model.replica = Append(h, global) /\ m[r].model.head = [side \in Sides |-> h]
    BY <2>1 DEF Pending
  <2>3. \A side \in Sides : m[r].model.head[side] = h
    BY <2>2
  <2>. QED
    BY <2>1, <2>2, <2>3
<1>3. \A r, s \in Ranks : Alike(m[r].model, m[s].model)
  BY DEF Replicated, Late
<1>4. ASSUME NEW r \in Ranks
      PROVE  /\ Whole(n[r].model) /\ n[r].model.number = m[r].model.number
             /\ n[r].model.replica = m[r].model.replica
             /\ n[r].model.head = [side \in Sides |-> m[r].model.replica]
  <2>. DEFINE x == m[r].model
              h == [side \in Sides |-> Append(m[BroadcastRoot(side)].model.head[side], global)]
              y == [x EXCEPT !.head = h]
  <2>1. h = [side \in Sides |-> x.replica]
    <3>1. ASSUME NEW side \in Sides
          PROVE  Append(m[BroadcastRoot(side)].model.head[side], global) = x.replica
      <4>1. BroadcastRoot(side) \in Ranks
        BY <1>1
      <4>. DEFINE root == BroadcastRoot(side)
      <4>. HIDE DEF root
      <4>2. Append(m[root].model.head[side], global) = m[root].model.replica
        BY <1>2, <4>1 DEF root
      <4>3. m[root].model.replica = m[r].model.replica
        BY <1>3, <4>1 DEF Alike, root
      <4>. QED
        BY <4>2, <4>3 DEF root
    <3>. QED
      BY <3>1
  <2>2. Counted(x)
    BY <1>2 DEF Pending
  <2>. HIDE DEF x, h
  <2>3. DOMAIN y = DOMAIN x /\ y.number = x.number /\ y.replica = x.replica /\ y.head = h
    BY <2>2 DEF Counted, ModelFields
  <2>4. n[r].model = y
    BY DEF x, h, global, WithHeads
  <2>. HIDE DEF y
  <2>5. Whole(y)
    BY <2>1, <2>2, <2>3 DEF Whole, Counted
  <2>. QED
    BY <2>1, <2>3, <2>4, <2>5 DEF x
<1>5. \A r \in Ranks : Holds(q[r], n[r], f[r], GlobalOf(n))
  BY <1>2, <1>4 DEF Holds, Early, Late, Saving
<1>6. \A r, s \in Ranks : Alike(n[r].model, n[s].model)
  BY <1>3, <1>4 DEF Alike
<1>7. \A r, s \in Ranks : f[s] # Nothing => Follows(f[s], q[r], n[r])
  BY <1>4 DEF Replicated, Late, Saving, Follows, IsOld
<1>. QED
  BY <1>5, <1>6, <1>7 DEF Replicated

\* An epoch ends, and a checkpoint may be due.
LEMMA ReportKeeps ==
  ASSUME NEW m, NEW f, NEW p, Replicated(p, m, f), \A r \in Ranks : p[r] = "report",
         NEW q, NEW n,
         \A r \in Ranks :
             /\ q[r] = IF Due(m[r].epoch) THEN "save" ELSE "epoch"
             /\ n[r].epoch = IF Due(m[r].epoch) THEN m[r].epoch ELSE m[r].epoch + 1
             /\ n[r].model = m[r].model
  PROVE  Replicated(q, n, f)
<1>1. \A r \in Ranks : Whole(m[r].model) /\ m[r].epoch \in Nat
  BY DEF Replicated, Holds, Late
<1>2. \A r \in Ranks : Holds(q[r], n[r], f[r], GlobalOf(n))
  BY <1>1 DEF Holds, Early, Late, Saving, Due
<1>3. ASSUME NEW r \in Ranks, NEW s \in Ranks, f[s] # Nothing PROVE Follows(f[s], q[r], n[r])
  <2>1. Follows(f[s], p[r], m[r]) /\ FileOK(f[s])
    BY <1>3 DEF Replicated, Late
  <2>2. Begins(f[s].model.replica, n[r].model.replica) /\ IsOld(f[s], m[r])
    BY <2>1 DEF Follows, Saving
  <2>3. IsOld(f[s], n[r])
    <3>1. CASE Due(m[r].epoch)
      BY <2>2, <3>1 DEF IsOld
    <3>2. CASE ~Due(m[r].epoch)
      <4>1. /\ CheckpointEpochs > 0 /\ f[s].epoch \in Nat /\ f[s].epoch % CheckpointEpochs = 0
            /\ m[r].epoch \in Nat /\ m[r].epoch < f[s].epoch + CheckpointEpochs
            /\ f[s].epoch <= m[r].epoch
        BY <1>1, <2>1, <2>2 DEF FileOK, IsOld
      <4>2. (m[r].epoch + 1) % CheckpointEpochs # 0
        BY <3>2, <4>1 DEF Due
      <4>3. m[r].epoch + 1 < f[s].epoch + CheckpointEpochs
        BY <4>1, <4>2, NextMultiple
      <4>. QED
        BY <3>2, <4>1, <4>3 DEF IsOld
    <3>. QED
      BY <3>1, <3>2
  <2>. QED
    BY <2>2, <2>3 DEF Follows
<1>4. \A r, s \in Ranks : Alike(n[r].model, n[s].model)
  BY DEF Replicated, Late
<1>5. \A r \in Ranks : q[r] # "saved"
  OBVIOUS
<1>. QED
  BY <1>2, <1>3, <1>4, <1>5 DEF Replicated

\* All files have been written: they are of the epoch that has just ended.
LEMMA SavedKeeps ==
  ASSUME NEW m, NEW f, NEW p, Replicated(p, m, f), \A r \in Ranks : p[r] = "saved" /\ m[r].ok,
         \A r, s \in Ranks : m[r].epoch = m[s].epoch,
         NEW q, NEW n,
         \A r \in Ranks : q[r] = "epoch" /\ n[r].epoch = m[r].epoch + 1 /\ n[r].model = m[r].model
  PROVE  Replicated(q, n, f)
<1>1. \A r \in Ranks : Whole(m[r].model) /\ m[r].epoch \in Nat /\ CheckpointEpochs > 0
  BY DEF Replicated, Holds, Late, Saving
<1>2. \A r \in Ranks : Holds(q[r], n[r], f[r], GlobalOf(n))
  BY <1>1 DEF Holds, Early, Late, Saving
<1>3. ASSUME NEW r \in Ranks, NEW s \in Ranks, f[s] # Nothing PROVE Follows(f[s], q[r], n[r])
  <2>1. Follows(f[s], p[r], m[r])
    BY <1>3 DEF Replicated, Late
  <2>2. IsNew(f[s], m[s]) /\ m[s].epoch = m[r].epoch
    BY DEF Replicated
  <2>3. IsOld(f[s], n[r])
    BY <1>1, <2>2, CheckpointAssumption DEF IsNew, IsOld, CheckpointAssumption
  <2>. QED
    BY <2>1, <2>3 DEF Follows
<1>4. \A r, s \in Ranks : Alike(n[r].model, n[s].model)
  BY DEF Replicated, Late
<1>. QED
  BY <1>2, <1>3, <1>4 DEF Replicated

\* All files have been read, and are of one epoch.
LEMMA LoadedKeeps ==
  ASSUME NEW m, NEW f, NEW p, Replicated(p, m, f), \A r \in Ranks : p[r] = "agree" /\ m[r].ok,
         \A r, s \in Ranks : m[r].epoch = m[s].epoch,
         NEW q, \A r \in Ranks : q[r] = "epoch"
  PROVE  Replicated(q, m, f)
<1>1. ASSUME NEW r \in Ranks
      PROVE  /\ f[r] # Nothing /\ FileOK(f[r])
             /\ m[r].epoch = f[r].epoch /\ m[r].model = f[r].model
  <2>1. Holds("agree", m[r], f[r], GlobalOf(m)) /\ m[r].ok
    BY DEF Replicated
  <2>2. f[r] # Nothing
    BY <2>1 DEF Holds
  <2>. QED
    BY <2>1, <2>2 DEF Holds, Replicated
<1>2. \A r \in Ranks : Whole(m[r].model) /\ m[r].epoch \in Nat
  BY <1>1 DEF FileOK
<1>3. \A r \in Ranks : Holds(q[r], m[r], f[r], GlobalOf(m))
  BY <1>2 DEF Holds, Early, Late, Saving
<1>4. ASSUME NEW r \in Ranks, NEW s \in Ranks
      PROVE  m[r].model.replica = m[s].model.replica
  <2>1. FitTogether(f[r], f[s])
    BY <1>1 DEF Replicated
  <2>2. f[r].epoch = f[s].epoch /\ f[r].model = m[r].model /\ f[s].model = m[s].model
    BY <1>1
  <2>. QED
    BY <2>1, <2>2 DEF FitTogether
<1>5. \A r, s \in Ranks : Alike(m[r].model, m[s].model)
  BY <1>2, <1>4 DEF Alike, Whole, Counted
<1>6. ASSUME NEW r \in Ranks, NEW s \in Ranks PROVE Follows(f[s], q[r], m[r])
  <2>1. f[s].model.replica = m[r].model.replica /\ IsSeq(m[r].model.replica)
    BY <1>1, <1>2, <1>4 DEF Whole, Counted
  <2>2. Begins(f[s].model.replica, m[r].model.replica)
    BY <2>1, BeginsFacts
  <2>3. f[s].epoch = m[r].epoch /\ m[r].epoch \in Nat /\ CheckpointEpochs > 0
    BY <1>1, <1>2 DEF FileOK
  <2>4. IsOld(f[s], m[r])
    BY <2>3, CheckpointAssumption DEF IsOld, CheckpointAssumption
  <2>. QED
    BY <2>2, <2>4 DEF Follows
<1>. QED
  BY <1>3, <1>5, <1>6 DEF Replicated

LEMMA TogetherReplicas ==
  ASSUME IInv, ReplicaInv, Together
  PROVE  ReplicaInv'
<1>0. /\ DOMAIN pc = Ranks /\ DOMAIN mem = Ranks /\ DOMAIN files = Ranks
      /\ \A r \in Ranks : Fields \subseteq DOMAIN mem[r]
  BY DEF IInv, MemoryInv, ReplicaInv
<1>00. ASSUME NEW message, AbortMpi(message) PROVE ReplicaInv'
  BY <1>00, OverReplicas DEF AbortMpi, disk, history
<1>000. 0 \in Ranks
  BY NumRanksAssumption DEF Ranks
<1>1. CASE Census
  <2>1. CASE AbortMpi("training set is empty")
    BY <2>1, <1>00
  <2>2. CASE AllGo("rounds") /\ UNCHANGED <<mem, job, why, disk, history>>
    BY <1>1, <2>2, QuietCall DEF Census, disk, history, Early
  <2>. QED
    BY <1>1, <2>1, <2>2 DEF Census
<1>2. CASE AgreeRounds
  <2>1. \A r \in Ranks : /\ mem'[r].model = mem[r].model
                         /\ mem'[r].epoch = mem[r].epoch /\ mem'[r].ok = mem[r].ok
    BY <1>0, <1>2 DEF AgreeRounds, Fields
  <2>. QED
    BY <1>2, <2>1, QuietCall DEF AgreeRounds, Local, disk, history, Early
<1>3. CASE RouteRound
  <2>1. \A r \in Ranks : /\ mem'[r].model = mem[r].model
                         /\ mem'[r].epoch = mem[r].epoch /\ mem'[r].ok = mem[r].ok
    BY <1>0, <1>3 DEF RouteRound, Fields
  <2>2. CASE AllGo("tally")
    BY <1>3, <2>1, <2>2, QuietCall DEF RouteRound, Local, disk, history, Early
  <2>3. CASE AllGo("route")
    BY <1>3, <2>1, <2>3, QuietCall DEF RouteRound, Local, disk, history, Early
  <2>. QED
    BY <1>3, <2>2, <2>3 DEF RouteRound
<1>4. CASE Tally
  <2>1. CASE AbortMpi("routed record count mismatch")
    BY <2>1, <1>00
  <2>2. CASE AllGo("load") /\ UNCHANGED mem /\ Local
    BY <1>4, <2>2, QuietCall DEF Tally, Local, disk, history, Early
  <2>. QED
    BY <1>4, <2>1, <2>2 DEF Tally
<1>5. CASE AgreeLoaded
  <2>1. CASE AbortMpi("cannot resume checkpoint")
    BY <2>1, <1>00
  <2>2. CASE ~ \E r \in Ranks : ~mem[r].ok \/ mem[r].epoch > Epochs
    <3>1. /\ Meet("agree") /\ AllGo("epoch") /\ UNCHANGED <<mem, job, resuming, files>>
          /\ torn' = (torn \/ \E r \in Ranks : mem[r].epoch # mem[0].epoch)
      BY <1>5, <2>2 DEF AgreeLoaded, disk
    <3>2. job = "running" /\ \A r \in Ranks : pc[r] = "agree" /\ pc'[r] = "epoch" /\ mem[r].ok
      BY <2>2, <3>1 DEF Meet, AllGo
    <3>3. ASSUME ~torn'
          PROVE  ~torn /\ Replicated(pc', mem', files') /\ FreshStart(pc', mem', files')
      <4>1. ~torn /\ \A r, s \in Ranks : mem[r].epoch = mem[s].epoch
        BY <3>1, <3>3, <1>000
      <4>2. Replicated(pc, mem, files)
        BY <4>1 DEF ReplicaInv
      <4>. DEFINE q == pc'
      <4>3. \A r \in Ranks : q[r] = "epoch"
        BY <3>2
      <4>. HIDE DEF q
      <4>4. Replicated(q, mem, files)
        BY <3>2, <4>1, <4>2, <4>3, LoadedKeeps
      <4>5. FreshStart(q, mem, files)
        BY <4>3 DEF FreshStart, Early
      <4>. QED
        BY <3>1, <4>1, <4>4, <4>5 DEF q
    <3>. QED
      BY <1>0, <3>1, <3>2, <3>3, RunningReplicas
  <2>. QED
    BY <1>5, <2>1, <2>2 DEF AgreeLoaded
<1>6. CASE Size
  <2>1. CASE AllGo("sync") /\ UNCHANGED mem
    BY <1>6, <2>1, QuietCall DEF Size, Local, disk, history, Late, Saving
  <2>2. CASE /\ mem' = [r \in Ranks |-> [mem[r] EXCEPT !.step = AfterEmptyStep(r)]]
             /\ AllGo("fill")
    <3>1. \A r \in Ranks : /\ mem'[r].model = mem[r].model
                           /\ mem'[r].epoch = mem[r].epoch /\ mem'[r].ok = mem[r].ok
      BY <1>0, <2>2 DEF Fields
    <3>. QED
      BY <1>6, <2>2, <3>1, QuietCall DEF Size, Local, disk, history, Late, Saving
  <2>. QED
    BY <1>6, <2>1, <2>2 DEF Size
<1>7. CASE Sync
  <2>1. /\ Meet("sync") /\ UNCHANGED <<job, resuming, torn, files>>
        /\ AllGo(IF options.optimizer = "muon" THEN "head" ELSE "loss")
        /\ mem' = [r \in Ranks |-> [mem[r] EXCEPT !.model = Updated(mem[r].model, mem[r].batch, Global)]]
    BY <1>0, <1>7 DEF Sync, Local, disk, history
  <2>2. job = "running" /\ \A r \in Ranks : pc[r] = "sync"
    BY <2>1 DEF Meet
  <2>3. \A r \in Ranks : /\ mem'[r].model = Updated(mem[r].model, mem[r].batch, GlobalOf(mem))
                         /\ mem'[r].epoch = mem[r].epoch /\ mem'[r].ok = mem[r].ok
                         /\ mem'[r].batch = mem[r].batch
    BY <1>0, <2>1 DEF Fields, Global, GlobalOf
  <2>. DEFINE q == pc'
              n == mem'
  <2>4. \A r \in Ranks : q[r] = IF options.optimizer = "muon" THEN "head" ELSE "loss"
    BY <2>1 DEF AllGo
  <2>5. ASSUME ~torn PROVE Replicated(q, n, files) /\ FreshStart(q, n, files)
    <3>1. Replicated(pc, mem, files)
      BY <2>5 DEF ReplicaInv
    <3>2. \A r \in Ranks : /\ n[r].model = Updated(mem[r].model, mem[r].batch, GlobalOf(mem))
                           /\ n[r].epoch = mem[r].epoch /\ n[r].ok = mem[r].ok
                           /\ n[r].batch = mem[r].batch
      BY <2>3
    <3>. HIDE DEF q, n
    <3>. QED
      BY <2>2, <2>4, <3>1, <3>2, SyncKeeps DEF FreshStart, Early
  <2>. QED
    BY <1>0, <2>1, <2>2, <2>5, RunningReplicas
<1>8. CASE Broadcast
  <2>1. /\ Meet("head") /\ UNCHANGED <<job, resuming, torn, files>> /\ AllGo("loss")
        /\ mem' = [r \in Ranks |->
              [mem[r] EXCEPT !.model = [mem[r].model EXCEPT !.head =
                  [side \in Sides |-> HeadOf(BroadcastRoot(side), side)]]]]
    BY <1>0, <1>8 DEF Broadcast, Local, disk, history
  <2>2. job = "running" /\ \A r \in Ranks : pc[r] = "head"
    BY <2>1 DEF Meet
  <2>3. \A side \in Sides : HeadOf(BroadcastRoot(side), side)
                                = Append(mem[BroadcastRoot(side)].model.head[side], GlobalOf(mem))
    BY DEF HeadOf, MatrixOwner, BroadcastRoot, Global, GlobalOf
  <2>. DEFINE q == pc'
              n == mem'
  <2>4. \A r \in Ranks : q[r] = "loss"
    BY <2>1 DEF AllGo
  <2>5. \A r \in Ranks :
          /\ n[r].model = WithHeads(mem[r].model, mem)
          /\ n[r].epoch = mem[r].epoch /\ n[r].ok = mem[r].ok
    BY <1>0, <2>1, <2>3 DEF Fields, WithHeads
  <2>6. ASSUME ~torn PROVE Replicated(q, n, files) /\ FreshStart(q, n, files)
    <3>1. Replicated(pc, mem, files)
      BY <2>6 DEF ReplicaInv
    <3>. HIDE DEF q, n
    <3>2. Replicated(q, n, files)
      BY <2>2, <2>4, <2>5, <3>1, BroadcastKeeps
    <3>. QED
      BY <2>4, <3>2 DEF FreshStart, Early
  <2>. QED
    BY <1>0, <2>1, <2>2, <2>6, RunningReplicas
<1>9. CASE Loss
  <2>1. \A r \in Ranks : /\ mem'[r].model = mem[r].model
                         /\ mem'[r].epoch = mem[r].epoch /\ mem'[r].ok = mem[r].ok
    BY <1>0, <1>9 DEF Loss, Fields
  <2>2. Meet("loss") /\ AllGo("fill") /\ UNCHANGED <<job, resuming, torn, files>>
    BY <1>9 DEF Loss, Local, disk, history
  <2>3. {"loss", "fill"} \subseteq Late \ (Saving \cup {"head"})
    BY DEF Late, Saving
  <2>. QED
    BY <2>1, <2>2, <2>3, QuietCall
<1>10. CASE Report
  <2>1. /\ Meet("report") /\ UNCHANGED <<job, resuming, torn, files>>
        /\ pc' = [r \in Ranks |-> IF Due(mem[r].epoch) THEN "save" ELSE "epoch"]
        /\ mem' = [r \in Ranks |-> [mem[r] EXCEPT !.epoch = IF Due(@) THEN @ ELSE @ + 1]]
    BY <1>10 DEF Report, Local, disk, history
  <2>2. job = "running" /\ \A r \in Ranks : pc[r] = "report"
    BY <2>1 DEF Meet
  <2>. DEFINE q == pc'
              n == mem'
  <2>3. \A r \in Ranks :
          /\ q[r] = IF Due(mem[r].epoch) THEN "save" ELSE "epoch"
          /\ n[r].epoch = IF Due(mem[r].epoch) THEN mem[r].epoch ELSE mem[r].epoch + 1
          /\ n[r].model = mem[r].model
    BY <1>0, <2>1 DEF Fields
  <2>4. ASSUME ~torn PROVE Replicated(q, n, files) /\ FreshStart(q, n, files)
    <3>1. Replicated(pc, mem, files)
      BY <2>4 DEF ReplicaInv
    <3>. HIDE DEF q, n
    <3>2. Replicated(q, n, files)
      BY <2>2, <2>3, <3>1, ReportKeeps
    <3>. QED
      BY <2>3, <3>2 DEF FreshStart, Early
  <2>. QED
    BY <1>0, <2>1, <2>2, <2>4, RunningReplicas
<1>11. CASE AgreeSaved
  <2>1. CASE AbortMpi("cannot write checkpoint")
    BY <2>1, <1>00
  <2>2. CASE ~ \E r \in Ranks : ~mem[r].ok
    <3>1. /\ Meet("saved") /\ AllGo("epoch") /\ UNCHANGED <<job, resuming, torn, files>>
          /\ mem' = [r \in Ranks |-> [mem[r] EXCEPT !.epoch = @ + 1]]
      BY <1>11, <2>2 DEF AgreeSaved, Local, disk, history
    <3>2. job = "running" /\ \A r \in Ranks : pc[r] = "saved" /\ mem[r].ok
      BY <2>2, <3>1 DEF Meet
    <3>. DEFINE q == pc'
                n == mem'
    <3>3. \A r \in Ranks : /\ q[r] = "epoch" /\ n[r].epoch = mem[r].epoch + 1
                           /\ n[r].model = mem[r].model
      BY <1>0, <3>1 DEF AllGo, Fields
    <3>4. ASSUME ~torn PROVE Replicated(q, n, files) /\ FreshStart(q, n, files)
      <4>1. Replicated(pc, mem, files)
        BY <3>4 DEF ReplicaInv
      <4>2. \A r, s \in Ranks : mem[r].epoch = mem[s].epoch
        BY <3>1, <3>4, MeetAbreast DEF Calls
      <4>. HIDE DEF q, n
      <4>3. Replicated(q, n, files)
        BY <3>2, <3>3, <4>1, <4>2, SavedKeeps
      <4>. QED
        BY <3>3, <4>3 DEF FreshStart, Early
    <3>. QED
      BY <1>0, <3>1, <3>2, <3>4, RunningReplicas
  <2>. QED
    BY <1>11, <2>1, <2>2 DEF AgreeSaved
<1>12. CASE GatherAndSave
  BY <1>12, OverReplicas DEF GatherAndSave, history
<1>13. CASE Mismatch
  BY <1>13, OverReplicas DEF Mismatch, disk, history
<1>. QED
  BY <1>1, <1>2, <1>3, <1>4, <1>5, <1>6, <1>7, <1>8, <1>9, <1>10, <1>11, <1>12, <1>13
  DEF Together

LEMMA OtherReplicas ==
  ASSUME IInv, ReplicaInv, SaveFails \/ Crash \/ Restart \/ UNCHANGED vars
  PROVE  ReplicaInv'
<1>1. CASE SaveFails
  BY <1>1, OverReplicas DEF SaveFails, disk
<1>2. CASE Crash
  BY <1>2, OverReplicas DEF Crash, disk
<1>3. CASE Restart
  <2>1. /\ job # "running" /\ job' = "running" /\ torn' = torn /\ mem' = mem
        /\ pc' = [r \in Ranks |-> "count"]
        /\ files' = [r \in Ranks |-> IF why = "cannot resume checkpoint" THEN Nothing ELSE files[r]]
        /\ resuming' = \E r \in Ranks : files'[r] # Nothing
    BY <1>3 DEF Restart, IInv, MemoryInv, WriteErrors
  <2>. DEFINE q == pc'
              g == files'
  <2>2. \A r \in Ranks : q[r] = "count" /\ pc[r] = "off" /\ (g[r] = files[r] \/ g[r] = Nothing)
    BY <2>1 DEF ReplicaInv
  <2>3. ~resuming' => \A r \in Ranks : g[r] = Nothing
    BY <2>1
  <2>. HIDE DEF q, g
  <2>4. ASSUME ~torn PROVE Replicated(q, mem, g)
    <3>1. Replicated(pc, mem, files)
      BY <2>4 DEF ReplicaInv
    <3>2. \A r \in Ranks : Holds(q[r], mem[r], g[r], GlobalOf(mem))
      BY <2>2, <3>1 DEF Replicated, Holds, Early, Late, Saving
    <3>3. \A r \in Ranks : g[r] # Nothing => FileOK(g[r])
      BY <2>2, <3>1 DEF Replicated
    <3>4. \A r, s \in Ranks : g[r] # Nothing /\ g[s] # Nothing => FitTogether(g[r], g[s])
      BY <2>2, <3>1 DEF Replicated
    <3>. QED
      BY <2>2, <3>2, <3>3, <3>4 DEF Replicated, Late
  <2>5. ~resuming' => FreshStart(q, mem, g)
    BY <2>2, <2>3 DEF FreshStart, Late
  <2>6. ~torn' => Replicated(pc', mem', files')
    BY <2>1, <2>4 DEF q, g
  <2>7. ~resuming' => FreshStart(pc', mem', files')
    BY <2>1, <2>5 DEF q, g
  <2>. QED
    BY <2>1, <2>6, <2>7
    DEF ReplicaInv, Replicated, FreshStart, Holds, FileOK, FitTogether, Follows, IsNew, IsOld, GlobalOf
<1>4. CASE UNCHANGED vars
  <2>1. UNCHANGED <<pc, mem, files, job, torn, resuming>>
    BY <1>4 DEF vars, disk, history
  <2>2. ~torn' => Replicated(pc', mem', files')
    BY <2>1 DEF ReplicaInv
  <2>3. ~torn' /\ job' = "running" /\ ~resuming' => FreshStart(pc', mem', files')
    BY <2>1 DEF ReplicaInv
  <2>. QED
    BY <2>1, <2>2, <2>3
    DEF ReplicaInv, Replicated, FreshStart, Holds, FileOK, FitTogether, Follows, IsNew, IsOld, GlobalOf
<1>. QED
  BY <1>1, <1>2, <1>3, <1>4

LEMMA InitReplicas == Init => ReplicaInv
<1>. SUFFICES ASSUME Init PROVE ReplicaInv
  OBVIOUS
<1>1. \A r \in Ranks : /\ pc[r] = "count" /\ files[r] = Nothing /\ mem[r].model = Nothing
                       /\ mem[r].epoch = 0 /\ mem[r].ok = TRUE
  BY DEF Init, FreshMemory
<1>2. \A r \in Ranks : Holds(pc[r], mem[r], files[r], GlobalOf(mem))
  BY <1>1 DEF Holds, Early, Late, Saving
<1>3. Replicated(pc, mem, files)
  BY <1>1, <1>2 DEF Replicated, Late
<1>4. FreshStart(pc, mem, files)
  BY <1>1 DEF FreshStart, Late
<1>. QED
  BY <1>3, <1>4 DEF Init, ReplicaInv

LEMMA ReplicasKeep == IInv /\ ReplicaInv /\ [Next]_vars => ReplicaInv'
BY AloneReplicas, TogetherReplicas, OtherReplicas DEF Next

LEMMA AgreementFollows == IInv /\ ReplicaInv => ReplicasAgree
<1>. SUFFICES ASSUME IInv, ReplicaInv, ~torn, NEW r \in Ranks, NEW s \in Ranks,
                     mem[r].model # Nothing, mem[s].model # Nothing, pc[r] # "head"
              PROVE  LET m == mem[r].model
                         n == mem[s].model
                     IN  /\ m.number = n.number => m.replica = n.replica /\ m.head = n.head
                         /\ Len(m.replica) = m.number
                         /\ \A side \in Sides : m.head[side] = m.replica
  BY DEF ReplicasAgree
<1>1. Replicated(pc, mem, files)
  BY DEF ReplicaInv
<1>2. \A t \in Ranks : Holds(pc[t], mem[t], files[t], GlobalOf(mem))
  BY <1>1 DEF Replicated
<1>3. job = "running"
  <2>. SUFFICES ASSUME job # "running" PROVE FALSE
    OBVIOUS
  <2>1. pc[r] = "off"
    BY DEF ReplicaInv
  <2>. QED
    BY <1>2, <2>1 DEF Holds, Early
<1>4. pc[r] \in Late \cup {"agree"} /\ pc[s] \in Late \cup {"agree"} /\ pc[s] # "head"
  BY <1>2, <1>3, Standing DEF Holds
<1>5. ASSUME NEW t \in Ranks, pc[t] = "agree", mem[t].model # Nothing
      PROVE  files[t] # Nothing /\ FileOK(files[t]) /\ mem[t].model = files[t].model
  BY <1>1, <1>2, <1>5 DEF Holds, Replicated
<1>6. Whole(mem[r].model) /\ Whole(mem[s].model)
  BY <1>2, <1>4, <1>5 DEF Holds, FileOK
<1>7. mem[r].model.number = mem[s].model.number => mem[r].model.replica = mem[s].model.replica
  <2>1. CASE pc[r] \in Late /\ pc[s] \in Late
    BY <1>1, <2>1 DEF Replicated, Alike
  <2>2. CASE pc[r] = "agree" /\ pc[s] = "agree"
    <3>. DEFINE a == mem[r].model.replica
                b == mem[s].model.replica
    <3>1. Begins(a, b) \/ Begins(b, a)
      BY <1>1, <1>5, <2>2 DEF Replicated, FitTogether
    <3>2. IsSeq(a) /\ IsSeq(b) /\ mem[r].model.number = Len(a) /\ mem[s].model.number = Len(b)
      BY <1>6 DEF Whole, Counted
    <3>. HIDE DEF a, b
    <3>3. Len(a) = Len(b) => a = b
      BY <3>1, <3>2, BeginsFacts
    <3>. QED
      BY <3>2, <3>3 DEF a, b
  <2>. QED
    BY <1>3, <1>4, <2>1, <2>2, Standing
<1>. QED
  BY <1>6, <1>7 DEF Whole, Counted

\* For any number of ranks, any data and any crashes: ranks that have made the
\* same number of steps hold the same parameters, and have seen every batch,
\* unless a job has resumed from files of different epochs.
THEOREM ReplicasAlwaysAgree == Spec => []ReplicasAgree
BY InitHolds, NextKeeps, InitReplicas, ReplicasKeep, AgreementFollows, PTL DEF Spec

-----------------------------------------------------------------------------
(*****************************************************************************)
(* Lists of records: sequences that hold each member of a set once.          *)
(*****************************************************************************)
\* A sequence that lists every member of a set once.
Lists(s, S) ==
    /\ s \in Seq(S)
    /\ \A x \in S : \E i \in 1 .. Len(s) : s[i] = x
    /\ \A i, j \in 1 .. Len(s) : s[i] = s[j] => i = j

\* The empty list lists nothing.
LEMMA ListsNothing == Lists(<<>>, {})
<1>1. <<>> \in Seq({}) /\ Len(<<>>) = 0
  BY EmptySeq
<1>. DEFINE e == <<>>
<1>. HIDE DEF e
<1>. QED
  BY <1>1 DEF Lists

\* Lists of two disjoint sets, joined, list both.
LEMMA ListsConcat ==
  ASSUME NEW S, NEW T, NEW s, NEW t, Lists(s, S), Lists(t, T), S \cap T = {}
  PROVE  Lists(s \o t, S \cup T)
<1>1. s \in Seq(S \cup T) /\ t \in Seq(S \cup T) /\ Len(s) \in Nat /\ Len(t) \in Nat
  BY SeqMonotonic, LenProperties DEF Lists
<1>. DEFINE u == s \o t
<1>2. /\ u \in Seq(S \cup T) /\ Len(u) = Len(s) + Len(t)
      /\ \A i \in 1 .. Len(s) + Len(t) : u[i] = IF i <= Len(s) THEN s[i] ELSE t[i - Len(s)]
  BY <1>1, ConcatProperties
<1>. HIDE DEF u
<1>3. ASSUME NEW x \in S \cup T PROVE \E i \in 1 .. Len(u) : u[i] = x
  <2>1. CASE x \in S
    <3>1. PICK i \in 1 .. Len(s) : s[i] = x
      BY <2>1 DEF Lists
    <3>. QED
      BY <1>1, <1>2, <3>1
  <2>2. CASE x \in T
    <3>1. PICK i \in 1 .. Len(t) : t[i] = x
      BY <2>2 DEF Lists
    <3>2. i + Len(s) \in 1 .. Len(u) /\ ~(i + Len(s) <= Len(s)) /\ (i + Len(s)) - Len(s) = i
      BY <1>1, <1>2
    <3>. QED
      BY <1>1, <1>2, <3>1, <3>2
  <2>. QED
    BY <2>1, <2>2
<1>4. \A i \in 1 .. Len(s) : s[i] \in S
  BY ElementOfSeq DEF Lists
<1>5. \A i \in 1 .. Len(t) : t[i] \in T
  BY ElementOfSeq DEF Lists
<1>6. ASSUME NEW i \in 1 .. Len(u), NEW j \in 1 .. Len(u), u[i] = u[j] PROVE i = j
  <2>1. CASE i <= Len(s) /\ j <= Len(s)
    <3>1. i \in 1 .. Len(s) /\ j \in 1 .. Len(s) /\ s[i] = s[j]
      BY <1>1, <1>2, <1>6, <2>1
    <3>. QED
      BY <3>1 DEF Lists
  <2>2. CASE ~(i <= Len(s)) /\ ~(j <= Len(s))
    <3>1. i - Len(s) \in 1 .. Len(t) /\ j - Len(s) \in 1 .. Len(t)
      BY <1>1, <1>2, <2>2
    <3>2. i - Len(s) = j - Len(s)
      BY <1>1, <1>2, <1>6, <2>2, <3>1 DEF Lists
    <3>. QED
      BY <1>1, <3>2
  <2>3. ASSUME NEW k \in 1 .. Len(u), NEW l \in 1 .. Len(u), k <= Len(s), ~(l <= Len(s))
        PROVE  u[k] # u[l]
    <3>1. k \in 1 .. Len(s) /\ l - Len(s) \in 1 .. Len(t)
      BY <1>1, <1>2, <2>3
    <3>2. u[k] \in S /\ u[l] \in T
      BY <1>2, <1>4, <1>5, <2>3, <3>1
    <3>. QED
      BY <3>2
  <2>. QED
    BY <1>6, <2>1, <2>2, <2>3
<1>7. Lists(u, S \cup T)
  BY <1>2, <1>3, <1>6 DEF Lists
<1>. QED
  BY <1>7 DEF u

\* A list grows by a new member.
LEMMA ListsAppend ==
  ASSUME NEW S, NEW s, NEW x, Lists(s, S), x \notin S
  PROVE  Lists(Append(s, x), S \cup {x})
<1>1. Lists(<<x>>, {x})
  <2>. DEFINE o == <<x>>
  <2>1. o \in Seq({x}) /\ Len(o) = 1 /\ o[1] = x
    OBVIOUS
  <2>. HIDE DEF o
  <2>2. \A i, j \in 1 .. Len(o) : i = j
    BY <2>1
  <2>3. Lists(o, {x})
    BY <2>1, <2>2 DEF Lists
  <2>. QED
    BY <2>3 DEF o
<1>2. s \in Seq(S \cup {x})
  BY SeqMonotonic DEF Lists
<1>3. Append(s, x) = s \o <<x>>
  BY <1>2, AppendIsConcat
<1>. QED
  BY <1>1, <1>3, ListsConcat

\* The two parts of a list, and the sets they list.
LEMMA ListsSplit ==
  ASSUME NEW S, NEW s, Lists(s, S), NEW k \in 0 .. Len(s)
  PROVE  LET a == SubSeq(s, 1, k)
             z == SubSeq(s, k + 1, Len(s))
         IN  /\ Len(a) = k /\ Len(z) = Len(s) - k
             /\ Lists(a, ToSet(a)) /\ Lists(z, ToSet(z))
             /\ ToSet(a) \subseteq S /\ ToSet(z) = S \ ToSet(a)
<1>. DEFINE a == SubSeq(s, 1, k)
            z == SubSeq(s, k + 1, Len(s))
<1>1. Len(s) \in Nat /\ \A i \in 1 .. Len(s) : s[i] \in S
  BY LenProperties, ElementOfSeq DEF Lists
<1>2. a \in Seq(S) /\ Len(a) = k /\ \A i \in 1 .. k : a[i] = s[i]
  <2>1. \A i \in 1 .. k : s[i] \in S
    BY <1>1
  <2>2. /\ a \in Seq(S)
        /\ Len(a) = IF 1 <= k THEN k - 1 + 1 ELSE 0
        /\ \A i \in 1 .. k - 1 + 1 : a[i] = s[1 + i - 1]
    BY <1>1, <2>1, SubSeqProperties
  <2>. HIDE DEF a
  <2>3. \A i \in 1 .. k : 1 + i - 1 = i /\ i \in 1 .. k - 1 + 1
    OBVIOUS
  <2>4. Len(a) = k
    BY <1>1, <2>2
  <2>. QED
    BY <2>2, <2>3, <2>4
<1>3. z \in Seq(S) /\ Len(z) = Len(s) - k /\ \A i \in 1 .. Len(s) - k : z[i] = s[k + i]
  <2>1. \A i \in k + 1 .. Len(s) : s[i] \in S
    BY <1>1
  <2>2. /\ z \in Seq(S)
        /\ Len(z) = IF k + 1 <= Len(s) THEN Len(s) - (k + 1) + 1 ELSE 0
        /\ \A i \in 1 .. Len(s) - (k + 1) + 1 : z[i] = s[(k + 1) + i - 1]
    BY <1>1, <2>1, SubSeqProperties
  <2>. HIDE DEF z
  <2>3. \A i \in 1 .. Len(s) - k : (k + 1) + i - 1 = k + i /\ i \in 1 .. Len(s) - (k + 1) + 1
    BY <1>1
  <2>4. Len(z) = Len(s) - k
    BY <1>1, <2>2
  <2>. QED
    BY <2>2, <2>3, <2>4
<1>. HIDE DEF a, z
<1>4. ToSet(a) = {a[i] : i \in 1 .. k} /\ ToSet(z) = {z[i] : i \in 1 .. Len(s) - k}
  <2>1. DOMAIN a = 1 .. k /\ DOMAIN z = 1 .. Len(s) - k
    BY <1>2, <1>3, LenProperties
  <2>. QED
    BY <2>1 DEF ToSet
<1>5. ToSet(a) \subseteq S
  BY <1>1, <1>2, <1>4
<1>6. ToSet(z) \subseteq S \ ToSet(a)
  <2>. SUFFICES ASSUME NEW i \in 1 .. Len(s) - k PROVE z[i] \in S /\ \A j \in 1 .. k : a[j] # z[i]
    BY <1>4
  <2>1. k + i \in 1 .. Len(s) /\ \A j \in 1 .. k : j \in 1 .. Len(s) /\ j # k + i
    BY <1>1
  <2>. QED
    BY <1>1, <1>2, <1>3, <2>1 DEF Lists
<1>7. S \ ToSet(a) \subseteq ToSet(z)
  <2>. SUFFICES ASSUME NEW x \in S, x \notin ToSet(a) PROVE x \in ToSet(z)
    OBVIOUS
  <2>1. PICK i \in 1 .. Len(s) : s[i] = x
    BY DEF Lists
  <2>2. ~(i <= k)
    BY <1>2, <1>4, <2>1
  <2>3. i - k \in 1 .. Len(s) - k /\ k + (i - k) = i
    BY <1>1, <2>2
  <2>4. z[i - k] = x
    BY <1>3, <2>1, <2>3
  <2>. QED
    BY <1>4, <2>3, <2>4
<1>8. Lists(a, ToSet(a))
  <2>1. a \in Seq(ToSet(a))
    <3>1. a = [i \in 1 .. k |-> a[i]]
      BY <1>2, LenProperties
    <3>2. a \in [1 .. k -> ToSet(a)]
      BY <1>4, <3>1
    <3>. QED
      BY <3>2
  <2>2. \A i, j \in 1 .. k : i \in 1 .. Len(s) /\ j \in 1 .. Len(s)
    BY <1>1
  <2>. QED
    BY <1>2, <1>4, <2>1, <2>2 DEF Lists
<1>9. Lists(z, ToSet(z))
  <2>1. z \in Seq(ToSet(z))
    <3>1. z = [i \in 1 .. Len(s) - k |-> z[i]]
      BY <1>3, LenProperties
    <3>2. z \in [1 .. Len(s) - k -> ToSet(z)]
      BY <1>4, <3>1
    <3>3. Len(s) - k \in Nat
      BY <1>1
    <3>. QED
      BY <3>2, <3>3
  <2>2. ASSUME NEW i \in 1 .. Len(s) - k, NEW j \in 1 .. Len(s) - k, z[i] = z[j] PROVE i = j
    <3>1. k + i \in 1 .. Len(s) /\ k + j \in 1 .. Len(s) /\ s[k + i] = s[k + j]
      BY <1>1, <1>3, <2>2
    <3>2. k + i = k + j
      BY <3>1 DEF Lists
    <3>. QED
      BY <1>1, <3>2
  <2>. QED
    BY <1>3, <1>4, <2>1, <2>2 DEF Lists
<1>. QED
  BY <1>2, <1>3, <1>5, <1>6, <1>7, <1>8, <1>9 DEF a, z

\* A list of a set is one of its orders, and shows that the set is finite.
LEMMA ListsOrder ==
  ASSUME NEW S, NEW s, Lists(s, S)
  PROVE  IsFiniteSet(S) /\ Cardinality(S) = Len(s) /\ s \in Orders(S) /\ ToSet(s) = S
<1>1. Len(s) \in Nat /\ s \in [1 .. Len(s) -> S] /\ DOMAIN s = 1 .. Len(s)
  BY LenProperties DEF Lists
<1>2. s \in Bijection(1 .. Len(s), S)
  BY <1>1 DEF Lists, Bijection, Injection, Surjection, IsInjective
<1>3. IsFiniteSet(S) /\ Cardinality(S) = Cardinality(1 .. Len(s))
  <2>1. IsFiniteSet(1 .. Len(s))
    BY <1>1, FS_Interval
  <2>2. ExistsBijection(1 .. Len(s), S)
    BY <1>2 DEF ExistsBijection
  <2>. QED
    BY <2>1, <2>2, FS_Bijection
<1>4. Cardinality(S) = Len(s)
  BY <1>1, <1>3, FS_Interval
<1>. QED
  BY <1>1, <1>3, <1>4 DEF Lists, Orders, ToSet

\* An order of a finite set lists it, and has its length.
LEMMA OrdersFacts ==
  ASSUME NEW S, IsFiniteSet(S), NEW s \in Orders(S)
  PROVE  Len(s) = Cardinality(S) /\ ToSet(s) = S /\ Lists(s, S)
<1>1. Cardinality(S) \in Nat
  BY FS_CardinalityType
<1>2. s \in [1 .. Cardinality(S) -> S]
  BY DEF Orders
<1>. DEFINE k == Cardinality(S)
<1>. HIDE DEF k
<1>3. DOMAIN s = 1 .. k /\ k \in Nat /\ s \in Seq(S)
  BY <1>1, <1>2 DEF k
<1>4. Len(s) = k
  BY <1>3, LenProperties
<1>5. ToSet(s) = S
  BY <1>2, <1>3 DEF ToSet, Orders, k
<1>6. s \in Surjection(1 .. k, S)
  BY <1>2 DEF Surjection, Orders, k
<1>7. IsFiniteSet(1 .. k) /\ Cardinality(1 .. k) = Cardinality(S)
  BY <1>3, FS_Interval DEF k
<1>8. s \in Injection(1 .. k, S)
  BY <1>6, <1>7, FS_SurjSameCardinalityImpliesInj
<1>9. Lists(s, S)
  BY <1>3, <1>4, <1>6, <1>8 DEF Lists, Injection, Surjection, IsInjective
<1>. QED
  BY <1>4, <1>5, <1>9 DEF k

\* Induction over the naturals, for a set: from the well-foundedness of the
\* finite sets under inclusion.
LEMMA IndSet ==
  ASSUME NEW S, 0 \in S, \A n \in Nat : n \in S => n + 1 \in S
  PROVE  Nat \subseteq S
<1>1. SUFFICES ASSUME NEW k \in Nat, k \notin S PROVE FALSE
  OBVIOUS
<1> DEFINE Bad == {n \in Nat : n \notin S}
           T == {1 .. n : n \in Bad}
<1>2. T \subseteq FiniteSubsetsOf(Nat) /\ T # {}
  <2>1. \A n \in Nat : IsFiniteSet(1 .. n) /\ (1 .. n) \subseteq Nat
    BY FS_Interval
  <2> QED
    BY <1>1, <2>1 DEF FiniteSubsetsOf
<1>3. PICK x \in T : \A y \in T : ~(<<y, x>> \in StrictSubsetOrdering(Nat))
  <2>1. IsWellFoundedOn(StrictSubsetOrdering(Nat), FiniteSubsetsOf(Nat))
    BY FS_StrictSubsetOrderingWellFounded
  <2> HIDE DEF T
  <2> QED
    BY <1>2, <2>1, WFMin
<1>4. PICK n \in Bad : x = 1 .. n
  BY <1>3
<1>5. n # 0 /\ n - 1 \in Nat
  BY <1>4
<1>6. n - 1 \in Bad
  BY <1>5, <1>4
<1>7. 1 .. (n - 1) \in T
  BY <1>6
<1>8. <<1 .. (n - 1), 1 .. n>> \in StrictSubsetOrdering(Nat)
  BY <1>5, <1>4 DEF StrictSubsetOrdering
<1> QED
  BY <1>3, <1>4, <1>7, <1>8

\* f[n] is what is taken of bucket b from the first n records of s.
Takes(f, s, b) ==
    f = [n \in 0 .. Len(s) |->
           IF n = 0 THEN <<>>
           ELSE IF BucketOf(s[n]) = b THEN Append(f[n - 1], s[n]) ELSE f[n - 1]]

\* Every list has one: Received is well defined.
LEMMA TakesExist ==
  ASSUME NEW s, NEW b, Len(s) \in Nat
  PROVE  \E f : Takes(f, s, b)
<1>. DEFINE next(n, t) == IF BucketOf(s[n]) = b THEN Append(t, s[n]) ELSE t
            Upto(f, m) == f = [n \in 0 .. m |-> IF n = 0 THEN <<>> ELSE next(n, f[n - 1])]
            S == {m \in Nat : \E f : Upto(f, m)}
<1>1. 0 \in S
  <2>. DEFINE f == [n \in 0 .. 0 |-> <<>>]
  <2>1. f = [n \in 0 .. 0 |-> IF n = 0 THEN <<>> ELSE next(n, f[n - 1])]
    OBVIOUS
  <2>. HIDE DEF f
  <2>. QED
    BY <2>1
<1>. HIDE DEF next
<1>2. ASSUME NEW m \in Nat, m \in S PROVE m + 1 \in S
  <2>1. PICK f : Upto(f, m)
    BY <1>2
  <2>. DEFINE h == [n \in 0 .. m + 1 |-> IF n = m + 1 THEN next(m + 1, f[m]) ELSE f[n]]
  <2>2. ASSUME NEW n \in 0 .. m + 1
        PROVE  h[n] = IF n = 0 THEN <<>> ELSE next(n, h[n - 1])
    <3>1. CASE n = m + 1
      <4>1. n # 0 /\ n - 1 = m /\ m \in 0 .. m + 1 /\ m # m + 1
        BY <3>1
      <4>. QED
        BY <3>1, <4>1
    <3>2. CASE n # m + 1
      <4>1. n \in 0 .. m /\ (n # 0 => n - 1 \in 0 .. m + 1 /\ n - 1 # m + 1)
        BY <3>2
      <4>2. f[n] = IF n = 0 THEN <<>> ELSE next(n, f[n - 1])
        BY <2>1, <4>1
      <4>3. h[n] = f[n] /\ (n # 0 => h[n - 1] = f[n - 1])
        BY <3>2, <4>1
      <4>. HIDE DEF h
      <4>. QED
        BY <4>2, <4>3
    <3>. QED
      BY <3>1, <3>2
  <2>3. h = [n \in 0 .. m + 1 |-> h[n]]
    OBVIOUS
  <2>. HIDE DEF h
  <2>4. h = [n \in 0 .. m + 1 |-> IF n = 0 THEN <<>> ELSE next(n, h[n - 1])]
    BY <2>2, <2>3
  <2>. QED
    BY <2>4
<1>3. Nat \subseteq S
  <2>. HIDE DEF S
  <2>. QED
    BY <1>1, <1>2, IndSet
<1>4. PICK f : Upto(f, Len(s))
  BY <1>3
<1>. QED
  BY <1>4 DEF Takes, next

InBucket(S, b) == {x \in S : BucketOf(x) = b}

\* What is taken from a list lists the records of the bucket.
LEMMA TakesLists ==
  ASSUME NEW s, NEW S, Lists(s, S), NEW b, NEW f, Takes(f, s, b)
  PROVE  Lists(f[Len(s)], InBucket(S, b))
<1>. DEFINE Firsts(n) == {x \in S : BucketOf(x) = b /\ \E i \in 1 .. n : s[i] = x}
            G == {n \in Nat : n <= Len(s) => Lists(f[n], Firsts(n))}
<1>0. Len(s) \in Nat /\ \A i \in 1 .. Len(s) : s[i] \in S
  BY LenProperties, ElementOfSeq DEF Lists
<1>1. 0 \in G
  <2>1. f[0] = <<>>
    BY <1>0 DEF Takes
  <2>2. Firsts(0) = {}
    OBVIOUS
  <2>. QED
    BY <2>1, <2>2, ListsNothing
<1>2. ASSUME NEW n \in Nat, n \in G PROVE n + 1 \in G
  <2>. SUFFICES ASSUME n + 1 <= Len(s) PROVE Lists(f[n + 1], Firsts(n + 1))
    OBVIOUS
  <2>1. Lists(f[n], Firsts(n)) /\ n + 1 \in 1 .. Len(s) /\ n + 1 \in 0 .. Len(s)
    BY <1>0, <1>2
  <2>2. f[n + 1] = IF BucketOf(s[n + 1]) = b THEN Append(f[n], s[n + 1]) ELSE f[n]
    <3>1. n + 1 # 0 /\ (n + 1) - 1 = n
      OBVIOUS
    <3>. QED
      BY <2>1, <3>1 DEF Takes
  <2>3. s[n + 1] \in S /\ \A i \in 1 .. n : s[i] # s[n + 1]
    <3>1. \A i \in 1 .. n : i \in 1 .. Len(s) /\ i # n + 1
      BY <1>0, <2>1
    <3>. QED
      BY <1>0, <2>1, <3>1 DEF Lists
  <2>4. 1 .. n + 1 = (1 .. n) \cup {n + 1}
    BY <1>2
  <2>5. CASE BucketOf(s[n + 1]) = b
    <3>1. Firsts(n + 1) = Firsts(n) \cup {s[n + 1]}
      BY <2>3, <2>4, <2>5
    <3>2. s[n + 1] \notin Firsts(n)
      BY <2>3
    <3>. HIDE DEF Firsts
    <3>. QED
      BY <2>1, <2>2, <2>5, <3>1, <3>2, ListsAppend
  <2>6. CASE BucketOf(s[n + 1]) # b
    <3>1. Firsts(n + 1) = Firsts(n)
      BY <2>3, <2>4, <2>6
    <3>. QED
      BY <2>1, <2>2, <2>6, <3>1
  <2>. QED
    BY <2>5, <2>6
<1>3. Nat \subseteq G
  <2>. HIDE DEF G
  <2>. QED
    BY <1>1, <1>2, IndSet
<1>4. Lists(f[Len(s)], Firsts(Len(s)))
  <2>1. Len(s) \in G
    <3>. HIDE DEF G
    <3>. QED
      BY <1>0, <1>3
  <2>. HIDE DEF Firsts
  <2>. QED
    BY <1>0, <2>1
<1>5. Firsts(Len(s)) = InBucket(S, b)
  BY DEF Lists, InBucket
<1>. QED
  BY <1>4, <1>5

\* f[n] is the concatenation of the first n of the lists.
Joins(f, lists) ==
    f = [n \in 1 .. Len(lists) |-> IF n = 1 THEN lists[n] ELSE f[n - 1] \o lists[n]]

\* Every sequence of lists has one: FlattenSeq is well defined.
LEMMA JoinsExist ==
  ASSUME NEW lists, Len(lists) \in Nat \ {0}
  PROVE  \E f : Joins(f, lists)
<1>. DEFINE next(n, t) == t \o lists[n]
            Upto(f, m) == f = [n \in 1 .. m + 1 |-> IF n = 1 THEN lists[n] ELSE next(n, f[n - 1])]
            S == {m \in Nat : \E f : Upto(f, m)}
<1>1. 0 \in S
  <2>. DEFINE f == [n \in 1 .. 0 + 1 |-> lists[n]]
  <2>1. f = [n \in 1 .. 0 + 1 |-> IF n = 1 THEN lists[n] ELSE next(n, f[n - 1])]
    OBVIOUS
  <2>. HIDE DEF f
  <2>. QED
    BY <2>1
<1>. HIDE DEF next
<1>2. ASSUME NEW m \in Nat, m \in S PROVE m + 1 \in S
  <2>1. PICK f : Upto(f, m)
    BY <1>2
  <2>. DEFINE k == m + 2
              h == [n \in 1 .. (m + 1) + 1 |-> IF n = k THEN next(k, f[m + 1]) ELSE f[n]]
  <2>2. ASSUME NEW n \in 1 .. (m + 1) + 1
        PROVE  h[n] = IF n = 1 THEN lists[n] ELSE next(n, h[n - 1])
    <3>1. CASE n = k
      <4>1. n # 1 /\ n - 1 = m + 1 /\ m + 1 \in 1 .. (m + 1) + 1 /\ m + 1 # k
        BY <3>1
      <4>. QED
        BY <3>1, <4>1
    <3>2. CASE n # k
      <4>1. n \in 1 .. m + 1 /\ (n # 1 => n - 1 \in 1 .. (m + 1) + 1 /\ n - 1 # k)
        BY <3>2
      <4>2. f[n] = IF n = 1 THEN lists[n] ELSE next(n, f[n - 1])
        BY <2>1, <4>1
      <4>3. h[n] = f[n] /\ (n # 1 => h[n - 1] = f[n - 1])
        BY <3>2, <4>1
      <4>. HIDE DEF h
      <4>. QED
        BY <4>2, <4>3
    <3>. QED
      BY <3>1, <3>2
  <2>3. h = [n \in 1 .. (m + 1) + 1 |-> h[n]]
    OBVIOUS
  <2>. HIDE DEF h
  <2>4. h = [n \in 1 .. (m + 1) + 1 |-> IF n = 1 THEN lists[n] ELSE next(n, h[n - 1])]
    BY <2>2, <2>3
  <2>. QED
    BY <2>4
<1>3. Nat \subseteq S
  <2>. HIDE DEF S
  <2>. QED
    BY <1>1, <1>2, IndSet
<1>4. Len(lists) - 1 \in Nat /\ (Len(lists) - 1) + 1 = Len(lists)
  OBVIOUS
<1>5. PICK f : Upto(f, Len(lists) - 1)
  BY <1>3, <1>4
<1>. QED
  BY <1>4, <1>5 DEF Joins, next

\* The members of the first n sets.
FirstOf(sets, n) == UNION {sets[i] : i \in 1 .. n}

\* Lists of disjoint sets, one after the other, list their union.
LEMMA JoinsLists ==
  ASSUME NEW lists, NEW sets, NEW f, Joins(f, lists), Len(lists) \in Nat \ {0},
         \A n \in 1 .. Len(lists) : Lists(lists[n], sets[n]),
         \A m, n \in 1 .. Len(lists) : m # n => sets[m] \cap sets[n] = {}
  PROVE  Lists(f[Len(lists)], FirstOf(sets, Len(lists)))
<1>. DEFINE Firsts(n) == FirstOf(sets, n)
            G == {n \in Nat : n + 1 <= Len(lists) => Lists(f[n + 1], Firsts(n + 1))}
<1>1. 0 \in G
  <2>1. f[1] = lists[1] /\ 1 \in 1 .. Len(lists)
    BY DEF Joins
  <2>2. Firsts(1) = sets[1]
    <3>1. 1 .. 1 = {1}
      OBVIOUS
    <3>. QED
      BY <3>1 DEF FirstOf
  <2>3. Lists(f[1], Firsts(1))
    BY <2>1, <2>2
  <2>. HIDE DEF Firsts
  <2>4. 0 + 1 = 1
    OBVIOUS
  <2>. QED
    BY <2>3, <2>4
<1>2. ASSUME NEW n \in Nat, n \in G PROVE n + 1 \in G
  <2>. DEFINE k == n + 2
  <2>0. (n + 1) + 1 = k /\ k - 1 = n + 1
    OBVIOUS
  <2>. SUFFICES ASSUME k <= Len(lists) PROVE Lists(f[k], Firsts(k))
    BY <2>0
  <2>1. Lists(f[n + 1], Firsts(n + 1)) /\ k \in 1 .. Len(lists) /\ k # 1
    BY <1>2
  <2>2. f[k] = f[n + 1] \o lists[k]
    BY <2>0, <2>1 DEF Joins
  <2>3. Firsts(n + 1) \cap sets[k] = {}
    <3>1. \A i \in 1 .. n + 1 : i \in 1 .. Len(lists) /\ i # k
      BY <2>1
    <3>. QED
      BY <2>1, <3>1 DEF FirstOf
  <2>4. Firsts(k) = Firsts(n + 1) \cup sets[k]
    <3>1. 1 .. k = (1 .. n + 1) \cup {k}
      BY <1>2
    <3>. QED
      BY <3>1 DEF FirstOf
  <2>5. Lists(lists[k], sets[k])
    BY <2>1
  <2>. HIDE DEF Firsts, k
  <2>. QED
    BY <2>1, <2>2, <2>3, <2>4, <2>5, ListsConcat
<1>3. Nat \subseteq G
  <2>. HIDE DEF G
  <2>. QED
    BY <1>1, <1>2, IndSet
<1>4. Len(lists) - 1 \in Nat /\ (Len(lists) - 1) + 1 = Len(lists)
  OBVIOUS
<1>5. Len(lists) - 1 \in G
  <2>. HIDE DEF G
  <2>. QED
    BY <1>3, <1>4
<1>. HIDE DEF Firsts
<1>. QED
  BY <1>4, <1>5 DEF Firsts

\* FlattenSeq of lists of disjoint sets lists their union.
LEMMA FlattenLists ==
  ASSUME NEW lists, NEW sets, Len(lists) \in Nat \ {0},
         \A n \in 1 .. Len(lists) : Lists(lists[n], sets[n]),
         \A m, n \in 1 .. Len(lists) : m # n => sets[m] \cap sets[n] = {}
  PROVE  Lists(FlattenSeq(lists), FirstOf(sets, Len(lists)))
<1>. DEFINE g == CHOOSE f : Joins(f, lists)
<1>1. Joins(g, lists)
  BY JoinsExist
<1>2. FlattenSeq(lists) = g[Len(lists)]
  BY DEF FlattenSeq, Joins
<1>. HIDE DEF g
<1>. QED
  BY <1>1, <1>2, JoinsLists

-----------------------------------------------------------------------------
(*****************************************************************************)
(* Data, rounds and shares.                                                  *)
(*****************************************************************************)
\* The quotient rounded up is enough, and not one too many.
LEMMA Ceiling ==
  ASSUME NEW n \in Nat, NEW d \in Nat \ {0}
  PROVE  LET q == (n + d - 1) \div d
         IN  q \in Nat /\ n <= q * d /\ q * d < n + d
<1>. DEFINE a == n + d - 1
            q == a \div d
<1>1. a \in Nat /\ q \in Nat
  OBVIOUS
<1>2. d * q <= a /\ a < d * q + d
  <2>. HIDE DEF a
  <2>. QED
    BY <1>1
<1>. QED
  BY <1>1, <1>2

\* Products with a natural number keep the order.
LEMMA Products ==
  ASSUME NEW m \in Nat, NEW n \in Nat, NEW d \in Nat, m <= n
  PROVE  m * d <= n * d /\ m * d \in Nat /\ n * d \in Nat
<1>1. PICK k \in Nat : n = m + k
  <2>1. n - m \in Nat /\ n = m + (n - m)
    OBVIOUS
  <2>. QED
    BY <2>1
<1>2. n * d = m * d + k * d
  BY <1>1
<1>3. k * d \in Nat /\ m * d \in Nat
  OBVIOUS
<1>. QED
  BY <1>2, <1>3

\* The sets of the ranks, all together.
Pooled(c) == UNION {ToSet(c[r]) : r \in Ranks}
Apart(c) ==
    /\ \A r \in Ranks : Lists(c[r], ToSet(c[r]))
    /\ \A r, s \in Ranks : r # s => ToSet(c[r]) \cap ToSet(c[s]) = {}

\* What disjoint ranks have, joined in their order, lists all they have.
LEMMA PooledLists ==
  ASSUME NEW c, Apart(c)
  PROVE  Lists(FlattenSeq([n \in 1 .. NumRanks |-> c[n - 1]]), Pooled(c))
<1>. DEFINE lists == [n \in 1 .. NumRanks |-> c[n - 1]]
            sets == [n \in 1 .. NumRanks |-> ToSet(c[n - 1])]
<1>1. NumRanks \in Nat \ {0} /\ Len(lists) = NumRanks
  BY NumRanksAssumption
<1>2. \A n \in 1 .. NumRanks : n - 1 \in Ranks /\ lists[n] = c[n - 1] /\ sets[n] = ToSet(c[n - 1])
  BY <1>1 DEF Ranks
<1>3. \A n \in 1 .. NumRanks : Lists(lists[n], sets[n])
  BY <1>2 DEF Apart
<1>4. \A m, n \in 1 .. NumRanks : m # n => sets[m] \cap sets[n] = {}
  BY <1>2 DEF Apart
<1>5. FirstOf(sets, NumRanks) = Pooled(c)
  <2>1. FirstOf(sets, NumRanks) \subseteq Pooled(c)
    BY <1>2 DEF FirstOf, Pooled
  <2>2. ASSUME NEW r \in Ranks PROVE ToSet(c[r]) \subseteq FirstOf(sets, NumRanks)
    <3>1. r + 1 \in 1 .. NumRanks /\ (r + 1) - 1 = r
      BY <1>1 DEF Ranks
    <3>. QED
      BY <1>2, <3>1 DEF FirstOf
  <2>. QED
    BY <2>1, <2>2 DEF Pooled
<1>. HIDE DEF lists, sets
<1>6. Lists(FlattenSeq(lists), FirstOf(sets, Len(lists)))
  BY <1>1, <1>3, <1>4, FlattenLists
<1>. QED
  BY <1>1, <1>5, <1>6 DEF lists

\* The shards are apart and make up the corpus, which is finite.
LEMMA DataFacts ==
  ASSUME options \in OptionSets
  PROVE  /\ options.batch \in Nat \ {0}
         /\ Apart(options.shards) /\ Corpus = Pooled(options.shards)
         /\ IsFiniteSet(Corpus) /\ GlobalCount \in Nat
         /\ \A b : /\ IsFiniteSet(OfBucket(b)) /\ OfBucket(b) \subseteq Corpus
                   /\ GlobalBuckets(b) \in Nat /\ GlobalBuckets(b) <= GlobalCount
<1>. DEFINE c == options.shards
<1>1. /\ options.batch \in Nat \ {0}
      /\ \A r \in Ranks : c[r] \in Seq(CorpusOf(options))
      /\ \A r, s \in Ranks : \A i \in DOMAIN c[r], j \in DOMAIN c[s] :
            c[r][i] = c[s][j] => r = s /\ i = j
  BY DataAssumption
<1>2. ASSUME NEW r \in Ranks PROVE Lists(c[r], ToSet(c[r]))
  <2>1. Len(c[r]) \in Nat /\ DOMAIN c[r] = 1 .. Len(c[r])
    BY <1>1, LenProperties
  <2>2. c[r] \in Seq(ToSet(c[r]))
    <3>1. c[r] = [i \in 1 .. Len(c[r]) |-> c[r][i]]
      BY <1>1, <2>1, LenProperties
    <3>2. c[r] \in [1 .. Len(c[r]) -> ToSet(c[r])]
      BY <2>1, <3>1 DEF ToSet
    <3>. QED
      BY <2>1, <3>2
  <2>3. \A x \in ToSet(c[r]) : \E i \in 1 .. Len(c[r]) : c[r][i] = x
    BY <2>1 DEF ToSet
  <2>. QED
    BY <1>1, <2>1, <2>2, <2>3 DEF Lists
<1>3. ASSUME NEW r \in Ranks, NEW s \in Ranks, r # s PROVE ToSet(c[r]) \cap ToSet(c[s]) = {}
  BY <1>1, <1>3 DEF ToSet
<1>4. Apart(c) /\ Corpus = Pooled(c)
  BY <1>2, <1>3 DEF Apart, Pooled, Corpus, CorpusOf
<1>5. IsFiniteSet(Corpus)
  BY <1>4, PooledLists, ListsOrder
<1>6. ASSUME NEW b PROVE /\ IsFiniteSet(OfBucket(b)) /\ OfBucket(b) \subseteq Corpus
                         /\ GlobalBuckets(b) \in Nat /\ GlobalBuckets(b) <= GlobalCount
  <2>1. OfBucket(b) \in SUBSET Corpus
    BY DEF OfBucket
  <2>. QED
    BY <1>5, <2>1, FS_Subset, FS_CardinalityType DEF GlobalBuckets, GlobalCount
<1>. QED
  BY <1>1, <1>4, <1>5, <1>6, FS_CardinalityType DEF GlobalCount

-----------------------------------------------------------------------------

\* The largest number of rounds is one that suffices for every rank.
LEMMA RanksHaveMax ==
  ASSUME NEW f \in [Ranks -> Nat]
  PROVE  LET m == Max({f[r] : r \in Ranks}) IN m \in Nat /\ \A r \in Ranks : f[r] <= m
<1>. DEFINE S == {n \in Nat : n < NumRanks => \E r \in 0 .. n : \A s \in 0 .. n : f[s] <= f[r]}
<1>0. NumRanks \in Nat \ {0} /\ Ranks = 0 .. NumRanks - 1
  BY NumRanksAssumption DEF Ranks
<1>1. 0 \in S
  BY <1>0
<1>2. ASSUME NEW n \in Nat, n \in S PROVE n + 1 \in S
  <2>. SUFFICES ASSUME n + 1 < NumRanks
                PROVE  \E r \in 0 .. n + 1 : \A s \in 0 .. n + 1 : f[s] <= f[r]
    OBVIOUS
  <2>1. PICK r \in 0 .. n : \A s \in 0 .. n : f[s] <= f[r]
    BY <1>0, <1>2
  <2>2. r \in Ranks /\ n + 1 \in Ranks /\ \A s \in 0 .. n : s \in Ranks
    BY <1>0
  <2>3. \A s \in 0 .. n + 1 : s \in 0 .. n \/ s = n + 1
    OBVIOUS
  <2>4. CASE f[n + 1] <= f[r]
    <3>1. \A s \in 0 .. n + 1 : f[s] <= f[r]
      BY <2>1, <2>3, <2>4
    <3>. QED
      BY <3>1
  <2>5. CASE ~(f[n + 1] <= f[r])
    <3>1. \A s \in 0 .. n + 1 : f[s] <= f[n + 1]
      BY <2>1, <2>2, <2>3, <2>5
    <3>. QED
      BY <3>1
  <2>. QED
    BY <2>4, <2>5
<1>3. NumRanks - 1 \in S
  <2>. HIDE DEF S
  <2>. QED
    BY <1>0, <1>1, <1>2, IndSet
<1>4. PICK r \in Ranks : \A s \in Ranks : f[s] <= f[r]
  BY <1>0, <1>3
<1>. DEFINE T == {f[s] : s \in Ranks}
<1>5. f[r] \in T /\ \A y \in T : y <= f[r]
  BY <1>4
<1>6. T \subseteq Nat
  OBVIOUS
<1>. HIDE DEF T
<1>7. Max(T) \in T /\ \A y \in T : Max(T) >= y
  BY <1>5, <1>6 DEF Max
<1>8. \A s \in Ranks : f[s] \in T
  BY DEF T
<1>. QED
  BY <1>6, <1>7, <1>8 DEF T

\* The number of rounds agreed upon is enough for the shard of every rank.
LEMMA RoundsSuffice ==
  ASSUME \A r \in Ranks : Len(mem[r].shard) \in Nat, NEW r \in Ranks
  PROVE  /\ MaxRounds(r) \in Nat
         /\ \A s \in Ranks : Len(mem[s].shard) <= MaxRounds(r) * RouteRecords
<1>. DEFINE f == [s \in Ranks |-> RoundsOf(s)]
            m == MaxRounds(r)
<1>0. RouteRecords \in Nat \ {0}
  BY SizesAssumption
<1>1. \A s \in Ranks : RoundsOf(s) \in Nat /\ Len(mem[s].shard) <= RoundsOf(s) * RouteRecords
  BY <1>0, Ceiling DEF RoundsOf
<1>2. f \in [Ranks -> Nat]
  BY <1>1
<1>3. {RoundsOf(s) : s \in Ranks} = {f[s] : s \in Ranks}
  OBVIOUS
<1>4. m \in Nat /\ \A s \in Ranks : RoundsOf(s) <= m
  <2>. HIDE DEF f
  <2>1. m = Max({f[s] : s \in Ranks})
    BY <1>3 DEF MaxRounds
  <2>2. m \in Nat /\ \A s \in Ranks : f[s] <= m
    BY <1>2, <2>1, RanksHaveMax
  <2>. QED
    BY <2>2 DEF f
<1>. HIDE DEF m, f
<1>5. ASSUME NEW s \in Ranks PROVE Len(mem[s].shard) <= m * RouteRecords
  <2>. DEFINE a == RoundsOf(s)
              d == RouteRecords
              l == Len(mem[s].shard)
  <2>1. a \in Nat /\ m \in Nat /\ a <= m /\ d \in Nat /\ l \in Nat /\ l <= a * d
    BY <1>0, <1>1, <1>4
  <2>. HIDE DEF a, d, l
  <2>2. a * d <= m * d /\ a * d \in Nat /\ m * d \in Nat
    BY <2>1, Products
  <2>3. l <= m * d
    BY <2>1, <2>2
  <2>. QED
    BY <2>3 DEF l, d
<1>. QED
  BY <1>4, <1>5 DEF m

-----------------------------------------------------------------------------

\* The records of the epoch up to the start of a step.
Reached(step) == Min({step * options.batch, GlobalCount})

\* The share of no record is none, and that of all records the whole bucket.
LEMMA QuotaFacts ==
  ASSUME options \in OptionSets, GlobalCount # 0, NEW b
  PROVE  /\ Quota(b, 0) = 0
         /\ Quota(b, GlobalCount) = GlobalBuckets(b)
         /\ \A n \in Nat : Quota(b, n) \in Nat
<1>. DEFINE g == GlobalCount
            x == GlobalBuckets(b)
<1>1. g \in Nat \ {0} /\ x \in Nat
  BY DataFacts
<1>. HIDE DEF g, x
<1>2. (0 * x) \div g = 0
  BY <1>1
<1>3. (g * x) \div g = x
  BY <1>1
<1>4. \A n \in Nat : (n * x) \in Nat
  BY <1>1
<1>5. \A n \in Nat : (n * x) \div g \in Nat
  BY <1>1, <1>4
<1>. QED
  BY <1>2, <1>3, <1>5 DEF Quota, g, x

\* The steps of an epoch tile the corpus: each starts where the one before it
\* ends, and the last ends with the last record.
LEMMA StepFacts ==
  ASSUME options \in OptionSets, NEW step \in Nat
  PROVE  /\ StepsPerEpoch \in Nat
         /\ Reached(step) \in Nat
         /\ step < StepsPerEpoch =>
              \A b : Amount(b, step) = Quota(b, Reached(step + 1)) - Quota(b, Reached(step))
         /\ ~(step < StepsPerEpoch) => Reached(step) = GlobalCount
         /\ Reached(0) = 0
<1>. DEFINE g == GlobalCount
            d == options.batch
            q == StepsPerEpoch
<1>1. g \in Nat /\ d \in Nat \ {0}
  BY DataFacts
<1>2. q \in Nat /\ g <= q * d /\ q * d < g + d
  BY <1>1, Ceiling DEF StepsPerEpoch
<1>. HIDE DEF g, d, q
<1>3. step * d \in Nat /\ (step + 1) * d = step * d + d
  BY <1>1
<1>4. \A m, n \in Nat : Min({m, n}) = IF m <= n THEN m ELSE n
  BY DEF Min
<1>5. step < q => step * d < g
  <2>. SUFFICES ASSUME step < q PROVE step * d < g
    OBVIOUS
  <2>1. step + 1 \in Nat /\ step + 1 <= q
    BY <1>2
  <2>2. (step + 1) * d <= q * d /\ q * d \in Nat
    BY <1>1, <1>2, <2>1, Products
  <2>. QED
    BY <1>1, <1>2, <1>3, <2>2
<1>6. ~(step < q) => g <= step * d
  <2>. SUFFICES ASSUME q <= step PROVE g <= step * d
    BY <1>2
  <2>1. q * d <= step * d /\ q * d \in Nat
    BY <1>1, <1>2, Products
  <2>. QED
    BY <1>1, <1>2, <1>3, <2>1
<1>7. 0 * d = 0
  BY <1>1
<1>8. /\ Reached(step) = (IF step * d <= g THEN step * d ELSE g)
      /\ Reached(0) = 0
      /\ Reached(step + 1) = Min({step * d + d, g})
  BY <1>1, <1>3, <1>4, <1>7 DEF Reached, g, d
<1>9. step < q => \A b : Amount(b, step) = Quota(b, Reached(step + 1)) - Quota(b, Reached(step))
  BY <1>1, <1>3, <1>5, <1>8 DEF Amount, g, d
<1>10. ~(step < q) => Reached(step) = g
  BY <1>1, <1>3, <1>6, <1>8
<1>. QED
  BY <1>1, <1>2, <1>3, <1>8, <1>9, <1>10 DEF g, q

-----------------------------------------------------------------------------
(*****************************************************************************)
(* Every record once.  While the records are routed each is in one shard or  *)
(* with the owner of its bucket; afterwards the owners' buckets are whole,   *)
(* in some order, and in an epoch each is used up to the share of the steps  *)
(* so far.  A record in one shard is never in two, because the shards are    *)
(* apart from the start.                                                     *)
(*****************************************************************************)
\* Where a rank's records are: not yet routed, all in the owners' buckets, and
\* in the steps of an epoch.
Unread == {"off", "count", "census", "rounds"}
Stored == {"tally", "load", "agree"} \cup Late
AtWork == InStep \cup {"fill", "report"}

\* In the rounds of the routing, every record is still in one shard, or in the
\* bucket of its owner.
Shards(m) == [r \in Ranks |-> m[r].shard]
Routed(m) ==
    /\ Apart(Shards(m))
    /\ Pooled(Shards(m)) \subseteq Corpus
    /\ \A r \in Ranks :
          /\ m[r].rounds \in Int
          /\ Len(m[r].shard) <= m[r].rounds * RouteRecords \/ Len(m[r].shard) = 0
    /\ \A r \in Ranks : \A b \in Buckets :
          IF Owns(r, b) THEN Lists(m[r].kept[b], OfBucket(b) \ Pooled(Shards(m)))
          ELSE m[r].kept[b] = <<>>

\* Every record is in the bucket of a rank; a step that takes nothing from the
\* buckets of a rank.
EveryRecordIsOwned ==
    \A x \in Corpus : BucketOf(x) \in Buckets /\ owners[BucketOf(x)] \in Ranks
HasNoShare(r, step) == \A b \in Buckets : Owns(r, b) => Amount(b, step) <= 0

\* What a rank's memory x holds when it is at a label: from the routing on,
\* its buckets are whole, and in an epoch each has been used up to the share
\* of the steps so far.
StepsTaken(label, x) == IF label \in InStep THEN x.step + 1 ELSE x.step
Fed(label, x, r) ==
    /\ x.epoch \in Nat
    /\ label \in Unread => x = FreshMemory(r)
    /\ label \notin {"off", "count", "census"} => GlobalCount # 0
    /\ label \in Stored =>
          \A b \in Buckets :
             IF Owns(r, b) THEN x.kept[b] \in Orders(OfBucket(b)) ELSE x.kept[b] = <<>>
    /\ label \in Stored \ {"tally"} => EveryRecordIsOwned
    /\ label \in AtWork =>
          /\ x.step \in Nat
          /\ StepsTaken(label, x) <= StepsPerEpoch
          /\ label = "report" => x.step = StepsPerEpoch
          /\ \A b \in Buckets :
                Owns(r, b) => x.offset[b] = Quota(b, Reached(StepsTaken(label, x)))
    /\ label = "size" => (x.batch = {} <=> HasNoShare(r, x.step))

FedInv ==
    /\ options \in OptionSets
    /\ \A r \in Ranks : files[r] # Nothing => files[r].epoch \in Nat
    /\ \A r \in Ranks : Fed(pc[r], mem[r], r)
    /\ (\A r \in Ranks : pc[r] = "route") => Routed(mem)

-----------------------------------------------------------------------------

\* As long as the data and the owners stay, so does what is made of them.
LEMMA DataFrame ==
  ASSUME options' = options
  PROVE  /\ Corpus' = Corpus /\ GlobalCount' = GlobalCount /\ StepsPerEpoch' = StepsPerEpoch
         /\ \A b : OfBucket(b)' = OfBucket(b)
         /\ \A b, n : Quota(b, n)' = Quota(b, n) /\ Amount(b, n)' = Amount(b, n)
         /\ \A k : Reached(k)' = Reached(k)
         /\ \A r : FreshMemory(r)' = FreshMemory(r)
<1>1. Corpus' = Corpus
  BY DEF Corpus
<1>2. GlobalCount' = GlobalCount /\ \A b : OfBucket(b)' = OfBucket(b)
  BY <1>1 DEF GlobalCount, OfBucket
<1>3. \A b, n : Quota(b, n)' = Quota(b, n)
  BY <1>2 DEF Quota, GlobalBuckets
<1>4. \A b, n : Amount(b, n)' = Amount(b, n)
  BY <1>2, <1>3 DEF Amount
<1>. QED
  BY <1>1, <1>2, <1>3, <1>4 DEF StepsPerEpoch, Reached, FreshMemory

\* While options and owners stay, it is enough to look at the new labels and
\* memories.
LEMMA FedAgain ==
  ASSUME UNCHANGED <<options, owners>>, NEW r \in Ranks, Fed(pc'[r], mem'[r], r)
  PROVE  Fed(pc[r], mem[r], r)'
<1>1. \A b : Owns(r, b)' = Owns(r, b)
  BY DEF Owns
<1>2. EveryRecordIsOwned' = EveryRecordIsOwned
  BY DataFrame DEF EveryRecordIsOwned
<1>3. \A n : HasNoShare(r, n)' = HasNoShare(r, n)
  BY <1>1, DataFrame DEF HasNoShare
<1>. QED
  BY <1>1, <1>2, <1>3, DataFrame DEF Fed, StepsTaken

LEMMA RoutedAgain ==
  ASSUME UNCHANGED <<options, owners>>, Routed(mem')
  PROVE  Routed(mem)'
<1>1. \A r, b : Owns(r, b)' = Owns(r, b)
  BY DEF Owns
<1>. QED
  BY <1>1, DataFrame DEF Routed, Shards

FilesDated == \A r \in Ranks : files[r] # Nothing => files[r].epoch \in Nat

\* A step that keeps data and owners, and feeds every rank.
LEMMA FedTogether ==
  ASSUME UNCHANGED <<options, owners>>, options \in OptionSets, FilesDated',
         \A r \in Ranks : Fed(pc'[r], mem'[r], r),
         (\A r \in Ranks : pc'[r] = "route") => Routed(mem')
  PROVE  FedInv'
<1>1. \A r \in Ranks : Fed(pc[r], mem[r], r)'
  BY FedAgain
<1>2. (\A r \in Ranks : pc'[r] = "route") => Routed(mem)'
  BY RoutedAgain
<1>. QED
  BY <1>1, <1>2 DEF FedInv, FilesDated

\* The same for the step of one rank.
LEMMA FedAlone ==
  ASSUME IInv, FedInv, UNCHANGED <<options, owners>>, FilesDated',
         NEW r \in Ranks, NEW label, label # "route", pc' = [pc EXCEPT ![r] = label],
         NEW m, mem' = [mem EXCEPT ![r] = m], Fed(label, m, r)
  PROVE  FedInv'
<1>1. DOMAIN pc = Ranks /\ DOMAIN mem = Ranks
  BY DEF IInv, MemoryInv
<1>2. ASSUME NEW s \in Ranks PROVE Fed(pc'[s], mem'[s], s)
  <2>1. CASE s = r
    <3>1. pc'[s] = label /\ mem'[s] = m
      BY <1>1, <2>1
    <3>. QED
      BY <2>1, <3>1
  <2>2. CASE s # r
    <3>1. pc'[s] = pc[s] /\ mem'[s] = mem[s]
      BY <1>1, <2>2
    <3>. QED
      BY <3>1 DEF FedInv
  <2>. QED
    BY <2>1, <2>2
<1>3. pc'[r] # "route"
  BY <1>1
<1>. QED
  BY <1>2, <1>3, FedTogether DEF FedInv

\* A job that is over leaves ranks that have read nothing.
LEMMA OverFed ==
  ASSUME NEW how, NEW message, Over(how, message), options \in OptionSets, options' = options,
         FilesDated'
  PROVE  FedInv'
<1>1. \A r \in Ranks : pc'[r] = "off" /\ mem'[r] = FreshMemory(r)
  BY DEF Over
<1>2. \A r \in Ranks : FreshMemory(r)' = FreshMemory(r) /\ FreshMemory(r).epoch \in Nat
  BY DataFrame DEF FreshMemory
<1>3. \A r \in Ranks : Fed(pc[r], mem[r], r)'
  BY <1>1, <1>2 DEF Fed, Stored, AtWork, InStep, Late
<1>4. \E r \in Ranks : pc'[r] # "route"
  BY <1>1, NumRanksAssumption DEF Ranks
<1>. QED
  BY <1>3, <1>4 DEF FedInv, FilesDated

LEMMA InitFed == Init => FedInv
<1>. SUFFICES ASSUME Init PROVE FedInv
  OBVIOUS
<1>1. \A r \in Ranks : pc[r] = "count" /\ mem[r] = FreshMemory(r) /\ files[r] = Nothing
  BY DEF Init
<1>2. \A r \in Ranks : FreshMemory(r).epoch \in Nat
  BY DEF FreshMemory
<1>3. \A r \in Ranks : Fed(pc[r], mem[r], r)
  BY <1>1, <1>2 DEF Fed, Stored, AtWork, InStep, Late
<1>4. \E r \in Ranks : pc[r] # "route"
  BY <1>1, NumRanksAssumption DEF Ranks
<1>. QED
  BY <1>1, <1>3, <1>4 DEF Init, FedInv

LEMMA OtherFed ==
  ASSUME IInv, ReplicaInv, FedInv, SaveFails \/ Crash \/ Restart \/ UNCHANGED vars
  PROVE  FedInv'
<1>1. CASE SaveFails
  BY <1>1, OverFed DEF SaveFails, disk, FedInv, FilesDated
<1>2. CASE Crash
  BY <1>2, OverFed DEF Crash, disk, FedInv, FilesDated
<1>3. CASE Restart
  <2>1. /\ job # "running" /\ UNCHANGED <<options, owners, mem>>
        /\ \A r \in Ranks : pc'[r] = "count" /\ (files'[r] = Nothing \/ files'[r] = files[r])
    BY <1>3 DEF Restart, WriteErrors, IInv, MemoryInv
  <2>2. FilesDated'
    BY <2>1 DEF FedInv, FilesDated
  <2>3. \E r \in Ranks : pc'[r] # "route"
    BY <2>1, NumRanksAssumption DEF Ranks
  <2>4. \A r \in Ranks : mem'[r] = FreshMemory(r) /\ FreshMemory(r).epoch \in Nat
    BY <2>1 DEF FedInv, Fed, ReplicaInv, Unread
  <2>5. \A r \in Ranks : Fed(pc'[r], mem'[r], r)
    BY <2>1, <2>4 DEF Fed, Stored, AtWork, InStep, Late
  <2>. QED
    BY <2>1, <2>2, <2>3, <2>5, FedTogether DEF FedInv
<1>4. CASE UNCHANGED vars
  <2>1. UNCHANGED <<options, owners, mem, pc, files>>
    BY <1>4 DEF vars, disk, history
  <2>. QED
    BY <2>1, FedTogether DEF FedInv, FilesDated
<1>. QED
  BY <1>1, <1>2, <1>3, <1>4

\* What FillBatch adds brings the offsets to the share of one more step.
LEMMA FillAdds ==
  ASSUME options \in OptionSets, NEW x, NEW r \in Ranks, Fed("fill", x, r), x.step < StepsPerEpoch,
         NEW b \in Buckets, Owns(r, b)
  PROVE  x.offset[b] + Amount(b, x.step) = Quota(b, Reached(x.step + 1))
<1>1. /\ x.step \in Nat /\ GlobalCount # 0
      /\ x.offset[b] = Quota(b, Reached(x.step))
  BY DEF Fed, StepsTaken, AtWork, InStep
<1>2. Amount(b, x.step) = Quota(b, Reached(x.step + 1)) - Quota(b, Reached(x.step))
  BY <1>1, StepFacts
<1>3. Reached(x.step) \in Nat /\ Reached(x.step + 1) \in Nat
  <2>1. x.step + 1 \in Nat
    BY <1>1
  <2>. QED
    BY <1>1, <2>1, StepFacts
<1>. DEFINE p == Quota(b, Reached(x.step))
            q == Quota(b, Reached(x.step + 1))
<1>4. p \in Nat /\ q \in Nat
  BY <1>1, <1>3, QuotaFacts
<1>. HIDE DEF p, q
<1>5. p + (q - p) = q
  BY <1>4
<1>. QED
  BY <1>1, <1>2, <1>5 DEF p, q

\* What a rank has in its batch, if it has a share of the step at all: records
\* of its own buckets.
LEMMA BatchFacts ==
  ASSUME options \in OptionSets, NEW r \in Ranks, Fed("fill", mem[r], r),
         mem[r].step < StepsPerEpoch, ~Overflows(r)
  PROVE  /\ LocalBatch(r) = {} <=> HasNoShare(r, mem[r].step)
         /\ \A e \in LocalBatch(r) : e \in Corpus /\ Owns(r, BucketOf(e))
<1>1. ASSUME NEW b \in Buckets, Owns(r, b)
      PROVE  /\ ToSet(Taken(r, b)) = {} <=> Amount(b, mem[r].step) <= 0
             /\ ToSet(Taken(r, b)) \subseteq OfBucket(b)
  <2>. DEFINE s == mem[r].kept[b]
              o == mem[r].offset[b]
              a == Amount(b, mem[r].step)
              t == SubSeq(s, o + 1, o + a)
  <2>1. s \in Seq(OfBucket(b)) /\ Len(s) \in Nat
    BY <1>1, DataFacts, OrdersFacts, LenProperties DEF Fed, Stored, Late, Lists
  <2>2. o \in Nat /\ o + a \in Nat
    <3>1. /\ mem[r].step \in Nat /\ GlobalCount # 0
          /\ o = Quota(b, Reached(mem[r].step))
      BY <1>1 DEF Fed, AtWork, StepsTaken, InStep
    <3>2. Reached(mem[r].step) \in Nat /\ Reached(mem[r].step + 1) \in Nat
      <4>1. mem[r].step + 1 \in Nat
        BY <3>1
      <4>. QED
        BY <3>1, <4>1, StepFacts
    <3>. QED
      BY <1>1, <3>1, <3>2, FillAdds, QuotaFacts
  <2>3. a \in Int
    <3>1. mem[r].step \in Nat /\ GlobalCount # 0
      BY DEF Fed, AtWork
    <3>2. mem[r].step + 1 \in Nat
      BY <3>1
    <3>3. a = Quota(b, Reached(mem[r].step + 1)) - Quota(b, Reached(mem[r].step))
      BY <3>1, StepFacts
    <3>4. Reached(mem[r].step) \in Nat /\ Reached(mem[r].step + 1) \in Nat
      BY <3>1, <3>2, StepFacts
    <3>. HIDE DEF a
    <3>. QED
      BY <3>1, <3>3, <3>4, QuotaFacts
  <2>4. o + a <= Len(s)
    BY <1>1, <2>1, <2>2 DEF Overflows
  <2>5. t = Taken(r, b)
    BY DEF Taken
  <2>. HIDE DEF s, o, a
  <2>6. \A i \in o + 1 .. o + a : s[i] \in OfBucket(b)
    BY <2>1, <2>2, <2>3, <2>4, ElementOfSeq
  <2>7. t \in Seq(OfBucket(b)) /\ Len(t) = IF o + 1 <= o + a THEN (o + a) - (o + 1) + 1 ELSE 0
    BY <2>2, <2>3, <2>6, SubSeqProperties
  <2>. HIDE DEF t
  <2>8. ToSet(t) = {} <=> Len(t) = 0
    <3>1. DOMAIN t = 1 .. Len(t) /\ Len(t) \in Nat
      BY <2>7, LenProperties
    <3>2. ASSUME Len(t) = 0 PROVE ToSet(t) = {}
      <4>1. DOMAIN t = {}
        BY <3>1, <3>2
      <4>. QED
        BY <4>1 DEF ToSet
    <3>3. ASSUME Len(t) # 0 PROVE ToSet(t) # {}
      <4>1. 1 \in DOMAIN t
        BY <3>1, <3>3
      <4>. QED
        BY <4>1 DEF ToSet
    <3>. QED
      BY <3>2, <3>3
  <2>9. Len(t) = 0 <=> a <= 0
    BY <2>2, <2>3, <2>7
  <2>10. ToSet(t) \subseteq OfBucket(b)
    <3>1. DOMAIN t = 1 .. Len(t)
      BY <2>7, LenProperties
    <3>2. \A i \in 1 .. Len(t) : t[i] \in OfBucket(b)
      BY <2>7, ElementOfSeq
    <3>. QED
      BY <3>1, <3>2 DEF ToSet
  <2>. QED
    BY <2>5, <2>8, <2>9, <2>10 DEF a
<1>2. LocalBatch(r) = {} <=> \A b \in Buckets : Owns(r, b) => ToSet(Taken(r, b)) = {}
  BY DEF LocalBatch
<1>3. ASSUME NEW e \in LocalBatch(r) PROVE e \in Corpus /\ Owns(r, BucketOf(e))
  <2>1. PICK b \in Buckets : Owns(r, b) /\ e \in ToSet(Taken(r, b))
    BY DEF LocalBatch
  <2>2. e \in OfBucket(b)
    BY <1>1, <2>1
  <2>. QED
    BY <2>1, <2>2 DEF OfBucket
<1>. QED
  BY <1>1, <1>2, <1>3 DEF HasNoShare

\* What a rank does alone keeps the invariant: to shuffle, to fill a batch.
LEMMA AloneFed ==
  ASSUME IInv, FedInv, NEW r \in Ranks, Alone(r) \/ CheckpointFails(r)
  PROVE  FedInv'
<1>0. /\ DOMAIN mem = Ranks
      /\ mem = [s \in Ranks |-> mem[s]]
      /\ Fields \subseteq DOMAIN mem[r]
      /\ options \in OptionSets /\ FilesDated
      /\ Fed(pc[r], mem[r], r)
  BY DEF IInv, MemoryInv, FedInv, FilesDated
<1>00. ASSUME NEW message, AbortMpi(message) PROVE FedInv'
  BY <1>0, <1>00, OverFed DEF AbortMpi, disk, history, FilesDated
<1>1. CASE CountBuckets(r)
  <2>1. CASE \E message : AbortMpi(message)
    BY <2>1, <1>00
  <2>2. CASE Goes(r, "census") /\ UNCHANGED mem /\ Local
    <3>1. mem' = [mem EXCEPT ![r] = mem[r]] /\ pc[r] = "count"
      BY <1>0, <1>1, <2>2 DEF CountBuckets, At
    <3>2. Fed("census", mem[r], r)
      BY <1>0, <3>1 DEF Fed, Unread, Stored, AtWork, Late, InStep
    <3>. QED
      BY <1>0, <2>2, <3>1, <3>2, FedAlone DEF Goes, Local, disk, history, FilesDated
  <2>. QED
    BY <1>1, <2>1, <2>2 DEF CountBuckets
<1>2. CASE LoadCheckpoint(r)
  <2>1. PICK m : /\ mem' = [mem EXCEPT ![r] = m]
                 /\ m.epoch \in Nat /\ m.kept = mem[r].kept
    <3>1. CASE resuming /\ files[r] = Nothing
      <4>. DEFINE m == [mem[r] EXCEPT !.ok = FALSE]
      <4>1. mem' = [mem EXCEPT ![r] = m] /\ m.epoch = mem[r].epoch /\ m.kept = mem[r].kept
        BY <1>0, <1>2, <3>1 DEF LoadCheckpoint, Fields
      <4>. QED
        BY <1>0, <4>1 DEF Fed
    <3>2. CASE resuming /\ files[r] # Nothing
      <4>. DEFINE m == [mem[r] EXCEPT !.epoch = files[r].epoch, !.model = files[r].model]
      <4>1. mem' = [mem EXCEPT ![r] = m] /\ m.epoch = files[r].epoch /\ m.kept = mem[r].kept
        BY <1>0, <1>2, <3>2 DEF LoadCheckpoint, Fields
      <4>. QED
        BY <1>0, <3>2, <4>1 DEF FilesDated
    <3>3. CASE ~resuming
      <4>. DEFINE m == [mem[r] EXCEPT !.model = InitialModel(r)]
      <4>1. mem' = [mem EXCEPT ![r] = m] /\ m.epoch = mem[r].epoch /\ m.kept = mem[r].kept
        BY <1>0, <1>2, <3>3 DEF LoadCheckpoint, Fields
      <4>. QED
        BY <1>0, <4>1 DEF Fed
    <3>. QED
      BY <3>1, <3>2, <3>3
  <2>. DEFINE label == IF resuming THEN "agree" ELSE "epoch"
  <2>2. /\ pc[r] = "load" /\ Local
        /\ pc' = [pc EXCEPT ![r] = label]
    BY <1>2 DEF LoadCheckpoint, At, Goes
  <2>3. label \in {"agree", "epoch"}
    OBVIOUS
  <2>. HIDE DEF label
  <2>4. Fed(label, m, r)
    BY <1>0, <2>1, <2>2, <2>3 DEF Fed, Unread, Stored, AtWork, Late, InStep
  <2>. QED
    BY <1>0, <2>1, <2>2, <2>3, <2>4, FedAlone DEF Local, disk, history, FilesDated
<1>3. CASE BeginEpoch(r)
  <2>. DEFINE x == mem[r]
              shuffled == [b \in Buckets |->
                             IF Owns(r, b) THEN Shuffled(x.kept[b], x.epoch, b) ELSE x.kept[b]]
              m == [x EXCEPT !.kept = shuffled, !.offset = [b \in Buckets |-> 0], !.step = 0]
  <2>1. /\ mem' = [mem EXCEPT ![r] = m]
        /\ pc[r] = "epoch" /\ mem[r].epoch < Epochs /\ Local
        /\ pc' = [pc EXCEPT ![r] = "fill"]
    BY <1>0, <1>3 DEF BeginEpoch, At, Goes
  <2>2. /\ m.epoch = x.epoch /\ m.step = 0
        /\ m.kept = shuffled /\ m.offset = [b \in Buckets |-> 0]
    BY <1>0 DEF Fields
  <2>3. Fed("epoch", x, r)
    BY <1>0, <2>1
  <2>. HIDE DEF m
  <2>4. ASSUME NEW b \in Buckets, Owns(r, b)
        PROVE  m.kept[b] \in Orders(OfBucket(b)) /\ m.offset[b] = Quota(b, Reached(0))
    <3>1. x.kept[b] \in Orders(OfBucket(b)) /\ GlobalCount # 0 /\ x.epoch \in Nat
      BY <2>3, <2>4 DEF Fed, Stored, Late
    <3>2. x.epoch \in 0 .. Epochs - 1
      BY <2>1, <3>1, SizesAssumption
    <3>3. OfBucket(b) = {e \in CorpusOf(options) : BucketOf(e) = b}
      BY DEF OfBucket, Corpus
    <3>4. Shuffled(x.kept[b], x.epoch, b) \in Orders(OfBucket(b))
      BY <1>0, <3>1, <3>2, <3>3, ShuffleAssumption
    <3>6. Quota(b, Reached(0)) = 0
      BY <1>0, <3>1, StepFacts, QuotaFacts
    <3>. QED
      BY <2>2, <2>4, <3>4, <3>6
  <2>5. \A b \in Buckets : ~Owns(r, b) => m.kept[b] = <<>>
    BY <2>2, <2>3 DEF Fed, Stored, Late
  <2>6. Fed("fill", m, r)
    <3>1. StepsTaken("fill", m) = 0
      BY <2>2 DEF StepsTaken, InStep
    <3>2. StepsPerEpoch \in Nat
      BY <1>0, StepFacts
    <3>3. m.epoch \in Nat /\ GlobalCount # 0 /\ EveryRecordIsOwned
      BY <2>2, <2>3 DEF Fed, Stored, Late
    <3>. QED
      BY <2>2, <2>4, <2>5, <3>1, <3>2, <3>3 DEF Fed, Unread
  <2>. QED
    BY <1>0, <2>1, <2>6, FedAlone DEF Local, disk, history, FilesDated
<1>4. CASE FillBatch(r)
  <2>1. CASE \E message : AbortMpi(message)
    BY <2>1, <1>00
  <2>2. CASE ~Overflows(r)
    <3>. DEFINE x == mem[r]
                offset == [b \in Buckets |->
                             IF Owns(r, b) THEN x.offset[b] + Amount(b, x.step) ELSE x.offset[b]]
                m == [x EXCEPT !.batch = LocalBatch(r), !.offset = offset]
    <3>1. /\ mem' = [mem EXCEPT ![r] = m]
          /\ pc[r] = "fill" /\ x.step < StepsPerEpoch /\ Local
          /\ pc' = [pc EXCEPT ![r] = "size"]
      BY <1>0, <1>4, <2>2 DEF FillBatch, At, Goes
    <3>2. /\ m.epoch = x.epoch /\ m.step = x.step /\ m.kept = x.kept
          /\ m.offset = offset /\ m.batch = LocalBatch(r)
      BY <1>0 DEF Fields
    <3>3. Fed("fill", x, r)
      BY <1>0, <3>1
    <3>. HIDE DEF m
    <3>4. ASSUME NEW b \in Buckets, Owns(r, b) PROVE m.offset[b] = Quota(b, Reached(x.step + 1))
      BY <1>0, <3>1, <3>2, <3>3, <3>4, FillAdds
    <3>5. m.batch = {} <=> HasNoShare(r, m.step)
      BY <1>0, <2>2, <3>1, <3>2, <3>3, BatchFacts
    <3>. HIDE DEF x
    <3>6. Fed("size", m, r)
      <4>1. StepsTaken("size", m) = x.step + 1
        BY <3>2 DEF StepsTaken, InStep
      <4>2. StepsPerEpoch \in Nat /\ x.step \in Nat
        BY <1>0, <3>3, StepFacts DEF Fed, AtWork
      <4>3. x.step + 1 <= StepsPerEpoch
        BY <3>1, <4>2
      <4>4. /\ m.epoch \in Nat /\ GlobalCount # 0
            /\ EveryRecordIsOwned
            /\ \A b \in Buckets :
                  IF Owns(r, b) THEN m.kept[b] \in Orders(OfBucket(b)) ELSE m.kept[b] = <<>>
        BY <3>2, <3>3 DEF Fed, Stored, Late
      <4>. QED
        BY <3>2, <3>4, <3>5, <4>1, <4>2, <4>3, <4>4 DEF Fed, Unread
    <3>. QED
      BY <1>0, <3>1, <3>6, FedAlone DEF Local, disk, history, FilesDated
  <2>. QED
    BY <1>4, <2>1, <2>2 DEF FillBatch
<1>5. CASE EndEpoch(r)
  <2>1. /\ mem' = [mem EXCEPT ![r] = mem[r]]
        /\ pc[r] = "fill" /\ ~(mem[r].step < StepsPerEpoch) /\ Local
        /\ pc' = [pc EXCEPT ![r] = "report"]
    BY <1>0, <1>5 DEF EndEpoch, At, Goes
  <2>. DEFINE x == mem[r]
  <2>2. Fed("fill", x, r) /\ StepsPerEpoch \in Nat
    BY <1>0, <2>1, StepFacts
  <2>. HIDE DEF x
  <2>3. x.step = StepsPerEpoch
    <3>1. x.step \in Nat /\ x.step <= StepsPerEpoch
      BY <2>2 DEF Fed, AtWork, StepsTaken, InStep
    <3>. QED
      BY <2>1, <2>2, <3>1 DEF x
  <2>4. Fed("report", x, r)
    BY <2>2, <2>3 DEF Fed, Unread, Stored, AtWork, Late, InStep, StepsTaken
  <2>. QED
    BY <1>0, <2>1, <2>4, FedAlone DEF Local, disk, history, FilesDated, x
<1>6. CASE SaveCheckpoint(r)
  <2>1. /\ mem' = [mem EXCEPT ![r] = mem[r]]
        /\ pc[r] = "save"
        /\ pc' = [pc EXCEPT ![r] = "saved"]
        /\ files' = [files EXCEPT ![r] = [epoch |-> mem[r].epoch + 1, model |-> mem[r].model]]
        /\ UNCHANGED <<options, owners>>
    BY <1>0, <1>6 DEF SaveCheckpoint, At, Goes, history, EpochToResume
  <2>2. Fed("saved", mem[r], r) /\ mem[r].epoch \in Nat
    BY <1>0, <2>1 DEF Fed, Unread, Stored, AtWork, Late, InStep
  <2>3. FilesDated'
    <3>. DEFINE f == [epoch |-> mem[r].epoch + 1, model |-> mem[r].model]
    <3>1. f.epoch \in Nat
      BY <2>2
    <3>2. ASSUME NEW s \in Ranks PROVE files'[s] = files[s] \/ files'[s] = f
      BY <2>1
    <3>. HIDE DEF f
    <3>. QED
      BY <1>0, <3>1, <3>2 DEF FilesDated
  <2>. QED
    BY <2>1, <2>2, <2>3, FedAlone
<1>7. CASE CheckpointFails(r)
  <2>. DEFINE m == [mem[r] EXCEPT !.ok = FALSE]
  <2>1. /\ mem' = [mem EXCEPT ![r] = m]
        /\ pc[r] = "save"
        /\ pc' = [pc EXCEPT ![r] = "saved"]
        /\ UNCHANGED <<options, owners, files>>
    BY <1>0, <1>7 DEF CheckpointFails, At, Goes, disk
  <2>2. m.epoch = mem[r].epoch /\ m.kept = mem[r].kept
    BY <1>0 DEF Fields
  <2>. HIDE DEF m
  <2>3. Fed("saved", m, r)
    BY <1>0, <2>1, <2>2 DEF Fed, Unread, Stored, AtWork, Late, InStep
  <2>. QED
    BY <1>0, <2>1, <2>3, FedAlone DEF FilesDated
<1>8. CASE Flush(r)
  <2>. DEFINE m == [mem[r] EXCEPT !.model.rows =
                     [x \in Rows |-> IF Owns(r, x[1]) THEN FlushMomentum(@[x], mem[r].model.number)
                                     ELSE @[x]]]
  <2>1. /\ mem' = [mem EXCEPT ![r] = m]
        /\ pc[r] = "epoch" /\ Local
        /\ pc' = [pc EXCEPT ![r] = "gather"]
    BY <1>0, <1>8 DEF Flush, At, Goes
  <2>2. m.epoch = mem[r].epoch /\ m.kept = mem[r].kept
    BY <1>0 DEF Fields
  <2>. HIDE DEF m
  <2>3. Fed("gather", m, r)
    BY <1>0, <2>1, <2>2 DEF Fed, Unread, Stored, AtWork, Late, InStep
  <2>. QED
    BY <1>0, <2>1, <2>3, FedAlone DEF Local, disk, history, FilesDated
<1>. QED
  BY <1>1, <1>2, <1>3, <1>4, <1>5, <1>6, <1>7, <1>8 DEF Alone

\* What a rank sends in a round, and what is left of its shard.
LEMMA ChunkFacts ==
  ASSUME NEW r \in Ranks, Lists(mem[r].shard, ToSet(mem[r].shard))
  PROVE  LET s == mem[r].shard
             c == Chunk(r)
             z == SubSeq(s, Len(c) + 1, Len(s))
         IN  /\ Lists(c, ToSet(c)) /\ Lists(z, ToSet(z))
             /\ ToSet(c) \subseteq ToSet(s) /\ ToSet(z) = ToSet(s) \ ToSet(c)
             /\ Len(s) \in Nat
             /\ Len(z) = IF Len(s) <= RouteRecords THEN 0 ELSE Len(s) - RouteRecords
<1>. DEFINE s == mem[r].shard
            k == Min({RouteRecords, Len(s)})
<1>1. Len(s) \in Nat /\ RouteRecords \in Nat
  BY LenProperties, SizesAssumption DEF Lists
<1>2. k = IF RouteRecords <= Len(s) THEN RouteRecords ELSE Len(s)
  BY <1>1 DEF Min
<1>3. k \in 0 .. Len(s) /\ Len(s) - k = IF Len(s) <= RouteRecords THEN 0 ELSE Len(s) - RouteRecords
  BY <1>1, <1>2
<1>4. Chunk(r) = SubSeq(s, 1, k)
  BY DEF Chunk
<1>5. Lists(s, ToSet(s))
  OBVIOUS
<1>. DEFINE a == SubSeq(s, 1, k)
            z == SubSeq(s, k + 1, Len(s))
<1>. HIDE DEF s, k
<1>6. /\ Len(a) = k /\ Len(z) = Len(s) - k
      /\ Lists(a, ToSet(a)) /\ Lists(z, ToSet(z))
      /\ ToSet(a) \subseteq ToSet(s) /\ ToSet(z) = ToSet(s) \ ToSet(a)
  BY <1>3, <1>5, ListsSplit
<1>7. Chunk(r) = a /\ SubSeq(s, Len(Chunk(r)) + 1, Len(s)) = z
  BY <1>4, <1>6
<1>. HIDE DEF a, z
<1>. QED
  BY <1>1, <1>3, <1>6, <1>7 DEF s

\* Of the records that arrive, each of the bucket is received once.
LEMMA ReceivedLists ==
  ASSUME NEW S, Lists(Arriving, S), NEW b
  PROVE  Lists(Received(b), InBucket(S, b))
<1>. DEFINE s == Arriving
            g == CHOOSE f : Takes(f, s, b)
<1>1. Len(s) \in Nat
  BY LenProperties DEF Lists
<1>2. Takes(g, s, b)
  BY <1>1, TakesExist
<1>3. Received(b) = g[Len(s)]
  BY DEF Received, Takes
<1>. HIDE DEF g, s
<1>4. Lists(s, S)
  BY DEF s
<1>5. Lists(g[Len(s)], InBucket(S, b))
  BY <1>2, <1>4, TakesLists
<1>. QED
  BY <1>3, <1>5

\* The memories after a round.
AfterRound(m) ==
    \A r \in Ranks :
        /\ m[r].shard = SubSeq(mem[r].shard, Len(Chunk(r)) + 1, Len(mem[r].shard))
        /\ m[r].kept = [b \in Buckets |->
              IF Owns(r, b) THEN mem[r].kept[b] \o Received(b) ELSE mem[r].kept[b]]
        /\ m[r].rounds = mem[r].rounds - 1

\* A round moves records from shards to owners and loses none; when it was the
\* last one, the shards are empty.
LEMMA RoundKeeps ==
  ASSUME Routed(mem), NEW m, AfterRound(m)
  PROVE  Routed(m) /\ ((\A r \in Ranks : mem[r].rounds = 1) => Pooled(Shards(m)) = {})
<1>. DEFINE s == Shards(mem)
            z == Shards(m)
            c == [r \in Ranks |-> Chunk(r)]
<1>1. Apart(s) /\ Pooled(s) \subseteq Corpus
  BY DEF Routed
<1>2. ASSUME NEW r \in Ranks
      PROVE  /\ Lists(c[r], ToSet(c[r])) /\ Lists(z[r], ToSet(z[r]))
             /\ ToSet(c[r]) \subseteq ToSet(s[r]) /\ ToSet(z[r]) = ToSet(s[r]) \ ToSet(c[r])
             /\ Len(s[r]) \in Nat
             /\ Len(z[r]) = IF Len(s[r]) <= RouteRecords THEN 0 ELSE Len(s[r]) - RouteRecords
  <2>1. s[r] = mem[r].shard /\ c[r] = Chunk(r)
        /\ z[r] = SubSeq(mem[r].shard, Len(Chunk(r)) + 1, Len(mem[r].shard))
    BY DEF Shards, AfterRound
  <2>2. Lists(mem[r].shard, ToSet(mem[r].shard))
    BY <1>1, <2>1 DEF Apart
  <2>. HIDE DEF s, c, z
  <2>. QED
    BY <2>1, <2>2, ChunkFacts
<1>3. Arriving = FlattenSeq([n \in 1 .. NumRanks |-> c[n - 1]])
  <2>1. \A n \in 1 .. NumRanks : n - 1 \in Ranks
    BY NumRanksAssumption DEF Ranks
  <2>. QED
    BY <2>1 DEF Arriving
<1>4. \A r \in Ranks : z[r] = m[r].shard /\ s[r] = mem[r].shard
  BY DEF Shards
<1>. HIDE DEF s, c, z
<1>5. Apart(c) /\ Apart(z)
  BY <1>1, <1>2 DEF Apart
<1>6. Pooled(c) \subseteq Pooled(s) /\ Pooled(z) = Pooled(s) \ Pooled(c)
  <2>1. Pooled(c) \subseteq Pooled(s)
    BY <1>2 DEF Pooled
  <2>2. ASSUME NEW r \in Ranks, NEW x \in ToSet(z[r]) PROVE x \in Pooled(s) /\ x \notin Pooled(c)
    <3>1. x \in ToSet(s[r]) /\ x \notin ToSet(c[r])
      BY <1>2
    <3>2. ASSUME NEW t \in Ranks, t # r PROVE x \notin ToSet(c[t])
      <4>1. x \notin ToSet(s[t])
        BY <1>1, <3>1, <3>2 DEF Apart
      <4>. QED
        BY <1>2, <4>1
    <3>. QED
      BY <3>1, <3>2 DEF Pooled
  <2>3. ASSUME NEW x \in Pooled(s), x \notin Pooled(c) PROVE x \in Pooled(z)
    BY <1>2, <2>3 DEF Pooled
  <2>4. \A x \in Pooled(z) : \E r \in Ranks : x \in ToSet(z[r])
    BY DEF Pooled
  <2>5. Pooled(z) \subseteq Pooled(s) \ Pooled(c)
    BY <2>2, <2>4
  <2>6. Pooled(s) \ Pooled(c) \subseteq Pooled(z)
    BY <2>3
  <2>. QED
    BY <2>1, <2>5, <2>6
<1>7. Lists(Arriving, Pooled(c))
  BY <1>3, <1>5, PooledLists
<1>8. ASSUME NEW r \in Ranks, NEW b \in Buckets, Owns(r, b)
      PROVE  Lists(m[r].kept[b], OfBucket(b) \ Pooled(z))
  <2>. DEFINE new == InBucket(Pooled(c), b)
              old == OfBucket(b) \ Pooled(s)
  <2>1. m[r].kept[b] = mem[r].kept[b] \o Received(b)
    BY <1>8 DEF AfterRound
  <2>2. Lists(mem[r].kept[b], old)
    BY <1>8 DEF Routed, s
  <2>3. Lists(Received(b), new)
    BY <1>7, ReceivedLists
  <2>4. old \cap new = {} /\ old \cup new = OfBucket(b) \ Pooled(z)
    <3>1. OfBucket(b) = {x \in Corpus : BucketOf(x) = b}
      BY DEF OfBucket
    <3>. QED
      BY <1>1, <1>6, <3>1 DEF InBucket
  <2>. HIDE DEF new, old
  <2>5. Lists(mem[r].kept[b] \o Received(b), old \cup new)
    BY <2>2, <2>3, <2>4, ListsConcat
  <2>. QED
    BY <2>1, <2>4, <2>5
<1>9. ASSUME NEW r \in Ranks
      PROVE  /\ m[r].rounds \in Int
             /\ Len(z[r]) <= m[r].rounds * RouteRecords \/ Len(z[r]) = 0
             /\ mem[r].rounds = 1 => Len(z[r]) = 0
  <2>. DEFINE n == mem[r].rounds
              d == RouteRecords
              l == Len(s[r])
  <2>1. n \in Int /\ m[r].rounds = n - 1 /\ d \in Nat /\ l \in Nat /\ (l <= n * d \/ l = 0)
    BY <1>2, <1>4, SizesAssumption DEF Routed, AfterRound
  <2>2. Len(z[r]) = IF l <= d THEN 0 ELSE l - d
    BY <1>2
  <2>. HIDE DEF n, d, l
  <2>3. (n - 1) * d = n * d - d /\ 1 * d = d
    BY <2>1
  <2>4. n * d \in Int
    BY <2>1
  <2>5. Len(z[r]) <= (n - 1) * d \/ Len(z[r]) = 0
    BY <2>1, <2>2, <2>3, <2>4
  <2>6. n = 1 => Len(z[r]) = 0
    BY <2>1, <2>2, <2>3
  <2>. QED
    BY <2>1, <2>5, <2>6 DEF n, d
<1>10. Routed(m)
  <2>1. \A r \in Ranks : \A b \in Buckets : ~Owns(r, b) => m[r].kept[b] = <<>>
    BY DEF Routed, AfterRound
  <2>. QED
    BY <1>1, <1>4, <1>5, <1>6, <1>8, <1>9, <2>1 DEF Routed, z
<1>11. ASSUME \A r \in Ranks : mem[r].rounds = 1 PROVE Pooled(z) = {}
  <2>1. ASSUME NEW r \in Ranks PROVE ToSet(z[r]) = {}
    <3>1. Len(z[r]) = 0 /\ Lists(z[r], ToSet(z[r]))
      BY <1>2, <1>9, <1>11
    <3>. QED
      BY <3>1 DEF Lists
  <2>. QED
    BY <2>1 DEF Pooled
<1>. QED
  BY <1>10, <1>11 DEF z

\* Before the first round every record is in its shard.
LEMMA FirstRound ==
  ASSUME options \in OptionSets, NEW m,
         \A r \in Ranks : /\ m[r].shard = options.shards[r]
                          /\ m[r].kept = [b \in Buckets |-> <<>>]
                          /\ m[r].rounds \in Nat
                          /\ Len(m[r].shard) <= m[r].rounds * RouteRecords
  PROVE  Routed(m)
<1>1. Apart(options.shards) /\ Corpus = Pooled(options.shards)
  BY DataFacts
<1>2. \A r \in Ranks : Shards(m)[r] = options.shards[r]
  BY DEF Shards
<1>3. Apart(Shards(m)) /\ Corpus = Pooled(Shards(m))
  BY <1>1, <1>2 DEF Apart, Pooled
<1>4. ASSUME NEW r \in Ranks, NEW b \in Buckets
      PROVE  Lists(m[r].kept[b], OfBucket(b) \ Pooled(Shards(m)))
  <2>1. OfBucket(b) \ Pooled(Shards(m)) = {}
    BY <1>3 DEF OfBucket
  <2>. QED
    BY <2>1, ListsNothing
<1>5. \A r \in Ranks : m[r].rounds \in Int
  OBVIOUS
<1>. QED
  BY <1>3, <1>4, <1>5 DEF Routed

\* A collective call after which the ranks stand elsewhere with their data.
LEMMA CallFed ==
  ASSUME FedInv, NEW label, Meet(label), UNCHANGED <<options, owners, files>>,
         \A r \in Ranks : pc'[r] # "route" /\ Fed(pc'[r], mem'[r], r)
  PROVE  FedInv'
<1>1. \E r \in Ranks : pc'[r] # "route"
  BY NumRanksAssumption DEF Ranks
<1>2. FilesDated' /\ options \in OptionSets
  BY DEF FedInv, FilesDated
<1>. QED
  BY <1>1, <1>2, FedTogether

\* The records kept, by rank, bucket and place; a record whose bucket has no
\* owner would leave too few of them.
KeptSlots == {x \in Ranks \X Buckets \X (1 .. GlobalCount) : x[3] <= Len(mem[x[1]].kept[x[2]])}
CountsMatch == Cardinality(KeptSlots) = GlobalCount

\* When the count is right, every record has an owner.
LEMMA TallyFinds ==
  ASSUME options \in OptionSets, \A r \in Ranks : Fed("tally", mem[r], r), CountsMatch
  PROVE  EveryRecordIsOwned
<1>. SUFFICES ASSUME NEW z \in Corpus, BucketOf(z) \notin Buckets \/ owners[BucketOf(z)] \notin Ranks
              PROVE  FALSE
  BY DEF EveryRecordIsOwned
<1>. DEFINE T == Corpus \ {z}
            kept(x) == mem[x[1]].kept[x[2]]
            f == [x \in KeptSlots |-> kept(x)[x[3]]]
<1>1. ASSUME NEW x \in KeptSlots
      PROVE  /\ x[1] \in Ranks /\ x[2] \in Buckets /\ x = <<x[1], x[2], x[3]>>
             /\ owners[x[2]] = x[1] /\ Lists(kept(x), OfBucket(x[2]))
             /\ x[3] \in 1 .. Len(kept(x))
  <2>1. /\ x[1] \in Ranks /\ x[2] \in Buckets /\ x[3] \in 1 .. GlobalCount
        /\ x[3] <= Len(kept(x)) /\ x = <<x[1], x[2], x[3]>>
    BY DEF KeptSlots
  <2>2. IF Owns(x[1], x[2]) THEN kept(x) \in Orders(OfBucket(x[2])) ELSE kept(x) = <<>>
    BY <2>1 DEF Fed, Stored
  <2>3. Owns(x[1], x[2])
    <3>. SUFFICES ASSUME kept(x) = <<>> PROVE FALSE
      BY <2>2
    <3>1. Len(kept(x)) = 0
      BY EmptyIsSeq
    <3>. HIDE DEF kept
    <3>. QED
      BY <2>1, <3>1
  <2>4. Lists(kept(x), OfBucket(x[2]))
    BY <2>2, <2>3, DataFacts, OrdersFacts
  <2>5. Len(kept(x)) \in Nat
    BY <2>4, LenProperties DEF Lists
  <2>. HIDE DEF kept
  <2>. QED
    BY <2>1, <2>3, <2>4, <2>5 DEF Owns
<1>2. \A x \in KeptSlots : f[x] = kept(x)[x[3]]
  OBVIOUS
<1>. HIDE DEF kept, f
<1>3. ASSUME NEW x \in KeptSlots
      PROVE  f[x] \in OfBucket(x[2]) /\ BucketOf(f[x]) = x[2] /\ f[x] \in T
  <2>1. f[x] \in OfBucket(x[2])
    BY <1>1, <1>2, ElementOfSeq DEF Lists
  <2>2. BucketOf(f[x]) = x[2] /\ f[x] \in Corpus
    BY <2>1 DEF OfBucket
  <2>3. f[x] # z
    BY <1>1, <2>2
  <2>. QED
    BY <2>1, <2>2, <2>3
<1>4. f \in [KeptSlots -> T]
  BY <1>3 DEF f
<1>5. ASSUME NEW x \in KeptSlots, NEW y \in KeptSlots, f[x] = f[y] PROVE x = y
  <2>1. x[2] = y[2]
    BY <1>3, <1>5
  <2>2. x[1] = y[1]
    BY <1>1, <2>1
  <2>3. kept(x) = kept(y)
    BY <2>1, <2>2 DEF kept
  <2>4. x[3] = y[3]
    BY <1>1, <1>2, <1>5, <2>3 DEF Lists
  <2>. QED
    BY <1>1, <2>1, <2>2, <2>4
<1>6. f \in Injection(KeptSlots, T)
  BY <1>4, <1>5 DEF Injection, IsInjective
<1>7. IsFiniteSet(Corpus) /\ T \in SUBSET Corpus
  BY DataFacts
<1>. HIDE DEF T
<1>8. IsFiniteSet(T) /\ Cardinality(T) <= Cardinality(Corpus) /\ Cardinality(T) # Cardinality(Corpus)
  <2>1. T # Corpus
    BY <1>7 DEF T
  <2>. QED
    BY <1>7, <2>1, FS_Subset
<1>9. Cardinality(KeptSlots) <= Cardinality(T)
  BY <1>6, <1>8, FS_Injection
<1>10. Cardinality(T) \in Nat /\ Cardinality(Corpus) \in Nat
  BY <1>7, <1>8, FS_CardinalityType
<1>. QED
  BY <1>8, <1>9, <1>10 DEF CountsMatch, GlobalCount

\* The collective calls keep the invariant: the rounds of the routing, the
\* count, the steps.
LEMMA TogetherFed ==
  ASSUME IInv, FedInv, Together
  PROVE  FedInv'
<1>0. /\ options \in OptionSets /\ FilesDated
      /\ \A r \in Ranks : Fields \subseteq DOMAIN mem[r] /\ Fed(pc[r], mem[r], r)
  BY DEF IInv, MemoryInv, FedInv, FilesDated
<1>00. ASSUME NEW message, AbortMpi(message) PROVE FedInv'
  BY <1>0, <1>00, OverFed DEF AbortMpi, disk, history, FilesDated
<1>000. 0 \in Ranks
  BY NumRanksAssumption DEF Ranks
<1>1. CASE Census
  <2>1. CASE AbortMpi("training set is empty")
    BY <2>1, <1>00
  <2>2. CASE GlobalCount # 0 /\ AllGo("rounds") /\ UNCHANGED <<mem, files, options>>
    <3>1. \A r \in Ranks : pc[r] = "census" /\ pc'[r] = "rounds" /\ mem'[r] = mem[r]
      BY <1>1, <2>2 DEF Census, Meet, AllGo
    <3>2. \A r \in Ranks : mem[r] = FreshMemory(r) /\ FreshMemory(r).epoch \in Nat
      BY <1>0, <3>1 DEF Fed, Unread
    <3>3. \A r \in Ranks : mem'[r] = FreshMemory(r)' /\ mem'[r].epoch \in Nat
      BY <2>2, <3>1, <3>2, DataFrame
    <3>4. GlobalCount' # 0
      BY <2>2, DataFrame
    <3>5. \A r \in Ranks : Fed(pc[r], mem[r], r)'
      BY <3>1, <3>3, <3>4 DEF Fed, Stored, AtWork, InStep, Late
    <3>. QED
      BY <1>0, <1>000, <2>2, <3>1, <3>5 DEF FedInv, FilesDated
  <2>. QED
    BY <1>1, <2>1, <2>2 DEF Census, disk, history
<1>2. CASE AgreeRounds
  <2>1. /\ \A r \in Ranks : pc[r] = "rounds" /\ pc'[r] = "route"
        /\ UNCHANGED <<options, owners, files>>
        /\ mem' = [r \in Ranks |-> [mem[r] EXCEPT !.rounds = MaxRounds(r)]]
    BY <1>2 DEF AgreeRounds, Meet, AllGo, Local, disk, history
  <2>2. \A r \in Ranks : /\ mem'[r].epoch = mem[r].epoch /\ mem'[r].kept = mem[r].kept
                         /\ mem'[r].shard = mem[r].shard /\ mem'[r].rounds = MaxRounds(r)
    BY <1>0, <2>1 DEF Fields
  <2>3. \A r \in Ranks : Fed("route", mem'[r], r)
    BY <1>0, <2>1, <2>2 DEF Fed, Unread, Stored, AtWork, InStep, Late
  <2>4. \A r \in Ranks : /\ mem[r].shard = options.shards[r]
                         /\ mem[r].kept = [b \in Buckets |-> <<>>]
    <3>1. \A r \in Ranks : mem[r] = FreshMemory(r)
      BY <1>0, <2>1 DEF Fed, Unread
    <3>2. \A r \in Ranks : /\ FreshMemory(r).shard = options.shards[r]
                           /\ FreshMemory(r).kept = [b \in Buckets |-> <<>>]
      BY DEF FreshMemory
    <3>. QED
      BY <3>1, <3>2
  <2>5. \A r \in Ranks : Len(mem[r].shard) \in Nat
    BY <1>0, <2>4, DataFacts, LenProperties DEF Apart, Lists
  <2>6. \A r \in Ranks : MaxRounds(r) \in Nat /\ Len(mem[r].shard) <= MaxRounds(r) * RouteRecords
    BY <2>5, RoundsSuffice
  <2>. DEFINE m == mem'
  <2>7. \A r \in Ranks : /\ m[r].shard = options.shards[r]
                         /\ m[r].kept = [b \in Buckets |-> <<>>]
                         /\ m[r].rounds \in Nat
                         /\ Len(m[r].shard) <= m[r].rounds * RouteRecords
    BY <2>2, <2>4, <2>6
  <2>. HIDE DEF m
  <2>8. Routed(m)
    BY <1>0, <2>7, FirstRound
  <2>. QED
    BY <1>0, <2>1, <2>3, <2>8, FedTogether DEF FilesDated, m
<1>3. CASE RouteRound
  <2>1. /\ \A r \in Ranks : pc[r] = "route" /\ mem[r].rounds = mem[0].rounds
        /\ AllGo(IF mem[0].rounds = 1 THEN "tally" ELSE "route")
        /\ UNCHANGED <<options, owners, files>>
        /\ mem' = [r \in Ranks |->
             [mem[r] EXCEPT
                !.shard = SubSeq(mem[r].shard, Len(Chunk(r)) + 1, Len(mem[r].shard)),
                !.kept = [b \in Buckets |->
                    IF Owns(r, b) THEN mem[r].kept[b] \o Received(b) ELSE mem[r].kept[b]],
                !.rounds = mem[r].rounds - 1]]
    BY <1>0, <1>3 DEF RouteRound, Meet, Local, disk, history, Fields
  <2>. DEFINE m == mem'
  <2>2. AfterRound(m) /\ \A r \in Ranks : m[r].epoch = mem[r].epoch
    BY <1>0, <2>1 DEF AfterRound, Fields
  <2>. HIDE DEF m
  <2>3. Routed(mem)
    BY <2>1 DEF FedInv
  <2>4. Routed(m) /\ ((\A r \in Ranks : mem[r].rounds = 1) => Pooled(Shards(m)) = {})
    BY <2>2, <2>3, RoundKeeps
  <2>5. \A r \in Ranks : m[r].epoch \in Nat /\ GlobalCount # 0
    BY <1>0, <2>1, <2>2 DEF Fed
  <2>6. CASE mem[0].rounds = 1
    <3>1. \A r \in Ranks : pc'[r] = "tally"
      BY <2>1, <2>6 DEF AllGo
    <3>2. Pooled(Shards(m)) = {}
      BY <2>1, <2>4, <2>6
    <3>3. ASSUME NEW r \in Ranks, NEW b \in Buckets, Owns(r, b)
          PROVE  m[r].kept[b] \in Orders(OfBucket(b))
      <4>1. Lists(m[r].kept[b], OfBucket(b) \ {})
        BY <2>4, <3>2, <3>3 DEF Routed
      <4>2. Lists(m[r].kept[b], OfBucket(b))
        BY <4>1
      <4>. QED
        BY <4>2, ListsOrder
    <3>4. \A r \in Ranks : \A b \in Buckets : ~Owns(r, b) => m[r].kept[b] = <<>>
      BY <2>4 DEF Routed
    <3>5. \A r \in Ranks : Fed("tally", m[r], r)
      BY <2>5, <3>3, <3>4 DEF Fed, Unread, AtWork, InStep
    <3>. QED
      BY <1>0, <1>000, <2>1, <3>1, <3>5, FedTogether DEF m, FilesDated
  <2>7. CASE mem[0].rounds # 1
    <3>1. \A r \in Ranks : pc'[r] = "route"
      BY <2>1, <2>7 DEF AllGo
    <3>2. \A r \in Ranks : Fed("route", m[r], r)
      BY <2>5 DEF Fed, Unread, AtWork, InStep, Stored, Late
    <3>. QED
      BY <1>0, <2>1, <2>4, <3>1, <3>2, FedTogether DEF m, FilesDated
  <2>. QED
    BY <2>6, <2>7
<1>4. CASE Tally
  <2>1. CASE AbortMpi("routed record count mismatch")
    BY <2>1, <1>00
  <2>2. CASE AllGo("load") /\ UNCHANGED mem /\ Local /\ CountsMatch
    <3>1. /\ Meet("tally") /\ UNCHANGED <<options, owners, files>>
          /\ \A r \in Ranks : pc[r] = "tally" /\ pc'[r] = "load" /\ mem'[r] = mem[r]
      BY <1>4, <2>2 DEF Tally, Meet, AllGo, Local, disk, history
    <3>2. EveryRecordIsOwned
      BY <1>0, <2>2, <3>1, TallyFinds
    <3>3. \A r \in Ranks : Fed("load", mem[r], r)
      BY <1>0, <3>1, <3>2 DEF Fed, Unread, Stored, AtWork, InStep
    <3>. QED
      BY <3>1, <3>3, CallFed
  <2>. QED
    BY <1>4, <2>1, <2>2 DEF Tally, CountsMatch, KeptSlots
<1>5. CASE AgreeLoaded
  <2>1. CASE AbortMpi("cannot resume checkpoint")
    BY <2>1, <1>00
  <2>2. CASE AllGo("epoch") /\ UNCHANGED <<mem, owners, disk, options>>
    <3>1. /\ Meet("agree") /\ UNCHANGED <<options, owners, files>>
          /\ \A r \in Ranks : pc[r] = "agree" /\ pc'[r] = "epoch" /\ mem'[r] = mem[r]
      BY <1>5, <2>2 DEF AgreeLoaded, Meet, AllGo, disk
    <3>2. \A r \in Ranks : Fed("epoch", mem[r], r)
      BY <1>0, <3>1 DEF Fed, Unread, Stored, AtWork, InStep, Late
    <3>. QED
      BY <3>1, <3>2, CallFed
  <2>. QED
    BY <1>5, <2>1, <2>2 DEF AgreeLoaded
<1>6. CASE Size
  <2>1. CASE AllGo("sync") /\ UNCHANGED mem
    <3>1. /\ Meet("size") /\ UNCHANGED <<options, owners, files>>
          /\ \A r \in Ranks : pc[r] = "size" /\ pc'[r] = "sync" /\ mem'[r] = mem[r]
      BY <1>6, <2>1 DEF Size, Meet, AllGo, Local, disk, history
    <3>2. \A r \in Ranks : Fed("sync", mem[r], r)
      BY <1>0, <3>1 DEF Fed, Unread, Stored, AtWork, InStep, Late, StepsTaken
    <3>. QED
      BY <3>1, <3>2, CallFed
  <2>2. CASE /\ mem' = [r \in Ranks |-> [mem[r] EXCEPT !.step = AfterEmptyStep(r)]]
             /\ AllGo("fill")
    <3>1. /\ Meet("size") /\ UNCHANGED <<options, owners, files>>
          /\ \A r \in Ranks : pc[r] = "size" /\ pc'[r] = "fill"
      BY <1>6, <2>2 DEF Size, Meet, AllGo, Local, disk, history
    <3>2. \A r \in Ranks : /\ mem'[r].step = mem[r].step + 1 /\ mem'[r].epoch = mem[r].epoch
                           /\ mem'[r].kept = mem[r].kept /\ mem'[r].offset = mem[r].offset
      BY <1>0, <2>2 DEF Fields, AfterEmptyStep
    <3>3. \A r \in Ranks : Fed("fill", mem'[r], r)
      BY <1>0, <3>1, <3>2 DEF Fed, Unread, Stored, AtWork, InStep, Late, StepsTaken
    <3>. QED
      BY <3>1, <3>3, CallFed
  <2>. QED
    BY <1>6, <2>1, <2>2 DEF Size
<1>7. CASE Sync
  <2>1. /\ Meet("sync") /\ UNCHANGED <<options, owners, files>>
        /\ AllGo(IF options.optimizer = "muon" THEN "head" ELSE "loss")
        /\ mem' = [r \in Ranks |-> [mem[r] EXCEPT !.model = Updated(mem[r].model, mem[r].batch, Global)]]
    BY <1>0, <1>7 DEF Sync, Local, disk, history, Fields
  <2>2. \A r \in Ranks : pc[r] = "sync" /\ pc'[r] \in {"head", "loss"}
    BY <2>1 DEF Meet, AllGo
  <2>3. \A r \in Ranks : /\ mem'[r].step = mem[r].step /\ mem'[r].epoch = mem[r].epoch
                         /\ mem'[r].kept = mem[r].kept /\ mem'[r].offset = mem[r].offset
    BY <1>0, <2>1 DEF Fields
  <2>4. \A r \in Ranks : Fed(pc'[r], mem'[r], r)
    BY <1>0, <2>2, <2>3 DEF Fed, Unread, Stored, AtWork, InStep, Late, StepsTaken
  <2>. QED
    BY <2>1, <2>2, <2>4, CallFed
<1>8. CASE Broadcast
  <2>1. /\ Meet("head") /\ UNCHANGED <<options, owners, files>> /\ AllGo("loss")
        /\ mem' = [r \in Ranks |->
              [mem[r] EXCEPT !.model = [mem[r].model EXCEPT !.head =
                  [side \in Sides |-> HeadOf(BroadcastRoot(side), side)]]]]
    BY <1>0, <1>8 DEF Broadcast, Local, disk, history
  <2>2. \A r \in Ranks : pc[r] = "head" /\ pc'[r] = "loss"
    BY <2>1 DEF Meet, AllGo
  <2>3. \A r \in Ranks : /\ mem'[r].step = mem[r].step /\ mem'[r].epoch = mem[r].epoch
                         /\ mem'[r].kept = mem[r].kept /\ mem'[r].offset = mem[r].offset
    BY <1>0, <2>1 DEF Fields
  <2>4. \A r \in Ranks : Fed(pc'[r], mem'[r], r)
    BY <1>0, <2>2, <2>3 DEF Fed, Unread, Stored, AtWork, InStep, Late, StepsTaken
  <2>. QED
    BY <2>1, <2>2, <2>4, CallFed
<1>9. CASE Loss
  <2>1. /\ Meet("loss") /\ UNCHANGED <<options, owners, files>> /\ AllGo("fill")
        /\ mem' = [r \in Ranks |-> [mem[r] EXCEPT !.step = mem[r].step + 1, !.batch = {}]]
    BY <1>0, <1>9 DEF Loss, Local, disk, history, Fields
  <2>2. \A r \in Ranks : pc[r] = "loss" /\ pc'[r] = "fill"
    BY <2>1 DEF Meet, AllGo
  <2>3. \A r \in Ranks : /\ mem'[r].step = mem[r].step + 1 /\ mem'[r].epoch = mem[r].epoch
                         /\ mem'[r].kept = mem[r].kept /\ mem'[r].offset = mem[r].offset
    BY <1>0, <2>1 DEF Fields
  <2>4. \A r \in Ranks : Fed("fill", mem'[r], r)
    BY <1>0, <2>2, <2>3 DEF Fed, Unread, Stored, AtWork, InStep, Late, StepsTaken
  <2>. QED
    BY <2>1, <2>2, <2>4, CallFed
<1>10. CASE Report
  <2>1. /\ Meet("report") /\ UNCHANGED <<options, owners, files>>
        /\ pc' = [r \in Ranks |-> IF Due(mem[r].epoch) THEN "save" ELSE "epoch"]
        /\ mem' = [r \in Ranks |->
              [mem[r] EXCEPT !.epoch = IF Due(mem[r].epoch) THEN mem[r].epoch ELSE mem[r].epoch + 1]]
    BY <1>0, <1>10 DEF Report, Local, disk, history, Fields
  <2>2. \A r \in Ranks : pc[r] = "report" /\ pc'[r] \in {"save", "epoch"}
    BY <2>1 DEF Meet
  <2>3. \A r \in Ranks : /\ mem'[r].kept = mem[r].kept
                         /\ mem'[r].epoch \in {mem[r].epoch, mem[r].epoch + 1}
    BY <1>0, <2>1 DEF Fields
  <2>4. \A r \in Ranks : Fed(pc'[r], mem'[r], r)
    BY <1>0, <2>2, <2>3 DEF Fed, Unread, Stored, AtWork, InStep, Late
  <2>. QED
    BY <2>1, <2>2, <2>4, CallFed
<1>11. CASE AgreeSaved
  <2>1. CASE AbortMpi("cannot write checkpoint")
    BY <2>1, <1>00
  <2>2. CASE ~ \E r \in Ranks : ~mem[r].ok
    <3>1. /\ Meet("saved") /\ AllGo("epoch") /\ UNCHANGED <<options, owners, files>>
          /\ mem' = [r \in Ranks |-> [mem[r] EXCEPT !.epoch = mem[r].epoch + 1]]
      BY <1>0, <1>11, <2>2 DEF AgreeSaved, Local, disk, history, Fields
    <3>2. \A r \in Ranks : pc[r] = "saved" /\ pc'[r] = "epoch"
      BY <3>1 DEF Meet, AllGo
    <3>3. \A r \in Ranks : mem'[r].kept = mem[r].kept /\ mem'[r].epoch = mem[r].epoch + 1
      BY <1>0, <3>1 DEF Fields
    <3>4. \A r \in Ranks : Fed("epoch", mem'[r], r)
      BY <1>0, <3>2, <3>3 DEF Fed, Unread, Stored, AtWork, InStep, Late
    <3>. QED
      BY <3>1, <3>2, <3>4, CallFed
  <2>. QED
    BY <1>11, <2>1, <2>2 DEF AgreeSaved
<1>12. CASE GatherAndSave
  BY <1>0, <1>12, OverFed DEF GatherAndSave, history, FilesDated
<1>13. CASE Mismatch
  BY <1>0, <1>13, OverFed DEF Mismatch, disk, history, FilesDated
<1>. QED
  BY <1>1, <1>2, <1>3, <1>4, <1>5, <1>6, <1>7, <1>8, <1>9, <1>10, <1>11, <1>12, <1>13
  DEF Together

LEMMA FedKeeps == IInv /\ ReplicaInv /\ FedInv /\ [Next]_vars => FedInv'
BY AloneFed, TogetherFed, OtherFed DEF Next

\* At the end of an epoch the share of the steps is the whole bucket.
LEMMA EpochIsWhole == FedInv => EachRecordOncePerEpoch
<1>. SUFFICES ASSUME FedInv, NEW r \in Ranks, pc[r] = "report", NEW b \in Buckets, Owns(r, b)
              PROVE  /\ ToSet(mem[r].kept[b]) = OfBucket(b)
                     /\ mem[r].offset[b] = Len(mem[r].kept[b])
                     /\ Len(mem[r].kept[b]) = GlobalBuckets(b)
  BY DEF EachRecordOncePerEpoch
<1>1. options \in OptionSets /\ Fed("report", mem[r], r)
  BY DEF FedInv
<1>2. /\ mem[r].kept[b] \in Orders(OfBucket(b))
      /\ mem[r].offset[b] = Quota(b, Reached(mem[r].step))
      /\ mem[r].step = StepsPerEpoch /\ mem[r].step \in Nat /\ GlobalCount # 0
  BY <1>1 DEF Fed, Stored, AtWork, InStep, Late, StepsTaken
<1>3. Len(mem[r].kept[b]) = GlobalBuckets(b) /\ ToSet(mem[r].kept[b]) = OfBucket(b)
  BY <1>1, <1>2, DataFacts, OrdersFacts DEF GlobalBuckets
<1>4. Reached(mem[r].step) = GlobalCount
  BY <1>1, <1>2, StepFacts
<1>. QED
  BY <1>1, <1>2, <1>3, <1>4, QuotaFacts

\* For any number of ranks and shards of any lengths, whatever the shuffles and
\* the owners of the buckets: when an epoch ends, a rank has used every record
\* of its buckets once, and these are all the records of the buckets.
THEOREM EpochsAreWhole == Spec => []EachRecordOncePerEpoch
BY InitHolds, NextKeeps, InitReplicas, ReplicasKeep, InitFed, FedKeeps, EpochIsWhole, PTL DEF Spec

-----------------------------------------------------------------------------
(*****************************************************************************)
(* Steps and checkpoints.  The steps a model counts are those of whole       *)
(* epochs, and of the epoch it is in those that had a record on some rank.   *)
(* That a rank sees from its own share what all of them have in a step       *)
(* rests on the invariant above.                                             *)
(*****************************************************************************)
\* The steps before step that have a record, and how many of them a rank has
\* made in its epoch.
Effective(step) == \E b \in Buckets : Amount(b, step) > 0
EffectiveBefore(step) == Cardinality({n \in 0 .. step - 1 : Effective(n)})
StepsMade(label, x) ==
    CASE label \in {"epoch", "gather"} -> 0
      [] label \in {"head", "loss"} -> x.step + 1
      [] label \in Saving -> StepsPerEpoch
      [] OTHER -> x.step

\* Models and files have the number of steps of their epochs.
Numbered(label, x) ==
    /\ label \in Late =>
          x.model.number = x.epoch * EffectiveSteps + EffectiveBefore(StepsMade(label, x))
    /\ label = "sync" => Effective(x.step)
FileNumbered(f) == f # Nothing => f.model.number = f.epoch * EffectiveSteps
NumberInv ==
    ~torn => /\ \A r \in Ranks : Numbered(pc[r], mem[r])
             /\ \A r \in Ranks : FileNumbered(files[r])

\* How the number of effective steps grows from step to step.
LEMMA EffectiveFacts ==
  ASSUME options \in OptionSets
  PROVE  /\ EffectiveBefore(0) = 0
         /\ EffectiveBefore(StepsPerEpoch) = EffectiveSteps /\ EffectiveSteps \in Nat
         /\ \A n \in Nat :
               /\ EffectiveBefore(n) \in Nat
               /\ EffectiveBefore(n + 1) =
                     IF Effective(n) THEN EffectiveBefore(n) + 1 ELSE EffectiveBefore(n)
<1>. DEFINE S(k) == {n \in 0 .. k - 1 : Effective(n)}
<1>1. S(0) = {}
  OBVIOUS
<1>2. \A k \in Nat : IsFiniteSet(S(k))
  <2>. SUFFICES ASSUME NEW k \in Nat PROVE IsFiniteSet(S(k))
    OBVIOUS
  <2>1. IsFiniteSet(0 .. k - 1) /\ S(k) \subseteq 0 .. k - 1
    BY FS_Interval
  <2>. HIDE DEF S
  <2>. QED
    BY <2>1, FS_Subset
<1>3. ASSUME NEW k \in Nat
      PROVE  /\ Effective(k) => S(k + 1) = S(k) \cup {k} /\ k \notin S(k)
             /\ ~Effective(k) => S(k + 1) = S(k)
  <2>1. k \notin S(k)
    OBVIOUS
  <2>2. \A n : n \in 0 .. (k + 1) - 1 <=> n \in 0 .. k - 1 \/ n = k
    OBVIOUS
  <2>. QED
    BY <2>1, <2>2
<1>4. \A k : EffectiveBefore(k) = Cardinality(S(k))
  BY DEF EffectiveBefore
<1>5. EffectiveBefore(StepsPerEpoch) = EffectiveSteps
  BY DEF EffectiveBefore, EffectiveSteps, Effective
<1>. HIDE DEF S
<1>6. EffectiveBefore(0) = 0
  BY <1>1, <1>4, FS_EmptySet
<1>7. \A k \in Nat : EffectiveBefore(k) \in Nat
  BY <1>2, <1>4, FS_CardinalityType
<1>8. ASSUME NEW k \in Nat
      PROVE  EffectiveBefore(k + 1) =
                IF Effective(k) THEN EffectiveBefore(k) + 1 ELSE EffectiveBefore(k)
  BY <1>2, <1>3, <1>4, FS_AddElement
<1>9. EffectiveSteps \in Nat
  <2>1. StepsPerEpoch \in Nat
    BY StepFacts
  <2>. QED
    BY <1>5, <1>7, <2>1
<1>. QED
  BY <1>5, <1>6, <1>7, <1>8, <1>9

\* A step takes something only from a bucket that has records.
LEMMA AmountFacts ==
  ASSUME options \in OptionSets, GlobalCount # 0, NEW b \in Buckets, NEW step \in Nat
  PROVE  /\ step < StepsPerEpoch => Amount(b, step) \in Int
         /\ OfBucket(b) = {} => ~(Amount(b, step) > 0)
<1>1. step < StepsPerEpoch => Amount(b, step) \in Int
  <2>1. step + 1 \in Nat
    OBVIOUS
  <2>2. /\ Reached(step) \in Nat /\ Reached(step + 1) \in Nat
        /\ step < StepsPerEpoch =>
             Amount(b, step) = Quota(b, Reached(step + 1)) - Quota(b, Reached(step))
    BY <2>1, StepFacts
  <2>3. Quota(b, Reached(step)) \in Nat /\ Quota(b, Reached(step + 1)) \in Nat
    BY <2>2, QuotaFacts
  <2>. QED
    BY <2>2, <2>3
<1>2. ASSUME OfBucket(b) = {} PROVE ~(Amount(b, step) > 0)
  <2>. DEFINE d == options.batch
              g == GlobalCount
              start == step * d
              end == Min({start + d, g})
  <2>1. g \in Nat \ {0} /\ d \in Nat \ {0}
    BY DataFacts
  <2>2. GlobalBuckets(b) = 0
    BY <1>2, FS_EmptySet DEF GlobalBuckets
  <2>3. start \in Int /\ end \in Int
    <3>1. start \in Int
      BY <2>1
    <3>. HIDE DEF start, g, d
    <3>2. end \in {start + d, g}
      BY <2>1, <3>1 DEF Min
    <3>. QED
      BY <2>1, <3>1, <3>2
  <2>4. Amount(b, step) = Quota(b, end) - Quota(b, start)
    BY DEF Amount
  <2>. HIDE DEF start, end
  <2>5. \A n \in Int : (n * 0) \div g = 0
    <3>. HIDE DEF g
    <3>. QED
      BY <2>1
  <2>6. \A n \in Int : Quota(b, n) = 0
    BY <2>2, <2>5 DEF Quota
  <2>. QED
    BY <2>3, <2>4, <2>6
<1>. QED
  BY <1>1, <1>2

\* The ranks have a record in their batches exactly in a step that has one.
LEMMA BatchTells ==
  ASSUME IInv, FedInv, Meet("size"), ~torn, NEW r \in Ranks
  PROVE  Global # {} <=> Effective(mem[r].step)
<1>1. options \in OptionSets
  BY DEF FedInv
<1>2. ASSUME NEW s \in Ranks
      PROVE  /\ GlobalCount # 0 /\ EveryRecordIsOwned
             /\ mem[s].step \in Nat /\ mem[s].step < StepsPerEpoch
             /\ mem[s].batch = {} <=> HasNoShare(s, mem[s].step)
             /\ mem[s].step = mem[r].step
  <2>1. pc[s] = "size" /\ mem[s].step = mem[r].step
    BY MeetAbreast DEF Calls, InStep
  <2>2. Fed("size", mem[s], s)
    BY <2>1 DEF FedInv
  <2>3. StepsPerEpoch \in Nat /\ StepsTaken("size", mem[s]) = mem[s].step + 1
    BY <1>1, StepFacts DEF StepsTaken, InStep
  <2>. QED
    BY <2>1, <2>2, <2>3 DEF Fed, Stored, Late, AtWork, InStep
<1>. DEFINE k == mem[r].step
<1>3. k \in Nat /\ k < StepsPerEpoch /\ GlobalCount # 0 /\ EveryRecordIsOwned
  BY <1>2
<1>4. \A s \in Ranks : mem[s].batch = {} <=> HasNoShare(s, k)
  BY <1>2
<1>. HIDE DEF k
<1>5. ASSUME Global # {} PROVE Effective(k)
  <2>1. PICK s \in Ranks : mem[s].batch # {}
    BY <1>5 DEF Global
  <2>2. PICK b \in Buckets : ~(Amount(b, k) <= 0)
    BY <1>4, <2>1 DEF HasNoShare
  <2>3. Amount(b, k) \in Int
    BY <1>1, <1>3, AmountFacts
  <2>. QED
    BY <2>2, <2>3 DEF Effective
<1>6. ASSUME Effective(k) PROVE Global # {}
  <2>1. PICK b \in Buckets : Amount(b, k) > 0
    BY <1>6 DEF Effective
  <2>2. OfBucket(b) # {} /\ Amount(b, k) \in Int
    BY <1>1, <1>3, <2>1, AmountFacts
  <2>3. owners[b] \in Ranks /\ Owns(owners[b], b)
    BY <1>3, <2>2 DEF EveryRecordIsOwned, OfBucket, Owns
  <2>4. ~HasNoShare(owners[b], k)
    BY <2>1, <2>2, <2>3 DEF HasNoShare
  <2>. QED
    BY <1>4, <2>3, <2>4 DEF Global
<1>. QED
  BY <1>5, <1>6 DEF k

\* As long as the data stay, so do the numbers of steps.
LEMMA NumberAgain ==
  ASSUME options' = options,
         ~torn' => /\ \A r \in Ranks : Numbered(pc'[r], mem'[r])
                   /\ \A r \in Ranks : FileNumbered(files'[r])
  PROVE  NumberInv'
<1>1. \A n : Effective(n)' = Effective(n)
  BY DataFrame DEF Effective
<1>2. \A n : EffectiveBefore(n)' = EffectiveBefore(n)
  BY <1>1 DEF EffectiveBefore
<1>3. EffectiveSteps' = EffectiveSteps /\ StepsPerEpoch' = StepsPerEpoch
  BY DataFrame DEF EffectiveSteps
<1>4. \A r \in Ranks : Numbered(pc[r], mem[r])' <=> Numbered(pc'[r], mem'[r])
  BY <1>1, <1>2, <1>3 DEF Numbered, StepsMade
<1>5. \A r \in Ranks : FileNumbered(files[r])' <=> FileNumbered(files'[r])
  BY <1>3 DEF FileNumbered
<1>. QED
  BY <1>4, <1>5 DEF NumberInv

\* The step of one rank whose count is right where it goes.
LEMMA NumberAlone ==
  ASSUME IInv, NumberInv, NEW r \in Ranks, UNCHANGED <<options, torn>>,
         NEW label, pc' = [pc EXCEPT ![r] = label],
         NEW m, mem' = [mem EXCEPT ![r] = m],
         ~torn => Numbered(label, m) /\ \A s \in Ranks : FileNumbered(files'[s])
  PROVE  NumberInv'
<1>1. ASSUME ~torn', NEW s \in Ranks PROVE Numbered(pc'[s], mem'[s])
  <2>1. DOMAIN pc = Ranks /\ DOMAIN mem = Ranks
    BY DEF IInv, MemoryInv
  <2>2. CASE s = r
    <3>1. pc'[s] = label /\ mem'[s] = m
      BY <2>1, <2>2
    <3>. QED
      BY <1>1, <3>1
  <2>3. CASE s # r
    <3>1. pc'[s] = pc[s] /\ mem'[s] = mem[s]
      BY <2>1, <2>3
    <3>. QED
      BY <1>1, <3>1 DEF NumberInv
  <2>. QED
    BY <2>2, <2>3
<1>. QED
  BY <1>1, NumberAgain

\* A job that is over has no models.
LEMMA OverNumbers ==
  ASSUME NumberInv, NEW how, NEW message, Over(how, message), UNCHANGED <<options, torn, files>>
  PROVE  NumberInv'
<1>1. \A r \in Ranks : Numbered(pc'[r], mem'[r])
  BY DEF Over, Numbered, Late
<1>. QED
  BY <1>1, NumberAgain DEF NumberInv

\* What a rank does alone: a file written at the end of an epoch has the steps
\* of one epoch more.
LEMMA AloneNumbers ==
  ASSUME IInv, ReplicaInv, FedInv, NumberInv, NEW r \in Ranks, Alone(r) \/ CheckpointFails(r)
  PROVE  NumberInv'
<1>0. /\ DOMAIN mem = Ranks /\ DOMAIN files = Ranks
      /\ Fields \subseteq DOMAIN mem[r]
      /\ options \in OptionSets
  BY DEF IInv, MemoryInv, ReplicaInv, FedInv
<1>00. ASSUME NEW message, AbortMpi(message) PROVE NumberInv'
  BY <1>00, OverNumbers DEF AbortMpi, disk, history
<1>000. ~torn => /\ Holds(pc[r], mem[r], files[r], GlobalOf(mem))
                 /\ Numbered(pc[r], mem[r])
                 /\ \A s \in Ranks : FileNumbered(files[s])
  BY DEF NumberInv, ReplicaInv, Replicated
<1>1. CASE CountBuckets(r)
  <2>1. CASE \E message : AbortMpi(message)
    BY <2>1, <1>00
  <2>2. CASE Goes(r, "census") /\ UNCHANGED mem /\ Local
    <3>1. mem' = [mem EXCEPT ![r] = mem[r]] /\ pc' = [pc EXCEPT ![r] = "census"]
      BY <2>2, <1>0 DEF Goes, IInv, MemoryInv
    <3>2. Numbered("census", mem[r])
      BY DEF Numbered, Late
    <3>3. UNCHANGED <<options, torn, files>>
      BY <2>2 DEF Local, disk, history
    <3>. QED
      BY <3>1, <3>2, <3>3, <1>000, NumberAlone
  <2>. QED
    BY <1>1, <2>1, <2>2 DEF CountBuckets
<1>2. CASE LoadCheckpoint(r)
  <2>0. pc[r] = "load" /\ UNCHANGED <<options, torn, files>>
    BY <1>2 DEF LoadCheckpoint, At, Local, disk, history
  <2>1. CASE resuming
    <3>1. PICK m : mem' = [mem EXCEPT ![r] = m]
      BY <1>2, <2>1 DEF LoadCheckpoint
    <3>2. pc' = [pc EXCEPT ![r] = "agree"]
      BY <1>2, <2>1 DEF LoadCheckpoint, Goes
    <3>3. Numbered("agree", m)
      BY DEF Numbered, Late
    <3>. QED
      BY <2>0, <3>1, <3>2, <3>3, <1>000, NumberAlone
  <2>2. CASE ~resuming
    <3>. DEFINE m == [mem[r] EXCEPT !.model = InitialModel(r)]
    <3>1. mem' = [mem EXCEPT ![r] = m] /\ pc' = [pc EXCEPT ![r] = "epoch"]
      BY <1>0, <1>2, <2>2 DEF LoadCheckpoint, Goes
    <3>2. m.model = InitialModel(r) /\ m.epoch = mem[r].epoch
      BY <1>0 DEF Fields
    <3>3. InitialModel(r).number = 0
      BY DEF InitialModel
    <3>4. ~torn => mem[r].epoch = 0
      BY <1>000, <2>0 DEF Holds, Early
    <3>. HIDE DEF m
    <3>5. StepsMade("epoch", m) = 0
      BY DEF StepsMade, Saving
    <3>6. EffectiveBefore(0) = 0 /\ EffectiveSteps \in Nat
      BY <1>0, EffectiveFacts
    <3>7. ~torn => Numbered("epoch", m)
      BY <3>2, <3>3, <3>4, <3>5, <3>6 DEF Numbered
    <3>. QED
      BY <2>0, <3>1, <3>7, <1>000, NumberAlone
  <2>. QED
    BY <2>1, <2>2
<1>3. CASE BeginEpoch(r)
  <2>. DEFINE m == [mem[r] EXCEPT
                      !.kept = [b \in Buckets |->
                          IF Owns(r, b) THEN Shuffled(@[b], mem[r].epoch, b) ELSE @[b]],
                      !.offset = [b \in Buckets |-> 0], !.step = 0]
  <2>1. /\ mem' = [mem EXCEPT ![r] = m] /\ pc' = [pc EXCEPT ![r] = "fill"]
        /\ pc[r] = "epoch" /\ UNCHANGED <<options, torn, files>>
    BY <1>0, <1>3 DEF BeginEpoch, At, Goes, Local, disk, history
  <2>2. m.model = mem[r].model /\ m.epoch = mem[r].epoch /\ m.step = 0
    BY <1>0 DEF Fields
  <2>. HIDE DEF m
  <2>3. StepsMade("epoch", mem[r]) = StepsMade("fill", m)
    BY <2>2 DEF StepsMade, Saving
  <2>4. ~torn => Numbered("fill", m)
    BY <2>1, <2>2, <2>3, <1>000 DEF Numbered, Late
  <2>. QED
    BY <2>1, <2>4, <1>000, NumberAlone
<1>4. CASE FillBatch(r)
  <2>1. CASE \E message : AbortMpi(message)
    BY <2>1, <1>00
  <2>2. CASE ~Overflows(r)
    <3>. DEFINE m == [mem[r] EXCEPT
                        !.batch = LocalBatch(r),
                        !.offset = [b \in Buckets |->
                            IF Owns(r, b) THEN @[b] + Amount(b, mem[r].step) ELSE @[b]]]
    <3>1. /\ mem' = [mem EXCEPT ![r] = m] /\ pc' = [pc EXCEPT ![r] = "size"]
          /\ pc[r] = "fill" /\ UNCHANGED <<options, torn, files>>
      BY <1>0, <1>4, <2>2 DEF FillBatch, At, Goes, Local, disk, history
    <3>2. m.model = mem[r].model /\ m.epoch = mem[r].epoch /\ m.step = mem[r].step
      BY <1>0 DEF Fields
    <3>. HIDE DEF m
    <3>3. StepsMade("fill", mem[r]) = StepsMade("size", m)
      BY <3>2 DEF StepsMade, Saving
    <3>4. ~torn => Numbered("size", m)
      BY <3>1, <3>2, <3>3, <1>000 DEF Numbered, Late
    <3>. QED
      BY <3>1, <3>4, <1>000, NumberAlone
  <2>. QED
    BY <1>4, <2>1, <2>2 DEF FillBatch
<1>5. CASE EndEpoch(r)
  <2>1. /\ mem' = [mem EXCEPT ![r] = mem[r]] /\ pc' = [pc EXCEPT ![r] = "report"]
        /\ pc[r] = "fill" /\ UNCHANGED <<options, torn, files>>
    BY <1>0, <1>5 DEF EndEpoch, At, Goes, Local, disk, history, IInv, MemoryInv
  <2>2. StepsMade("fill", mem[r]) = StepsMade("report", mem[r])
    BY DEF StepsMade, Saving
  <2>3. ~torn => Numbered("report", mem[r])
    BY <2>1, <2>2, <1>000 DEF Numbered, Late
  <2>. QED
    BY <2>1, <2>3, <1>000, NumberAlone
<1>6. CASE SaveCheckpoint(r)
  <2>. DEFINE f == [epoch |-> mem[r].epoch + 1, model |-> mem[r].model]
  <2>1. /\ mem' = [mem EXCEPT ![r] = mem[r]] /\ pc' = [pc EXCEPT ![r] = "saved"]
        /\ pc[r] = "save" /\ UNCHANGED <<options, torn>>
        /\ files' = [files EXCEPT ![r] = f]
    BY <1>0, <1>6 DEF SaveCheckpoint, At, Goes, history, EpochToResume, IInv, MemoryInv
  <2>2. StepsMade("save", mem[r]) = StepsPerEpoch /\ StepsMade("saved", mem[r]) = StepsPerEpoch
    BY DEF StepsMade, Saving
  <2>3. ~torn => Numbered("saved", mem[r])
    BY <2>1, <2>2, <1>000 DEF Numbered, Late
  <2>4. ~torn => FileNumbered(f)
    <3>. DEFINE e == mem[r].epoch
                n == EffectiveSteps
    <3>1. ~torn => mem[r].model.number = e * n + n
      BY <2>1, <2>2, <1>0, <1>000, EffectiveFacts DEF Numbered, Late
    <3>2. ~torn => e \in Nat
      BY <2>1, <1>000 DEF Holds, Late
    <3>3. n \in Nat
      BY <1>0, EffectiveFacts
    <3>4. f.epoch = e + 1 /\ f.model.number = mem[r].model.number
      OBVIOUS
    <3>. HIDE DEF e, n, f
    <3>5. ~torn => e * n + n = (e + 1) * n
      BY <3>2, <3>3
    <3>. QED
      BY <3>1, <3>4, <3>5 DEF FileNumbered, n
  <2>. HIDE DEF f
  <2>5. ~torn => \A s \in Ranks : FileNumbered(files'[s])
    <3>1. \A s \in Ranks : files'[s] = IF s = r THEN f ELSE files[s]
      BY <2>1, <1>0
    <3>. QED
      BY <2>4, <3>1, <1>000
  <2>. QED
    BY <2>1, <2>3, <2>5, NumberAlone
<1>7. CASE CheckpointFails(r)
  <2>. DEFINE m == [mem[r] EXCEPT !.ok = FALSE]
  <2>1. /\ mem' = [mem EXCEPT ![r] = m] /\ pc' = [pc EXCEPT ![r] = "saved"]
        /\ pc[r] = "save" /\ UNCHANGED <<options, torn, files>>
    BY <1>0, <1>7 DEF CheckpointFails, At, Goes, disk
  <2>2. m.model = mem[r].model /\ m.epoch = mem[r].epoch
    BY <1>0 DEF Fields
  <2>. HIDE DEF m
  <2>3. StepsMade("save", mem[r]) = StepsMade("saved", m)
    BY DEF StepsMade, Saving
  <2>4. ~torn => Numbered("saved", m)
    BY <2>1, <2>2, <2>3, <1>000 DEF Numbered, Late
  <2>. QED
    BY <2>1, <2>4, <1>000, NumberAlone
<1>8. CASE Flush(r)
  <2>. DEFINE x == [mem[r].model EXCEPT !.rows =
                     [x \in Rows |-> IF Owns(r, x[1]) THEN FlushMomentum(@[x], mem[r].model.number)
                                     ELSE @[x]]]
              m == [mem[r] EXCEPT !.model = x]
  <2>1. /\ mem' = [mem EXCEPT ![r] = m] /\ pc' = [pc EXCEPT ![r] = "gather"]
        /\ pc[r] = "epoch" /\ UNCHANGED <<options, torn, files>>
    BY <1>0, <1>8 DEF Flush, At, Goes, Local, disk, history
  <2>2. m.model = x /\ m.epoch = mem[r].epoch
    BY <1>0 DEF Fields
  <2>3. ~torn => x.number = mem[r].model.number
    <3>1. ~torn => ModelFields \subseteq DOMAIN mem[r].model
      BY <2>1, <1>000 DEF Holds, Late, Whole, Counted
    <3>. QED
      BY <3>1 DEF ModelFields
  <2>. HIDE DEF x, m
  <2>4. StepsMade("epoch", mem[r]) = StepsMade("gather", m)
    BY DEF StepsMade, Saving
  <2>5. ~torn => Numbered("gather", m)
    BY <2>1, <2>2, <2>3, <2>4, <1>000 DEF Numbered, Late
  <2>. QED
    BY <2>1, <2>5, <1>000, NumberAlone
<1>. QED
  BY <1>1, <1>2, <1>3, <1>4, <1>5, <1>6, <1>7, <1>8 DEF Alone

\* A collective call in which no file is written, and every rank's count is right
\* where it goes.
LEMMA NumberTogether ==
  ASSUME NumberInv, UNCHANGED <<options, files>>, torn => torn',
         ~torn' => \A r \in Ranks : Numbered(pc'[r], mem'[r])
  PROVE  NumberInv'
BY NumberAgain DEF NumberInv

\* A call by which no rank leaves for an epoch.
LEMMA EarlyNumbers ==
  ASSUME NumberInv, UNCHANGED <<options, torn, files>>,
         NEW label \in Early, AllGo(label)
  PROVE  NumberInv'
<1>1. \A r \in Ranks : Numbered(pc'[r], mem'[r])
  BY DEF AllGo, Numbered, Early, Late
<1>. QED
  BY <1>1, NumberTogether

\* The collective calls: only an effective step is counted.
LEMMA TogetherNumbers ==
  ASSUME IInv, ReplicaInv, FedInv, NumberInv, Together
  PROVE  NumberInv'
<1>0. /\ DOMAIN mem = Ranks /\ DOMAIN files = Ranks
      /\ \A r \in Ranks : Fields \subseteq DOMAIN mem[r]
      /\ options \in OptionSets
  BY DEF IInv, MemoryInv, ReplicaInv, FedInv
<1>00. ASSUME NEW message, AbortMpi(message) PROVE NumberInv'
  BY <1>00, OverNumbers DEF AbortMpi, disk, history
<1>000. ASSUME ~torn
        PROVE  \A r \in Ranks :
                 /\ Holds(pc[r], mem[r], files[r], GlobalOf(mem))
                 /\ Numbered(pc[r], mem[r])
                 /\ FileNumbered(files[r])
                 /\ pc[r] \in Late => mem[r].epoch \in Nat /\ mem[r].model.number \in Nat
  <2>1. \A r \in Ranks : Holds(pc[r], mem[r], files[r], GlobalOf(mem))
    BY <1>000 DEF ReplicaInv, Replicated
  <2>2. ASSUME NEW r \in Ranks, pc[r] \in Late
        PROVE  mem[r].epoch \in Nat /\ mem[r].model.number \in Nat
    <3>1. Counted(mem[r].model) /\ mem[r].epoch \in Nat
      BY <2>1, <2>2 DEF Holds, Whole, Pending
    <3>. QED
      BY <3>1 DEF Counted, IsSeq
  <2>. QED
    BY <1>000, <2>1, <2>2 DEF NumberInv
<1>1. CASE Census
  <2>1. CASE AbortMpi("training set is empty")
    BY <2>1, <1>00
  <2>2. CASE AllGo("rounds") /\ UNCHANGED <<mem, job, why, disk, history>>
    BY <2>2, EarlyNumbers DEF disk, history, Early
  <2>. QED
    BY <1>1, <2>1, <2>2 DEF Census
<1>2. CASE AgreeRounds
  BY <1>2, EarlyNumbers DEF AgreeRounds, Local, disk, history, Early
<1>3. CASE RouteRound
  <2>1. CASE AllGo("tally")
    BY <1>3, <2>1, EarlyNumbers DEF RouteRound, Local, disk, history, Early
  <2>2. CASE AllGo("route")
    BY <1>3, <2>2, EarlyNumbers DEF RouteRound, Local, disk, history, Early
  <2>. QED
    BY <1>3, <2>1, <2>2 DEF RouteRound
<1>4. CASE Tally
  <2>1. CASE AbortMpi("routed record count mismatch")
    BY <2>1, <1>00
  <2>2. CASE AllGo("load") /\ UNCHANGED mem /\ Local
    BY <2>2, EarlyNumbers DEF Local, disk, history, Early
  <2>. QED
    BY <1>4, <2>1, <2>2 DEF Tally
<1>5. CASE AgreeLoaded
  <2>1. CASE AbortMpi("cannot resume checkpoint")
    BY <2>1, <1>00
  <2>2. CASE ~ \E r \in Ranks : ~mem[r].ok \/ mem[r].epoch > Epochs
    <3>1. /\ Meet("agree") /\ AllGo("epoch") /\ UNCHANGED <<mem, options, files>>
          /\ torn' = (torn \/ \E r \in Ranks : mem[r].epoch # mem[0].epoch)
      BY <1>5, <2>2 DEF AgreeLoaded, disk
    <3>2. ASSUME ~torn', NEW r \in Ranks PROVE Numbered(pc'[r], mem'[r])
      <4>1. ~torn /\ pc[r] = "agree" /\ pc'[r] = "epoch" /\ mem[r].ok /\ mem'[r] = mem[r]
        BY <2>2, <3>1, <3>2 DEF Meet, AllGo
      <4>2. /\ mem[r].epoch = files[r].epoch /\ mem[r].model = files[r].model
            /\ files[r] # Nothing /\ FileNumbered(files[r]) /\ FileOK(files[r])
        BY <1>000, <4>1 DEF Holds, ReplicaInv, Replicated
      <4>3. mem[r].epoch \in Nat /\ EffectiveSteps \in Nat /\ EffectiveBefore(0) = 0
        BY <1>0, <4>2, EffectiveFacts DEF FileOK
      <4>4. StepsMade("epoch", mem[r]) = 0
        BY DEF StepsMade, Saving
      <4>5. mem[r].epoch * EffectiveSteps + 0 = mem[r].epoch * EffectiveSteps
        BY <4>3
      <4>. QED
        BY <4>1, <4>2, <4>3, <4>4, <4>5 DEF Numbered, FileNumbered
    <3>3. torn => torn'
      BY <3>1
    <3>. QED
      BY <3>1, <3>2, <3>3, NumberTogether
  <2>. QED
    BY <1>5, <2>1, <2>2 DEF AgreeLoaded
<1>6. CASE Size
  <2>1. Meet("size") /\ UNCHANGED <<options, torn, files>>
    BY <1>6 DEF Size, Local, disk, history
  <2>2. ASSUME ~torn, NEW r \in Ranks
        PROVE  /\ pc[r] = "size" /\ Numbered("size", mem[r])
               /\ Global # {} <=> Effective(mem[r].step)
               /\ mem[r].step \in Nat
    <3>1. pc[r] = "size"
      BY <2>1 DEF Meet
    <3>2. mem[r].step \in Nat
      BY <3>1 DEF FedInv, Fed, AtWork, InStep
    <3>. QED
      BY <1>000, <2>1, <2>2, <3>1, <3>2, BatchTells
  <2>3. CASE Global = {}
    <3>1. ASSUME ~torn, NEW r \in Ranks PROVE Numbered(pc'[r], mem'[r])
      <4>. DEFINE m == mem'[r]
      <4>1. /\ m.model = mem[r].model /\ m.epoch = mem[r].epoch /\ m.step = mem[r].step + 1
            /\ pc'[r] = "fill"
        BY <1>0, <1>6, <2>3 DEF Size, AfterEmptyStep, AllGo, Fields
      <4>. HIDE DEF m
      <4>2. EffectiveBefore(m.step) = EffectiveBefore(mem[r].step)
        BY <1>0, <2>2, <2>3, <3>1, <4>1, EffectiveFacts
      <4>3. StepsMade("size", mem[r]) = mem[r].step /\ StepsMade("fill", m) = m.step
        BY DEF StepsMade, Saving
      <4>4. Numbered("fill", m)
        BY <2>2, <3>1, <4>1, <4>2, <4>3 DEF Numbered, Late
      <4>. QED
        BY <4>1, <4>4 DEF m
    <3>. QED
      BY <2>1, <3>1, NumberTogether
  <2>4. CASE Global # {}
    <3>1. ASSUME ~torn, NEW r \in Ranks PROVE Numbered(pc'[r], mem'[r])
      <4>1. mem' = mem /\ pc'[r] = "sync"
        BY <1>6, <2>4 DEF Size, AllGo
      <4>2. StepsMade("size", mem[r]) = StepsMade("sync", mem[r])
        BY DEF StepsMade, Saving
      <4>. QED
        BY <2>2, <2>4, <3>1, <4>1, <4>2 DEF Numbered, Late
    <3>. QED
      BY <2>1, <3>1, NumberTogether
  <2>. QED
    BY <2>3, <2>4
<1>7. CASE Sync
  <2>1. Meet("sync") /\ UNCHANGED <<options, torn, files>>
    BY <1>7 DEF Sync, Local, disk, history
  <2>2. ASSUME ~torn, NEW r \in Ranks PROVE Numbered(pc'[r], mem'[r])
    <3>. DEFINE m == mem'[r]
                label == pc'[r]
    <3>1. /\ m.model = Updated(mem[r].model, mem[r].batch, Global)
          /\ m.epoch = mem[r].epoch /\ m.step = mem[r].step
          /\ label \in {"head", "loss"} /\ pc[r] = "sync"
      BY <1>0, <1>7, <2>1 DEF Sync, AllGo, Meet, Fields
    <3>2. ModelFields \subseteq DOMAIN mem[r].model
      BY <1>000, <2>2, <3>1 DEF Holds, Late, Whole, Counted
    <3>3. Updated(mem[r].model, mem[r].batch, Global).number = mem[r].model.number + 1
      BY <3>2 DEF Updated, ModelFields
    <3>. HIDE DEF m, label
    <3>4. /\ Numbered("sync", mem[r]) /\ mem[r].step \in Nat
          /\ mem[r].epoch \in Nat /\ mem[r].model.number \in Nat
      BY <1>000, <2>2, <3>1 DEF FedInv, Fed, AtWork, InStep, Late
    <3>5. StepsMade("sync", mem[r]) = mem[r].step /\ StepsMade(label, m) = m.step + 1
      BY <3>1 DEF StepsMade, Saving
    <3>6. /\ EffectiveBefore(mem[r].step + 1) = EffectiveBefore(mem[r].step) + 1
          /\ EffectiveBefore(mem[r].step) \in Nat
      BY <1>0, <3>4, EffectiveFacts DEF Numbered
    <3>. DEFINE a == mem[r].epoch * EffectiveSteps
    <3>7. a \in Nat
      BY <1>0, <3>4, EffectiveFacts
    <3>8. mem[r].model.number = a + EffectiveBefore(mem[r].step)
      BY <3>4, <3>5 DEF Numbered, Late
    <3>9. m.epoch * EffectiveSteps = a
      BY <3>1
    <3>. HIDE DEF a
    <3>10. m.model.number = a + EffectiveBefore(m.step + 1)
      BY <3>1, <3>3, <3>6, <3>7, <3>8
    <3>11. Numbered(label, m)
      BY <3>1, <3>5, <3>9, <3>10 DEF Numbered, Late
    <3>. QED
      BY <3>11 DEF label, m
  <2>. QED
    BY <2>1, <2>2, NumberTogether
<1>8. CASE Broadcast
  <2>1. Meet("head") /\ UNCHANGED <<options, torn, files>>
    BY <1>8 DEF Broadcast, Local, disk, history
  <2>2. ASSUME ~torn, NEW r \in Ranks PROVE Numbered(pc'[r], mem'[r])
    <3>. DEFINE m == mem'[r]
    <3>1. pc[r] = "head" /\ pc'[r] = "loss"
      BY <1>8, <2>1 DEF Broadcast, AllGo, Meet
    <3>2. ModelFields \subseteq DOMAIN mem[r].model
      BY <1>000, <2>2, <3>1 DEF Holds, Late, Pending, Counted
    <3>3. /\ m.model.number = mem[r].model.number
          /\ m.epoch = mem[r].epoch /\ m.step = mem[r].step
      BY <1>0, <1>8, <3>2 DEF Broadcast, Fields, ModelFields
    <3>. HIDE DEF m
    <3>4. StepsMade("head", mem[r]) = StepsMade("loss", m)
      BY <3>3 DEF StepsMade, Saving
    <3>5. Numbered("loss", m)
      BY <1>000, <2>2, <3>1, <3>3, <3>4 DEF Numbered, Late
    <3>. QED
      BY <3>1, <3>5 DEF m
  <2>. QED
    BY <2>1, <2>2, NumberTogether
<1>9. CASE Loss
  <2>1. Meet("loss") /\ UNCHANGED <<options, torn, files>>
    BY <1>9 DEF Loss, Local, disk, history
  <2>2. ASSUME ~torn, NEW r \in Ranks PROVE Numbered(pc'[r], mem'[r])
    <3>. DEFINE m == mem'[r]
    <3>1. /\ pc[r] = "loss" /\ pc'[r] = "fill" /\ m.model = mem[r].model
          /\ m.epoch = mem[r].epoch /\ m.step = mem[r].step + 1
      BY <1>0, <1>9, <2>1 DEF Loss, AllGo, Meet, Fields
    <3>. HIDE DEF m
    <3>2. StepsMade("loss", mem[r]) = StepsMade("fill", m)
      BY <3>1 DEF StepsMade, Saving
    <3>3. Numbered("fill", m)
      BY <1>000, <2>2, <3>1, <3>2 DEF Numbered, Late
    <3>. QED
      BY <3>1, <3>3 DEF m
  <2>. QED
    BY <2>1, <2>2, NumberTogether
<1>10. CASE Report
  <2>1. Meet("report") /\ UNCHANGED <<options, torn, files>>
    BY <1>10 DEF Report, Local, disk, history
  <2>2. ASSUME ~torn, NEW r \in Ranks PROVE Numbered(pc'[r], mem'[r])
    <3>. DEFINE m == mem'[r]
                e == mem[r].epoch
                n == EffectiveSteps
    <3>1. /\ pc[r] = "report" /\ m.model = mem[r].model
          /\ \/ pc'[r] = "save" /\ m.epoch = e
             \/ pc'[r] = "epoch" /\ m.epoch = e + 1
      BY <1>0, <1>10, <2>1 DEF Report, Meet, Fields
    <3>. HIDE DEF m
    <3>2. mem[r].step = StepsPerEpoch
      BY <3>1 DEF FedInv, Fed, AtWork
    <3>3. StepsMade("report", mem[r]) = StepsPerEpoch
      BY <3>2 DEF StepsMade, Saving
    <3>4. /\ EffectiveBefore(StepsPerEpoch) = n /\ n \in Nat /\ EffectiveBefore(0) = 0
          /\ e \in Nat
      BY <1>0, <1>000, <2>2, <3>1, EffectiveFacts DEF Late
    <3>5. mem[r].model.number = e * n + n
      BY <1>000, <2>2, <3>1, <3>3, <3>4 DEF Numbered, Late
    <3>6. StepsMade("save", m) = StepsPerEpoch /\ StepsMade("epoch", m) = 0
      BY DEF StepsMade, Saving
    <3>7. m.epoch = e => Numbered("save", m)
      BY <3>1, <3>4, <3>5, <3>6 DEF Numbered
    <3>. HIDE DEF e, n
    <3>8. e * n + n = (e + 1) * n + 0
      BY <3>4
    <3>9. m.epoch = e + 1 => Numbered("epoch", m)
      BY <3>1, <3>4, <3>5, <3>6, <3>8 DEF Numbered, n
    <3>. QED
      BY <3>1, <3>7, <3>9 DEF m
  <2>. QED
    BY <2>1, <2>2, NumberTogether
<1>11. CASE AgreeSaved
  <2>1. CASE AbortMpi("cannot write checkpoint")
    BY <2>1, <1>00
  <2>2. CASE ~ \E r \in Ranks : ~mem[r].ok
    <3>0. Meet("saved") /\ UNCHANGED <<options, torn, files>>
      BY <1>11, <2>2 DEF AgreeSaved, Local, disk, history
    <3>1. ASSUME ~torn, NEW r \in Ranks PROVE Numbered(pc'[r], mem'[r])
      <4>. DEFINE m == mem'[r]
                  e == mem[r].epoch
                  n == EffectiveSteps
      <4>1. /\ pc[r] = "saved" /\ m.model = mem[r].model
            /\ pc'[r] = "epoch" /\ m.epoch = e + 1
        BY <1>0, <1>11, <2>2, <3>0 DEF AgreeSaved, AllGo, Meet, Fields
      <4>. HIDE DEF m
      <4>2. StepsMade("saved", mem[r]) = StepsPerEpoch /\ StepsMade("epoch", m) = 0
        BY DEF StepsMade, Saving
      <4>3. /\ EffectiveBefore(StepsPerEpoch) = n /\ n \in Nat /\ EffectiveBefore(0) = 0
            /\ e \in Nat
        BY <1>0, <1>000, <3>1, <4>1, EffectiveFacts DEF Late
      <4>4. mem[r].model.number = e * n + n
        BY <1>000, <3>1, <4>1, <4>2, <4>3 DEF Numbered, Late
      <4>. HIDE DEF e, n
      <4>5. e * n + n = (e + 1) * n + 0
        BY <4>3
      <4>6. Numbered("epoch", m)
        BY <4>1, <4>2, <4>3, <4>4, <4>5 DEF Numbered, n
      <4>. QED
        BY <4>1, <4>6 DEF m
    <3>. QED
      BY <3>0, <3>1, NumberTogether
  <2>. QED
    BY <1>11, <2>1, <2>2 DEF AgreeSaved
<1>12. CASE GatherAndSave
  BY <1>12, OverNumbers DEF GatherAndSave, history
<1>13. CASE Mismatch
  BY <1>13, OverNumbers DEF Mismatch, disk, history
<1>. QED
  BY <1>1, <1>2, <1>3, <1>4, <1>5, <1>6, <1>7, <1>8, <1>9, <1>10, <1>11, <1>12, <1>13
  DEF Together

LEMMA OtherNumbers ==
  ASSUME NumberInv, SaveFails \/ Crash \/ Restart \/ UNCHANGED vars
  PROVE  NumberInv'
<1>1. CASE SaveFails
  BY <1>1, OverNumbers DEF SaveFails, disk
<1>2. CASE Crash
  BY <1>2, OverNumbers DEF Crash, disk
<1>3. CASE Restart
  <2>1. /\ UNCHANGED <<options, torn>> /\ pc' = [r \in Ranks |-> "count"]
        /\ files' = [r \in Ranks |-> IF why = "cannot resume checkpoint" THEN Nothing ELSE files[r]]
    BY <1>3 DEF Restart
  <2>2. \A r \in Ranks : Numbered(pc'[r], mem'[r])
    BY <2>1 DEF Numbered, Late
  <2>3. ~torn => \A r \in Ranks : FileNumbered(files'[r])
    BY <2>1 DEF NumberInv, FileNumbered
  <2>. QED
    BY <2>1, <2>2, <2>3, NumberAgain
<1>4. CASE UNCHANGED vars
  <2>1. UNCHANGED <<options, pc, mem, files, torn>>
    BY <1>4 DEF vars, disk, history
  <2>. QED
    BY <2>1, NumberAgain DEF NumberInv
<1>. QED
  BY <1>1, <1>2, <1>3, <1>4

LEMMA InitNumbers == Init => NumberInv
<1>. SUFFICES ASSUME Init PROVE NumberInv
  OBVIOUS
<1>1. \A r \in Ranks : Numbered(pc[r], mem[r])
  BY DEF Init, Numbered, Late
<1>. QED
  BY <1>1 DEF Init, NumberInv, FileNumbered

LEMMA NumbersKeep == IInv /\ ReplicaInv /\ FedInv /\ NumberInv /\ [Next]_vars => NumberInv'
BY AloneNumbers, TogetherNumbers, OtherNumbers DEF Next

\* With the number of steps, and what the replicas' invariant says of files.
LEMMA FilesFit == ReplicaInv /\ NumberInv => CheckpointsBelongTogether
<1>. SUFFICES ASSUME ReplicaInv, NumberInv, ~torn, NEW r \in Ranks, NEW s \in Ranks,
                     files[r] # Nothing
              PROVE  /\ files[r].model.number = files[r].epoch * EffectiveSteps
                     /\ files[s] # Nothing =>
                          /\ files[s].epoch - files[r].epoch <= CheckpointEpochs
                          /\ files[s].epoch = files[r].epoch =>
                                files[s].model.replica = files[r].model.replica
  BY DEF CheckpointsBelongTogether
<1>1. files[r].model.number = files[r].epoch * EffectiveSteps
  BY DEF NumberInv, FileNumbered
<1>2. ASSUME files[s] # Nothing
      PROVE  /\ files[s].epoch - files[r].epoch <= CheckpointEpochs
             /\ files[s].epoch = files[r].epoch => files[s].model.replica = files[r].model.replica
  <2>1. FitTogether(files[r], files[s]) /\ FileOK(files[r]) /\ FileOK(files[s])
    BY <1>2 DEF ReplicaInv, Replicated
  <2>2. files[s].epoch \in Nat /\ files[r].epoch \in Nat /\ files[s].epoch <= files[r].epoch + CheckpointEpochs
    BY <2>1 DEF FitTogether, FileOK
  <2>3. files[s].epoch - files[r].epoch <= CheckpointEpochs
    BY <2>2, CheckpointAssumption DEF CheckpointAssumption
  <2>. QED
    BY <2>1, <2>3 DEF FitTogether
<1>. QED
  BY <1>1, <1>2

\* For any number of ranks, any data and any crashes and failed writes, as long
\* as no job has resumed from files of different epochs: a file has the steps of
\* the epochs it claims, neither more nor fewer, files are at most a checkpoint
\* apart, and those of one epoch hold one model.
THEOREM CheckpointsAlwaysBelongTogether == Spec => []CheckpointsBelongTogether
BY InitHolds, NextKeeps, InitReplicas, ReplicasKeep, InitFed, FedKeeps, InitNumbers, NumbersKeep,
   FilesFit, PTL DEF Spec

-----------------------------------------------------------------------------
(***************************************************************************)
(* Powers of two, and numbers that they go into.  PowerOf2 is a table made *)
(* anew for each exponent; that there is one, and that tables of different *)
(* lengths have the same entries, is proved first.                         *)
(***************************************************************************)
\* p[k] is the power of two with exponent k, up to n.
Powers(p, n) == p = [k \in 0 .. n |-> IF k = 0 THEN 1 ELSE 2 * p[k - 1]]

\* Every n has a table of powers.
LEMMA PowersExist == \A n \in Nat : \E p : Powers(p, n)
<1>. DEFINE S == {n \in Nat : \E p : Powers(p, n)}
<1>1. 0 \in S
  <2>. DEFINE p == [k \in 0 .. 0 |-> 1]
  <2>1. p = [k \in 0 .. 0 |-> IF k = 0 THEN 1 ELSE 2 * p[k - 1]]
    OBVIOUS
  <2>. QED
    BY <2>1 DEF Powers
<1>2. ASSUME NEW n \in Nat, n \in S PROVE n + 1 \in S
  <2>1. PICK p : p = [k \in 0 .. n |-> IF k = 0 THEN 1 ELSE 2 * p[k - 1]]
    BY <1>2 DEF Powers
  <2>. DEFINE q == [k \in 0 .. n + 1 |-> IF k = 0 THEN 1 ELSE 2 * p[k - 1]]
  <2>2. \A k \in 0 .. n : q[k] = p[k]
    BY <2>1
  <2>3. q = [k \in 0 .. n + 1 |-> IF k = 0 THEN 1 ELSE 2 * q[k - 1]]
    <3>1. \A k \in 0 .. n + 1 : k # 0 => k - 1 \in 0 .. n
      OBVIOUS
    <3>. QED
      BY <2>2, <3>1
  <2>. HIDE DEF q
  <2>4. Powers(q, n + 1)
    BY <2>3 DEF Powers
  <2>. QED
    BY <2>4
<1>. HIDE DEF S
<1>3. Nat \subseteq S
  BY <1>1, <1>2, IndSet
<1>. QED
  BY <1>3 DEF S

\* Tables of different lengths have the same powers.
LEMMA PowersAgree ==
  ASSUME NEW m \in Nat, NEW n \in Nat, NEW p, NEW q, Powers(p, m), Powers(q, n)
  PROVE  \A k \in Nat : k <= m /\ k <= n => p[k] = q[k]
<1>. DEFINE S == {k \in Nat : k <= m /\ k <= n => p[k] = q[k]}
<1>1. \A k \in 0 .. m : p[k] = IF k = 0 THEN 1 ELSE 2 * p[k - 1]
  BY DEF Powers
<1>2. \A k \in 0 .. n : q[k] = IF k = 0 THEN 1 ELSE 2 * q[k - 1]
  BY DEF Powers
<1>3. 0 \in S
  BY <1>1, <1>2
<1>4. ASSUME NEW k \in Nat, k \in S PROVE k + 1 \in S
  <2>. SUFFICES ASSUME k + 1 <= m, k + 1 <= n PROVE p[k + 1] = q[k + 1]
    OBVIOUS
  <2>1. p[k] = q[k]
    BY <1>4
  <2>2. k + 1 \in 0 .. m /\ k + 1 \in 0 .. n /\ k + 1 # 0 /\ (k + 1) - 1 = k
    OBVIOUS
  <2>. QED
    BY <1>1, <1>2, <2>1, <2>2
<1>. HIDE DEF S
<1>5. Nat \subseteq S
  BY <1>3, <1>4, IndSet
<1>. QED
  BY <1>5 DEF S

\* The powers of two, from one to the next.
LEMMA PowerFacts ==
  /\ PowerOf2(0) = 1
  /\ \A n \in Nat : PowerOf2(n + 1) = 2 * PowerOf2(n)
  /\ \A n \in Nat : PowerOf2(n) \in Nat \ {0}
<1>. DEFINE p(n) == CHOOSE f : Powers(f, n)
<1>1. ASSUME NEW n \in Nat PROVE Powers(p(n), n) /\ PowerOf2(n) = p(n)[n]
  <2>1. Powers(p(n), n)
    BY PowersExist
  <2>2. PowerOf2(n) = p(n)[n]
    BY DEF PowerOf2, Powers
  <2>. QED
    BY <2>1, <2>2
<1>. HIDE DEF p
<1>2. PowerOf2(0) = 1
  <2>1. p(0)[0] = 1
    BY <1>1 DEF Powers
  <2>. QED
    BY <1>1, <2>1
<1>3. ASSUME NEW n \in Nat PROVE PowerOf2(n + 1) = 2 * PowerOf2(n)
  <2>1. p(n + 1)[n] = p(n)[n]
    BY <1>1, PowersAgree
  <2>2. p(n + 1)[n + 1] = 2 * p(n + 1)[(n + 1) - 1]
    <3>. DEFINE f == p(n + 1)
    <3>1. f = [k \in 0 .. n + 1 |-> IF k = 0 THEN 1 ELSE 2 * f[k - 1]]
      <4>1. n + 1 \in Nat
        OBVIOUS
      <4>2. Powers(p(n + 1), n + 1)
        BY <1>1, <4>1
      <4>. QED
        BY <4>2 DEF Powers
    <3>2. n + 1 \in 0 .. n + 1 /\ n + 1 # 0
      OBVIOUS
    <3>. HIDE DEF f
    <3>3. f[n + 1] = 2 * f[(n + 1) - 1]
      BY <3>1, <3>2
    <3>. QED
      BY <3>3 DEF f
  <2>. QED
    BY <1>1, <2>1, <2>2
<1>4. \A n \in Nat : PowerOf2(n) \in Nat \ {0}
  <2>. DEFINE S == {n \in Nat : PowerOf2(n) \in Nat \ {0}}
  <2>1. 0 \in S
    BY <1>2
  <2>2. \A n \in Nat : n \in S => n + 1 \in S
    BY <1>3
  <2>. HIDE DEF S
  <2>3. Nat \subseteq S
    BY <2>1, <2>2, IndSet
  <2>. QED
    BY <2>3 DEF S
<1>. QED
  BY <1>2, <1>3, <1>4

\* Exponents add up.
LEMMA PowersMultiply ==
  ASSUME NEW a \in Nat, NEW b \in Nat
  PROVE  PowerOf2(a + b) = PowerOf2(a) * PowerOf2(b)
<1>. DEFINE S == {n \in Nat : PowerOf2(a + n) = PowerOf2(a) * PowerOf2(n)}
<1>1. 0 \in S
  BY PowerFacts
<1>2. ASSUME NEW n \in Nat, n \in S PROVE n + 1 \in S
  <2>. DEFINE x == PowerOf2(a)
              y == PowerOf2(n)
  <2>1. PowerOf2(a + n) = x * y /\ x \in Nat /\ y \in Nat
    BY <1>2, PowerFacts
  <2>2. a + n \in Nat /\ a + (n + 1) = (a + n) + 1
    OBVIOUS
  <2>3. PowerOf2(a + (n + 1)) = 2 * (x * y) /\ PowerOf2(n + 1) = 2 * y
    BY <2>1, <2>2, PowerFacts
  <2>. HIDE DEF x, y
  <2>4. 2 * (x * y) = x * (2 * y)
    BY <2>1
  <2>. QED
    BY <2>3, <2>4 DEF x
<1>. HIDE DEF S
<1>3. Nat \subseteq S
  BY <1>1, <1>2, IndSet
<1>. QED
  BY <1>3 DEF S

\* A number that can be halved k times without a rest.
Halves(v, k) == \E a \in Int : v = a * PowerOf2(k)

\* It can be halved fewer times, and the rest of the times after that.
LEMMA HalvesLess ==
  ASSUME NEW v, NEW k \in Nat, NEW n \in Nat, n <= k, Halves(v, k)
  PROVE  /\ v \in Int /\ Halves(v, n)
         /\ v \div PowerOf2(n) \in Int /\ Halves(v \div PowerOf2(n), k - n)
<1>1. PICK a \in Int : v = a * PowerOf2(k)
  BY DEF Halves
<1>. DEFINE p == PowerOf2(n)
            q == PowerOf2(k - n)
<1>2. k - n \in Nat /\ n + (k - n) = k
  OBVIOUS
<1>3. PowerOf2(k) = p * q /\ p \in Nat \ {0} /\ q \in Nat
  BY <1>2, PowersMultiply, PowerFacts
<1>. HIDE DEF p, q
<1>. DEFINE w == a * q
<1>4. w \in Int /\ v = w * p /\ v \in Int
  BY <1>1, <1>3
<1>. HIDE DEF w
<1>5. v \div p = w
  BY <1>3, <1>4
<1>6. Halves(v, n)
  BY <1>4 DEF Halves, p
<1>. QED
  BY <1>4, <1>5, <1>6 DEF Halves, p, q, w

\* So can the sum of two such numbers.
LEMMA HalvesSum ==
  ASSUME NEW v, NEW w, NEW k \in Nat, Halves(v, k), Halves(w, k)
  PROVE  Halves(v + w, k)
<1>1. PICK a \in Int : v = a * PowerOf2(k)
  BY DEF Halves
<1>2. PICK b \in Int : w = b * PowerOf2(k)
  BY DEF Halves
<1>. DEFINE p == PowerOf2(k)
<1>3. p \in Nat
  BY PowerFacts
<1>. HIDE DEF p
<1>4. a * p + b * p = (a + b) * p /\ a + b \in Int
  BY <1>3
<1>. QED
  BY <1>1, <1>2, <1>4 DEF Halves, p

\* One more step without a gradient.
LEMMA DriftGrows ==
  ASSUME NEW v, NEW e \in Nat, Halves(v, e), NEW k \in Nat, k + 3 <= e
  PROVE  LET u == v \div PowerOf2(k)
             w == v \div PowerOf2(k + 1)
         IN  /\ u \in Int /\ w = u \div 2 /\ w \in Int
             /\ Drift(v, k) \in Int
             /\ Drift(v, k + 1) = Drift(v, k) + IF Nesterov THEN w \div 2 ELSE w
<1>. DEFINE p == PowerOf2(k)
            u == v \div PowerOf2(k)
            w == v \div PowerOf2(k + 1)
<1>1. v \in Int /\ Halves(u, e - k) /\ u \in Int
  BY HalvesLess
<1>2. Halves(v, 1 + k) /\ Halves(u, 3)
  <2>1. 1 + k \in Nat /\ 1 + k <= e /\ 3 \in Nat /\ e - k \in Nat /\ 3 <= e - k
    OBVIOUS
  <2>. QED
    BY <1>1, <2>1, HalvesLess
<1>3. PowerOf2(3) = 8 /\ PowerOf2(k + 1) = 2 * p /\ p \in Nat \ {0}
  <2>1. PowerOf2(1) = 2
    BY PowerFacts
  <2>2. PowerOf2(2) = 4
    <3>1. PowerOf2(1 + 1) = 2 * PowerOf2(1) /\ 1 + 1 = 2
      BY PowerFacts
    <3>. QED
      BY <2>1, <3>1
  <2>3. PowerOf2(3) = 8
    <3>1. PowerOf2(2 + 1) = 2 * PowerOf2(2) /\ 2 + 1 = 3
      BY PowerFacts
    <3>. QED
      BY <2>2, <3>1
  <2>. QED
    BY <2>3, PowerFacts
<1>4. PICK z \in Int : u = z * 8
  BY <1>2, <1>3 DEF Halves
<1>5. PICK y \in Int : v = y * (2 * p)
  BY <1>2, <1>3 DEF Halves
<1>6. u = v \div p /\ w = v \div (2 * p)
  BY <1>3
<1>. HIDE DEF p, u, w
<1>7. v \div p = 2 * y /\ v \div (2 * p) = y
  <2>1. v = (2 * y) * p
    BY <1>3, <1>5
  <2>2. 2 * p \in Nat \ {0}
    BY <1>3
  <2>3. v \div p = 2 * y
    BY <1>3, <2>1
  <2>. DEFINE q == 2 * p
  <2>. HIDE DEF q
  <2>4. v \div q = y
    BY <1>5, <2>2 DEF q
  <2>. QED
    BY <2>3, <2>4 DEF q
<1>8. y = 4 * z
  BY <1>4, <1>6, <1>7
<1>9. w = u \div 2 /\ w = 4 * z
  BY <1>4, <1>6, <1>7, <1>8
<1>10. PICK b \in Int : v = 2 * b
  <2>1. v = 2 * (y * p) /\ y * p \in Int
    BY <1>3, <1>5
  <2>. QED
    BY <2>1
<1>11. /\ Drift(v, k) = IF Nesterov THEN b - 4 * z ELSE v - u
       /\ Drift(v, k + 1) = IF Nesterov THEN b - 2 * z ELSE v - w
  <2>1. (v - u) \div 2 = b - 4 * z /\ (v - w) \div 2 = b - 2 * z
    BY <1>4, <1>9, <1>10
  <2>. QED
    BY <2>1 DEF Drift, u, w
<1>12. w \div 2 = 2 * z
  BY <1>9
<1>. QED
  BY <1>1, <1>4, <1>9, <1>10, <1>11, <1>12 DEF u, w

\* Nothing is lost in no step.
LEMMA NoDrift == \A v \in Int : Drift(v, 0) = 0 /\ v \div PowerOf2(0) = v
BY PowerFacts DEF Drift

-----------------------------------------------------------------------------
(***************************************************************************)
(* Rows.  A row that is behind is brought up to date by the drift of its   *)
(* velocity over the steps it missed.  A step without a gradient adds one  *)
(* to them, a step with one makes up for them all; that no rest is lost    *)
(* needs velocities which can be halved once in every step left.           *)
(***************************************************************************)
\* The steps of the whole training; what a rank owns once the owners are made.
AllSteps == Epochs * StepsPerEpoch
OwnersMade == AssignOwners(Corpus)
Of(r, row) == OwnersMade[row[1]] = r

\* After n steps, the row x brought up to date is d; its velocity can be halved
\* by all the steps left.
RowRecords == [weight: Int, velocity: Int, last: Nat]
Exactly(x, d, n) ==
    /\ x.last <= n
    /\ Halves(x.velocity, AllSteps - x.last + 2)
    /\ d.velocity = x.velocity \div PowerOf2(n - x.last)
    /\ d.weight = x.weight - Drift(x.velocity, n - x.last)

\* The model of a rank, and a model of at most limit steps.
ModelDense(m, r) ==
    /\ ModelFields \subseteq DOMAIN m /\ m.number \in Nat
    /\ m.rows \in [Rows -> RowRecords] /\ m.dense \in [Rows -> RowRecords]
    /\ \A row \in Rows :
          IF Of(r, row) THEN Exactly(m.rows[row], m.dense[row], m.number)
          ELSE m.rows[row].weight = 0
Kept(m, r, limit) == ModelDense(m, r) /\ m.number <= limit

\* A step with a gradient: the row is brought up to date and stepped.
LEMMA UsedRow ==
  ASSUME NEW x \in RowRecords, NEW d \in RowRecords, NEW n \in Nat, AllSteps \in Nat,
         n + 1 <= AllSteps, Exactly(x, d, n), NEW g \in Int, Halves(g, AllSteps + 1)
  PROVE  /\ LazyMomentum(x, g, n + 1) \in RowRecords /\ Stepped(d, g) \in RowRecords
         /\ Exactly(LazyMomentum(x, g, n + 1), Stepped(d, g), n + 1)
<1>. DEFINE k == n - x.last
            v == x.velocity
            u == v \div PowerOf2(k)
            w == u \div 2 + g
            fall == IF Nesterov THEN g + w \div 2 ELSE w
            left == AllSteps - n + 1
<1>1. /\ x.last \in Nat /\ x.last <= n /\ v \in Int /\ x.weight \in Int
      /\ d.weight \in Int /\ d.velocity = u /\ d.weight = x.weight - Drift(v, k)
      /\ k \in Nat /\ Halves(v, AllSteps - x.last + 2)
  BY DEF RowRecords, Exactly
<1>2. /\ AllSteps - x.last + 2 \in Nat /\ k <= AllSteps - x.last + 2 /\ left \in Nat
      /\ (AllSteps - x.last + 2) - k = left + 1
  BY <1>1
<1>3. u \in Int /\ Halves(u, left + 1)
  BY <1>1, <1>2, HalvesLess
<1>4. u \div 2 \in Int /\ Halves(u \div 2, left)
  <2>1. PowerOf2(0 + 1) = 2 /\ 0 + 1 = 1
    BY PowerFacts
  <2>2. left + 1 \in Nat /\ 1 <= left + 1 /\ (left + 1) - 1 = left
    BY <1>2
  <2>. HIDE DEF u, left
  <2>. QED
    BY <1>3, <2>1, <2>2, HalvesLess
<1>5. w \in Int /\ Halves(w, left)
  <2>1. AllSteps + 1 \in Nat /\ left <= AllSteps + 1
    BY <1>2
  <2>2. Halves(g, left)
    BY <1>2, <2>1, HalvesLess
  <2>. QED
    BY <1>2, <1>4, <2>2, HalvesSum
<1>6. fall \in Int
  BY <1>5
<1>7. Drift(v, k) \in Int
  <2>1. Drift(v, k) = x.weight - d.weight \/ Drift(v, k) \in Int
    <3>1. (v - u) \in Int /\ (v - u) \div 2 \in Int
      BY <1>1, <1>3
    <3>. QED
      BY <1>1, <1>3, <3>1 DEF Drift
  <2>. QED
    BY <1>1, <2>1
<1>8. /\ Stepped(d, g).weight = d.weight - fall /\ Stepped(d, g).velocity = w
      /\ Stepped(d, g) \in RowRecords
  <2>1. d = [weight |-> d.weight, velocity |-> d.velocity, last |-> d.last] /\ d.last \in Nat
    BY DEF RowRecords
  <2>2. Stepped(d, g) = [weight |-> d.weight - fall, velocity |-> w, last |-> d.last]
    <3>. HIDE DEF fall
    <3>1. Stepped(d, g) = [d EXCEPT !.velocity = w, !.weight = d.weight - fall]
      BY <1>1, <2>1 DEF Stepped, fall
    <3>. HIDE DEF w, u
    <3>. QED
      BY <2>1, <3>1
  <2>3. d.weight - fall \in Int
    <3>. HIDE DEF fall
    <3>. QED
      BY <1>1, <1>6
  <2>. HIDE DEF w, fall
  <2>. QED
    BY <1>5, <2>1, <2>2, <2>3 DEF RowRecords
<1>9. LazyMomentum(x, g, n + 1) = [weight |-> d.weight - fall, velocity |-> w, last |-> n + 1]
  <2>1. Skipped(x, n + 1) = k
    BY <1>1 DEF Skipped
  <2>2. x = [weight |-> x.weight, velocity |-> v, last |-> x.last]
    BY DEF RowRecords
  <2>3. CaughtUp(x, k) = [x EXCEPT !.weight = x.weight - Drift(v, k), !.velocity = u]
    BY <2>2 DEF CaughtUp
  <2>. DEFINE y == CaughtUp(x, k)
  <2>4. y = [weight |-> d.weight, velocity |-> u, last |-> x.last]
    <3>. HIDE DEF u, v, k
    <3>. QED
      BY <1>1, <2>2, <2>3
  <2>. HIDE DEF y
  <2>5. Stepped(y, g) = [weight |-> d.weight - fall, velocity |-> w, last |-> x.last]
    <3>. HIDE DEF fall
    <3>1. Stepped(y, g) = [y EXCEPT !.velocity = w, !.weight = d.weight - fall]
      <4>. HIDE DEF u
      <4>. QED
        BY <2>4 DEF Stepped, fall
    <3>. HIDE DEF w, u
    <3>. QED
      BY <2>4, <3>1
  <2>6. LazyMomentum(x, g, n + 1) = [Stepped(y, g) EXCEPT !.last = n + 1]
    BY <2>1 DEF LazyMomentum, y
  <2>. HIDE DEF w, fall
  <2>. QED
    BY <2>5, <2>6
<1>. DEFINE z == LazyMomentum(x, g, n + 1)
<1>10. z.weight = d.weight - fall /\ z.velocity = w /\ z.last = n + 1
  BY <1>9
<1>11. z \in RowRecords
  <2>1. d.weight - fall \in Int
    <3>. HIDE DEF fall
    <3>. QED
      BY <1>1, <1>6
  <2>. HIDE DEF w, fall
  <2>. QED
    BY <1>5, <1>9, <2>1 DEF RowRecords
<1>. HIDE DEF z, w, fall
<1>12. Exactly(z, Stepped(d, g), n + 1)
  <2>1. AllSteps - (n + 1) + 2 = left /\ (n + 1) - (n + 1) = 0
    BY <1>2
  <2>2. Drift(w, 0) = 0 /\ w \div PowerOf2(0) = w
    BY <1>5, NoDrift
  <2>3. d.weight - fall \in Int
    BY <1>1, <1>6
  <2>4. (d.weight - fall) - 0 = d.weight - fall
    BY <2>3
  <2>. QED
    BY <1>5, <1>8, <1>10, <2>1, <2>2, <2>4 DEF Exactly
<1>. QED
  BY <1>8, <1>11, <1>12 DEF z

\* A step without one: the row is left, and what it is behind grows by a step.
LEMMA UnusedRow ==
  ASSUME NEW x \in RowRecords, NEW d \in RowRecords, NEW n \in Nat, AllSteps \in Nat,
         n + 1 <= AllSteps, Exactly(x, d, n)
  PROVE  Stepped(d, 0) \in RowRecords /\ Exactly(x, Stepped(d, 0), n + 1)
<1>. DEFINE k == n - x.last
            v == x.velocity
            u == v \div PowerOf2(k)
            w == v \div PowerOf2(k + 1)
            fall == IF Nesterov THEN w \div 2 ELSE w
            e == AllSteps - x.last + 2
<1>1. /\ x.last \in Nat /\ x.last <= n /\ v \in Int /\ x.weight \in Int
      /\ d.weight \in Int /\ d.velocity = u /\ d.weight = x.weight - Drift(v, k)
      /\ k \in Nat /\ Halves(v, e)
  BY DEF RowRecords, Exactly
<1>2. e \in Nat /\ k + 3 <= e /\ (n + 1) - x.last = k + 1
  BY <1>1
<1>3. /\ u \in Int /\ w = u \div 2 /\ w \in Int /\ Drift(v, k) \in Int
      /\ Drift(v, k + 1) = Drift(v, k) + fall
  <2>. HIDE DEF e, v, k
  <2>. QED
    BY <1>1, <1>2, DriftGrows
<1>4. fall \in Int
  BY <1>3
<1>5. d = [weight |-> d.weight, velocity |-> d.velocity, last |-> d.last] /\ d.last \in Nat
  BY DEF RowRecords
<1>6. Stepped(d, 0) = [weight |-> d.weight - fall, velocity |-> w, last |-> d.last]
  <2>. HIDE DEF u, v, k, w
  <2>0. d.velocity \div 2 + 0 = w /\ 0 + w \div 2 = w \div 2
    BY <1>1, <1>3
  <2>. DEFINE c == d.velocity \div 2 + 0
  <2>1. Stepped(d, 0) = [d EXCEPT !.velocity = c,
                                   !.weight = d.weight - IF Nesterov THEN 0 + c \div 2 ELSE c]
    BY <1>5 DEF Stepped
  <2>. HIDE DEF c
  <2>2. c = w
    BY <2>0 DEF c
  <2>. QED
    BY <1>5, <2>0, <2>1, <2>2
<1>. HIDE DEF w, fall, u
<1>7. Stepped(d, 0) \in RowRecords
  <2>1. d.weight - fall \in Int
    BY <1>1, <1>4
  <2>. QED
    BY <1>3, <1>5, <1>6, <2>1 DEF RowRecords
<1>8. Exactly(x, Stepped(d, 0), n + 1)
  <2>1. d.weight - fall = x.weight - Drift(v, k + 1)
    <3>. DEFINE a == Drift(v, k)
                b == Drift(v, k + 1)
    <3>. HIDE DEF a, b
    <3>1. d.weight = x.weight - a /\ a \in Int /\ b = a + fall
      BY <1>1, <1>3 DEF a, b
    <3>2. d.weight - fall = x.weight - b
      BY <1>1, <1>4, <3>1
    <3>. QED
      BY <3>2 DEF b
  <2>2. Stepped(d, 0).weight = d.weight - fall /\ Stepped(d, 0).velocity = w
    BY <1>6
  <2>3. x.last <= n + 1
    BY <1>1
  <2>. QED
    BY <1>1, <1>2, <2>1, <2>2, <2>3 DEF Exactly, w, e, v
<1>. QED
  BY <1>7, <1>8

\* The end of the training, or the next epoch: a row brought up to date.
LEMMA FlushedRow ==
  ASSUME NEW x \in RowRecords, NEW d \in RowRecords, NEW n \in Nat, AllSteps \in Nat,
         n <= AllSteps, Exactly(x, d, n)
  PROVE  /\ FlushMomentum(x, n) \in RowRecords /\ FlushMomentum(x, n).last = n
         /\ FlushMomentum(x, n).weight = d.weight
         /\ Exactly(FlushMomentum(x, n), d, n)
<1>. DEFINE k == n - x.last
            v == x.velocity
            u == v \div PowerOf2(k)
            left == AllSteps - n + 2
<1>1. /\ x.last \in Nat /\ x.last <= n /\ v \in Int /\ x.weight \in Int
      /\ d.weight \in Int /\ d.velocity = u /\ d.weight = x.weight - Drift(v, k)
      /\ k \in Nat /\ Halves(v, AllSteps - x.last + 2)
  BY DEF RowRecords, Exactly
<1>2. /\ AllSteps - x.last + 2 \in Nat /\ k <= AllSteps - x.last + 2 /\ left \in Nat
      /\ (AllSteps - x.last + 2) - k = left /\ n - n = 0
  BY <1>1
<1>3. u \in Int /\ Halves(u, left)
  BY <1>1, <1>2, HalvesLess
<1>4. FlushMomentum(x, n) = [weight |-> d.weight, velocity |-> u, last |-> n]
  <2>1. x = [weight |-> x.weight, velocity |-> v, last |-> x.last]
    BY DEF RowRecords
  <2>2. CaughtUp(x, k) = [x EXCEPT !.weight = x.weight - Drift(v, k), !.velocity = u]
    BY <2>1 DEF CaughtUp
  <2>3. CaughtUp(x, k) = [weight |-> d.weight, velocity |-> u, last |-> x.last]
    <3>. HIDE DEF u, v, k
    <3>. QED
      BY <1>1, <2>1, <2>2
  <2>. HIDE DEF u
  <2>. QED
    BY <2>3 DEF FlushMomentum
<1>. DEFINE z == FlushMomentum(x, n)
<1>5. z.weight = d.weight /\ z.velocity = u /\ z.last = n
  BY <1>4
<1>6. Drift(u, 0) = 0 /\ u \div PowerOf2(0) = u
  BY <1>3, NoDrift
<1>. HIDE DEF u
<1>7. z \in RowRecords
  BY <1>1, <1>3, <1>4 DEF RowRecords
<1>. HIDE DEF z
<1>8. d.weight - 0 = d.weight
  BY <1>1
<1>9. Exactly(z, d, n)
  BY <1>1, <1>2, <1>3, <1>5, <1>6, <1>8 DEF Exactly
<1>. QED
  BY <1>5, <1>7, <1>9 DEF z

-----------------------------------------------------------------------------
(***************************************************************************)
(* Models.  Every row a rank owns is exactly so far behind, and of the     *)
(* rows of others it has nothing.                                          *)
(***************************************************************************)
\* The number of steps, and a unit that all divisions go into.
LEMMA UnitFacts ==
  ASSUME options \in OptionSets
  PROVE  /\ StepsPerEpoch \in Nat /\ AllSteps \in Nat
         /\ InitialWeight \in Int /\ Unit \in Nat
         /\ \A n \in 1 .. GlobalCount : Unit % (n * PowerOf2(AllSteps + 1)) = 0
<1>1. StepsPerEpoch \in Nat
  BY StepFacts
<1>. DEFINE count == Cardinality(CorpusOf(options))
            steps == (count + options.batch - 1) \div options.batch
<1>2. \A n \in 1 .. count : Unit % (n * PowerOf2(Epochs * steps + 1)) = 0
  BY UnitAssumption DEF UnitAssumption
<1>3. count = GlobalCount /\ steps = StepsPerEpoch
  BY DEF GlobalCount, Corpus, StepsPerEpoch
<1>. HIDE DEF count, steps
<1>4. \A n \in 1 .. GlobalCount : Unit % (n * PowerOf2(AllSteps + 1)) = 0
  BY <1>2, <1>3 DEF AllSteps
<1>5. AllSteps \in Nat
  BY <1>1, SizesAssumption DEF AllSteps, SizesAssumption
<1>. QED
  BY <1>1, <1>4, <1>5, UnitAssumption DEF UnitAssumption

\* A gradient can be halved in every step of the training and once more.
LEMMA GradientHalves ==
  ASSUME options \in OptionSets, NEW global, global \subseteq Corpus, global # {},
         NEW batch, batch \subseteq Corpus, NEW row
  PROVE  /\ Gradient(row, batch, global) \in Int
         /\ Halves(Gradient(row, batch, global), AllSteps + 1)
         /\ row \notin {e.row : e \in batch} => Gradient(row, batch, global) = 0
<1>. DEFINE g == Cardinality(global)
            S == {e \in batch : e.row = row}
            c == Cardinality(S)
            p == PowerOf2(AllSteps + 1)
<1>1. IsFiniteSet(Corpus) /\ GlobalCount \in Nat
  BY DataFacts
<1>2. g \in 1 .. GlobalCount
  <2>1. IsFiniteSet(global) /\ g <= GlobalCount
    BY <1>1, FS_Subset DEF GlobalCount
  <2>2. g \in Nat /\ g # 0
    BY <2>1, FS_CardinalityType, FS_EmptySet
  <2>. QED
    BY <1>1, <2>1, <2>2
<1>3. c \in Nat
  <2>1. S \subseteq Corpus
    OBVIOUS
  <2>. HIDE DEF S
  <2>. QED
    BY <1>1, <2>1, FS_Subset, FS_CardinalityType
<1>4. p \in Nat \ {0} /\ Unit \in Nat /\ Unit % (g * p) = 0
  <2>1. AllSteps + 1 \in Nat
    BY UnitFacts
  <2>. QED
    BY <1>2, <2>1, UnitFacts, PowerFacts
<1>5. Gradient(row, batch, global) = (Unit * c) \div g
  BY DEF Gradient
<1>6. row \notin {e.row : e \in batch} => c = 0
  <2>1. ASSUME row \notin {e.row : e \in batch} PROVE S = {}
    BY <2>1
  <2>. HIDE DEF S
  <2>. QED
    BY <2>1, FS_EmptySet
<1>7. g \in Nat \ {0}
  BY <1>1, <1>2
<1>. HIDE DEF g, c, p
<1>. DEFINE gp == g * p
            q == Unit \div gp
<1>8. gp \in Nat \ {0}
  BY <1>4, <1>7
<1>9. q \in Int /\ Unit = q * gp
  <2>1. Unit % gp = 0
    BY <1>4
  <2>. HIDE DEF gp
  <2>. QED
    BY <1>4, <1>8, <2>1
<1>. HIDE DEF q
<1>. DEFINE a == q * c
<1>10. a \in Int
  BY <1>3, <1>9
<1>11. Unit * c = (a * p) * g
  BY <1>3, <1>4, <1>7, <1>9
<1>. HIDE DEF gp
<1>. DEFINE b == a * p
<1>12. b \in Int
  BY <1>4, <1>10
<1>13. Unit * c = b * g
  BY <1>11
<1>. HIDE DEF a, b
<1>14. (b * g) \div g = b
  BY <1>7, <1>12
<1>15. Gradient(row, batch, global) = b
  BY <1>5, <1>13, <1>14
<1>16. Halves(b, AllSteps + 1)
  BY <1>10 DEF Halves, b, p
<1>17. c = 0 => b = 0
  <2>1. c = 0 => (Unit * c) \div g = 0
    BY <1>4, <1>7
  <2>. QED
    BY <1>5, <1>15, <2>1
<1>. QED
  BY <1>6, <1>12, <1>15, <1>16, <1>17

\* A step of a model, with a batch of records of its own.
LEMMA StepKeepsDense ==
  ASSUME options \in OptionSets, NEW r, NEW m, ModelDense(m, r), m.number + 1 <= AllSteps,
         NEW global, global \subseteq Corpus, global # {},
         NEW batch, \A e \in batch : e \in Corpus /\ Of(r, e.row)
  PROVE  ModelDense(Updated(m, batch, global), r) /\ Updated(m, batch, global).number = m.number + 1
<1>. DEFINE n == m.number
            g(row) == Gradient(row, batch, global)
            used == {e.row : e \in batch}
            lazy(row) == IF row \in used THEN LazyMomentum(m.rows[row], g(row), n + 1) ELSE m.rows[row]
            whole(row) == Stepped(m.dense[row], g(row))
            u == Updated(m, batch, global)
<1>1. /\ u.number = n + 1
      /\ u.rows = [row \in Rows |-> lazy(row)]
      /\ u.dense = [row \in Rows |-> whole(row)]
      /\ ModelFields \subseteq DOMAIN u
  BY DEF ModelDense, Updated, ModelFields
<1>2. n \in Nat /\ AllSteps \in Nat /\ n + 1 <= AllSteps /\ batch \subseteq Corpus
  BY UnitFacts DEF ModelDense
<1>3. ASSUME NEW row \in Rows
      PROVE  /\ g(row) \in Int /\ Halves(g(row), AllSteps + 1)
             /\ row \notin used => g(row) = 0
  BY <1>2, GradientHalves
<1>4. ASSUME NEW row \in Rows, Of(r, row)
      PROVE  /\ lazy(row) \in RowRecords /\ whole(row) \in RowRecords
             /\ Exactly(lazy(row), whole(row), n + 1)
  <2>1. /\ m.rows[row] \in RowRecords /\ m.dense[row] \in RowRecords
        /\ Exactly(m.rows[row], m.dense[row], n)
    BY <1>4 DEF ModelDense
  <2>. HIDE DEF used, n
  <2>2. CASE row \in used
    <3>1. g(row) \in Int /\ Halves(g(row), AllSteps + 1)
      BY <1>3
    <3>. HIDE DEF g
    <3>. QED
      BY <1>2, <2>1, <2>2, <3>1, UsedRow
  <2>3. CASE row \notin used
    <3>1. g(row) = 0
      BY <1>3, <2>3
    <3>. HIDE DEF g
    <3>. QED
      BY <1>2, <2>1, <2>3, <3>1, UnusedRow
  <2>. QED
    BY <2>2, <2>3
<1>5. ASSUME NEW row \in Rows, ~Of(r, row)
      PROVE  /\ lazy(row) \in RowRecords /\ whole(row) \in RowRecords /\ lazy(row).weight = 0
  <2>1. /\ m.rows[row] \in RowRecords /\ m.dense[row] \in RowRecords
        /\ m.rows[row].weight = 0
    BY <1>5 DEF ModelDense
  <2>2. row \notin used
    BY <1>5
  <2>3. lazy(row) = m.rows[row] /\ g(row) = 0
    BY <1>3, <2>2
  <2>. HIDE DEF g, lazy
  <2>4. Stepped(m.dense[row], 0) \in RowRecords
    <3>. DEFINE d == m.dense[row]
                w == d.velocity \div 2 + 0
                fall == IF Nesterov THEN 0 + w \div 2 ELSE w
    <3>1. /\ d = [weight |-> d.weight, velocity |-> d.velocity, last |-> d.last]
          /\ d.last \in Nat /\ d.weight \in Int /\ d.velocity \in Int
      BY <2>1 DEF RowRecords
    <3>. HIDE DEF d
    <3>2. w \in Int
      BY <3>1
    <3>3. Stepped(d, 0) = [d EXCEPT !.velocity = w, !.weight = d.weight - fall]
      BY <3>1 DEF Stepped
    <3>. HIDE DEF w
    <3>4. d.weight - fall \in Int
      BY <3>1, <3>2
    <3>5. Stepped(d, 0) = [weight |-> d.weight - fall, velocity |-> w, last |-> d.last]
      BY <3>1, <3>3
    <3>. QED
      BY <3>1, <3>2, <3>4, <3>5 DEF RowRecords, d
  <2>. QED
    BY <2>1, <2>3, <2>4
<1>. HIDE DEF g, used, lazy, whole, u, n
<1>6. \A row \in Rows : lazy(row) \in RowRecords /\ whole(row) \in RowRecords
  BY <1>4, <1>5
<1>7. /\ u.rows \in [Rows -> RowRecords] /\ u.dense \in [Rows -> RowRecords]
      /\ \A row \in Rows : u.rows[row] = lazy(row) /\ u.dense[row] = whole(row)
  BY <1>1, <1>6
<1>8. n + 1 \in Nat
  BY <1>2
<1>9. ModelDense(u, r)
  BY <1>1, <1>4, <1>5, <1>7, <1>8 DEF ModelDense
<1>. QED
  BY <1>1, <1>9 DEF u, n

\* A new model has made no step.
LEMMA InitialModelDense ==
  ASSUME options \in OptionSets, NEW r, owners = OwnersMade
  PROVE  ModelDense(InitialModel(r), r) /\ InitialModel(r).number = 0
<1>. DEFINE m == InitialModel(r)
            x(row) == [weight |-> IF Owns(r, row[1]) THEN InitialWeight ELSE 0,
                       velocity |-> 0, last |-> 0]
<1>1. /\ m.number = 0 /\ ModelFields \subseteq DOMAIN m
      /\ m.rows = [row \in Rows |-> x(row)] /\ m.dense = [row \in Rows |-> x(row)]
  BY DEF InitialModel, ModelFields
<1>2. InitialWeight \in Int /\ AllSteps \in Nat
  BY UnitFacts
<1>3. \A row \in Rows : x(row) \in RowRecords
  BY <1>2 DEF RowRecords
<1>4. \A row : Of(r, row) <=> Owns(r, row[1])
  BY DEF Of, Owns
<1>5. Halves(0, AllSteps + 2)
  <2>1. AllSteps + 2 \in Nat
    BY <1>2
  <2>. DEFINE p == PowerOf2(AllSteps + 2)
  <2>2. p \in Nat
    BY <2>1, PowerFacts
  <2>. HIDE DEF p
  <2>3. 0 = 0 * p
    BY <2>2
  <2>. QED
    BY <2>3 DEF Halves, p
<1>6. ASSUME NEW row \in Rows
      PROVE  IF Of(r, row) THEN Exactly(x(row), x(row), 0) ELSE x(row).weight = 0
  <2>. DEFINE y == x(row)
  <2>1. y.velocity = 0 /\ y.last = 0 /\ y.weight \in Int /\ (~Of(r, row) => y.weight = 0)
    BY <1>2, <1>4
  <2>. HIDE DEF y
  <2>2. Drift(0, 0) = 0 /\ 0 \div PowerOf2(0) = 0
    BY NoDrift
  <2>3. AllSteps - 0 + 2 = AllSteps + 2 /\ 0 - 0 = 0 /\ y.weight - 0 = y.weight
    BY <1>2, <2>1
  <2>4. Exactly(y, y, 0)
    BY <1>5, <2>1, <2>2, <2>3 DEF Exactly
  <2>. QED
    BY <2>1, <2>4 DEF y
<1>. HIDE DEF m, x
<1>7. ModelDense(m, r)
  BY <1>1, <1>3, <1>6 DEF ModelDense
<1>. QED
  BY <1>1, <1>7 DEF m

\* The rows of a rank's own are brought up to date.
Flushed(m, r) ==
    [m EXCEPT !.rows =
        [row \in Rows |-> IF Of(r, row) THEN FlushMomentum(@[row], m.number) ELSE @[row]]]

\* What a flush leaves of a model.
LEMMA FlushKeepsDense ==
  ASSUME options \in OptionSets, NEW r, NEW m, ModelDense(m, r), m.number <= AllSteps
  PROVE  /\ ModelDense(Flushed(m, r), r) /\ Flushed(m, r).number = m.number
         /\ \A row \in Rows : Of(r, row) => Flushed(m, r).rows[row].last = m.number
<1>. DEFINE n == m.number
            new(row) == IF Of(r, row) THEN FlushMomentum(m.rows[row], n) ELSE m.rows[row]
            u == Flushed(m, r)
<1>1. /\ u.number = n /\ u.dense = m.dense
      /\ u.rows = [row \in Rows |-> new(row)]
      /\ ModelFields \subseteq DOMAIN u
  BY DEF ModelDense, Flushed, ModelFields
<1>2. n \in Nat /\ AllSteps \in Nat /\ n <= AllSteps
  BY UnitFacts DEF ModelDense
<1>3. ASSUME NEW row \in Rows
      PROVE  /\ new(row) \in RowRecords
             /\ IF Of(r, row) THEN Exactly(new(row), m.dense[row], n) /\ new(row).last = n
                ELSE new(row).weight = 0
  <2>1. m.rows[row] \in RowRecords /\ m.dense[row] \in RowRecords
    BY DEF ModelDense
  <2>2. CASE Of(r, row)
    <3>1. Exactly(m.rows[row], m.dense[row], n)
      BY <2>2 DEF ModelDense
    <3>. HIDE DEF n
    <3>. QED
      BY <1>2, <2>1, <2>2, <3>1, FlushedRow
  <2>3. CASE ~Of(r, row)
    BY <2>1, <2>3 DEF ModelDense
  <2>. QED
    BY <2>2, <2>3
<1>. HIDE DEF new, u, n
<1>4. /\ u.rows \in [Rows -> RowRecords] /\ m.dense \in [Rows -> RowRecords]
      /\ \A row \in Rows : u.rows[row] = new(row)
  BY <1>1, <1>3 DEF ModelDense
<1>5. ModelDense(u, r)
  BY <1>1, <1>2, <1>3, <1>4 DEF ModelDense
<1>. QED
  BY <1>1, <1>3, <1>4, <1>5 DEF u, n

\* The matrices say nothing of the rows.
LEMMA SameRows ==
  ASSUME NEW r, NEW m, ModelDense(m, r), NEW k, ModelFields \subseteq DOMAIN k,
         k.number = m.number, k.rows = m.rows, k.dense = m.dense
  PROVE  ModelDense(k, r)
BY DEF ModelDense

\* sums[n] adds up a row over the ranks below n, in the memories m.
Sums(sums, m, row, k) ==
    sums = [n \in 0 .. k |-> IF n = 0 THEN 0 ELSE sums[n - 1] + m[n - 1].model.rows[row].weight]

\* There are such sums for any number of ranks.
LEMMA SumsExist ==
  ASSUME NEW m, NEW row
  PROVE  \A n \in Nat : \E f : Sums(f, m, row, n)
<1>. DEFINE S == {n \in Nat : \E f : Sums(f, m, row, n)}
            w(n) == m[n].model.rows[row].weight
<1>1. 0 \in S
  <2>. DEFINE f == [k \in 0 .. 0 |-> 0]
  <2>1. f = [k \in 0 .. 0 |-> IF k = 0 THEN 0 ELSE f[k - 1] + w(k - 1)]
    OBVIOUS
  <2>2. Sums(f, m, row, 0)
    BY <2>1 DEF Sums
  <2>. HIDE DEF f
  <2>. QED
    BY <2>2
<1>2. ASSUME NEW n \in Nat, n \in S PROVE n + 1 \in S
  <2>1. PICK f : f = [k \in 0 .. n |-> IF k = 0 THEN 0 ELSE f[k - 1] + w(k - 1)]
    BY <1>2 DEF Sums
  <2>. HIDE DEF w
  <2>. DEFINE q == [k \in 0 .. n + 1 |-> IF k = 0 THEN 0 ELSE f[k - 1] + w(k - 1)]
  <2>2. \A k \in 0 .. n : q[k] = f[k]
    BY <2>1
  <2>3. q = [k \in 0 .. n + 1 |-> IF k = 0 THEN 0 ELSE q[k - 1] + w(k - 1)]
    <3>1. \A k \in 0 .. n + 1 : k # 0 => k - 1 \in 0 .. n
      OBVIOUS
    <3>. QED
      BY <2>2, <3>1
  <2>. HIDE DEF q
  <2>4. Sums(q, m, row, n + 1)
    BY <2>3 DEF Sums, w
  <2>. QED
    BY <2>4
<1>. HIDE DEF S
<1>3. Nat \subseteq S
  BY <1>1, <1>2, IndSet
<1>. QED
  BY <1>3 DEF S

\* A row that only one rank has is gathered as that rank has it.
LEMMA GatheredOnce ==
  ASSUME NEW row, NEW owner \in Ranks, mem[owner].model.rows[row].weight \in Int,
         \A r \in Ranks : r # owner => mem[r].model.rows[row].weight = 0
  PROVE  Gathered(row) = mem[owner].model.rows[row].weight
<1>. DEFINE f == CHOOSE g : Sums(g, mem, row, NumRanks)
            w == mem[owner].model.rows[row].weight
<1>1. Sums(f, mem, row, NumRanks)
  BY SumsExist, NumRanksAssumption DEF NumRanksAssumption
<1>2. Gathered(row) = f[NumRanks]
  BY DEF Gathered, SumOver, Sums
<1>. HIDE DEF f
<1>. DEFINE S == {n \in Nat : n <= NumRanks => f[n] = IF owner < n THEN w ELSE 0}
<1>3. NumRanks \in Nat \ {0} /\ owner \in 0 .. NumRanks - 1
  BY NumRanksAssumption DEF NumRanksAssumption, Ranks
<1>4. 0 \in S
  BY <1>1, <1>3 DEF Sums
<1>5. ASSUME NEW n \in Nat, n \in S PROVE n + 1 \in S
  <2>. SUFFICES ASSUME n + 1 <= NumRanks PROVE f[n + 1] = IF owner < n + 1 THEN w ELSE 0
    OBVIOUS
  <2>. DEFINE v == mem[n].model.rows[row].weight
  <2>1. n + 1 \in 0 .. NumRanks /\ n + 1 # 0 /\ (n + 1) - 1 = n /\ n \in Ranks /\ n <= NumRanks
    BY <1>3 DEF Ranks
  <2>2. f[n + 1] = f[n] + v
    BY <1>1, <2>1 DEF Sums
  <2>3. f[n] = IF owner < n THEN w ELSE 0
    BY <1>5, <2>1
  <2>4. v = IF n = owner THEN w ELSE 0
    BY <2>1
  <2>. HIDE DEF v, w
  <2>5. w \in Int
    BY DEF w
  <2>. QED
    BY <1>3, <2>1, <2>2, <2>3, <2>4, <2>5
<1>. HIDE DEF S
<1>6. Nat \subseteq S
  BY <1>4, <1>5, IndSet
<1>7. f[NumRanks] = IF owner < NumRanks THEN w ELSE 0
  <2>1. NumRanks \in S /\ NumRanks <= NumRanks
    BY <1>3, <1>6
  <2>. QED
    BY <2>1 DEF S
<1>. QED
  BY <1>2, <1>3, <1>7

-----------------------------------------------------------------------------

FileDense(f, r) == f # Nothing => Kept(f.model, r, f.epoch * StepsPerEpoch)

\* What the memory x of a rank holds at a label.
Dense(label, x, r) ==
    /\ label \in Early \cup Late \cup {"agree"}
    /\ label \in Early => x.model = Nothing /\ x.epoch = 0
    /\ label = "agree" =>
          (x.model = Nothing /\ ~x.ok) \/ Kept(x.model, r, x.epoch * StepsPerEpoch)
    /\ label \in Late =>
          /\ Kept(x.model, r, x.epoch * StepsPerEpoch + StepsMade(label, x))
          /\ x.epoch <= Epochs
    /\ label \in Late \ {"epoch", "gather"} => x.epoch < Epochs
    /\ label \in {"size", "sync"} => \A e \in x.batch : e \in Corpus /\ Of(r, e.row)
    /\ label = "gather" =>
          \A row \in Rows : Of(r, row) => x.model.rows[row].last = x.model.number

\* Where the owners are not yet made; the ranks step together, with a record.
Unowned == {"off", "count", "census"}
OwnersKnown == \A r \in Ranks : pc[r] \notin Unowned => owners = OwnersMade
Syncing ==
    (\E r \in Ranks : pc[r] = "sync") => GlobalOf(mem) # {} /\ \A r \in Ranks : pc[r] = "sync"
OutputDense == output # Nothing => output.rows = output.dense

DenseInv ==
    /\ \A r \in Ranks : Dense(pc[r], mem[r], r) /\ FileDense(files[r], r)
    /\ OwnersKnown /\ Syncing /\ OutputDense

\* The data stay, so it is enough to look at the new labels and memories.
LEMMA DenseAgain ==
  ASSUME options' = options,
         \A r \in Ranks : Dense(pc'[r], mem'[r], r) /\ FileDense(files'[r], r),
         OwnersKnown', Syncing', OutputDense'
  PROVE  DenseInv'
<1>1. Corpus' = Corpus /\ StepsPerEpoch' = StepsPerEpoch
  BY DataFrame
<1>2. Rows' = Rows /\ AllSteps' = AllSteps /\ OwnersMade' = OwnersMade
  BY <1>1 DEF Rows, AllSteps, OwnersMade
<1>3. \A r, row : Of(r, row)' = Of(r, row)
  BY <1>2 DEF Of
<1>4. \A v, k : Drift(v, k)' = Drift(v, k)
  BY DEF Drift, Nesterov
<1>5. \A x, d, n : Exactly(x, d, n)' = Exactly(x, d, n)
  BY <1>2, <1>4 DEF Exactly
<1>6. \A m, r, n : Kept(m, r, n)' = Kept(m, r, n)
  BY <1>2, <1>3, <1>5 DEF Kept, ModelDense
<1>7. \A r \in Ranks : FileDense(files[r], r)' <=> FileDense(files'[r], r)
  BY <1>1, <1>6 DEF FileDense
<1>8. \A r \in Ranks : StepsMade(pc[r], mem[r])' = StepsMade(pc'[r], mem'[r])
  BY <1>1 DEF StepsMade
<1>9. \A r \in Ranks : Dense(pc[r], mem[r], r)' <=> Dense(pc'[r], mem'[r], r)
  BY <1>1, <1>2, <1>3, <1>6, <1>8 DEF Dense
<1>. QED
  BY <1>7, <1>9 DEF DenseInv

\* The step of one rank.
LEMMA DenseAlone ==
  ASSUME IInv, DenseInv, UNCHANGED <<options, owners, output>>, NEW r \in Ranks,
         NEW label, pc' = [pc EXCEPT ![r] = label], pc[r] # "sync", label # "sync",
         pc[r] \notin Unowned \/ label \in Unowned,
         NEW m, mem' = [mem EXCEPT ![r] = m], Dense(label, m, r),
         \A s \in Ranks : FileDense(files'[s], s)
  PROVE  DenseInv'
<1>1. DOMAIN pc = Ranks /\ DOMAIN mem = Ranks
  BY DEF IInv, MemoryInv
<1>2. pc'[r] = label /\ mem'[r] = m /\ \A s \in Ranks : s # r => pc'[s] = pc[s] /\ mem'[s] = mem[s]
  BY <1>1
<1>3. \A s \in Ranks : Dense(pc'[s], mem'[s], s)
  BY <1>2 DEF DenseInv
<1>4. OwnersKnown'
  <2>1. OwnersMade' = OwnersMade
    BY DataFrame DEF OwnersMade
  <2>. QED
    BY <1>2, <2>1 DEF DenseInv, OwnersKnown
<1>5. Syncing'
  BY <1>2 DEF DenseInv, Syncing
<1>6. OutputDense'
  BY DEF DenseInv, OutputDense
<1>. QED
  BY <1>3, <1>4, <1>5, <1>6, DenseAgain

\* A step of all ranks that does not lead to the gradients.
LEMMA DenseTogether ==
  ASSUME DenseInv, UNCHANGED <<options, owners, output, files>>,
         NEW label, Meet(label), label \notin Unowned,
         \A r \in Ranks : pc'[r] # "sync" /\ Dense(pc'[r], mem'[r], r)
  PROVE  DenseInv'
<1>1. OwnersKnown'
  <2>1. OwnersMade' = OwnersMade
    BY DataFrame DEF OwnersMade
  <2>2. owners = OwnersMade
    BY NumRanksAssumption DEF DenseInv, OwnersKnown, Meet, Ranks
  <2>. QED
    BY <2>1, <2>2 DEF OwnersKnown
<1>2. Syncing' /\ OutputDense'
  BY DEF DenseInv, Syncing, OutputDense
<1>. QED
  BY <1>1, <1>2, DenseAgain DEF DenseInv

\* The end of a job, with the files and whatever was saved.
LEMMA OverDense ==
  ASSUME DenseInv, NEW how, NEW message, Over(how, message), UNCHANGED <<options, files>>,
         OutputDense'
  PROVE  DenseInv'
<1>1. \A r \in Ranks : pc'[r] = "off" /\ mem'[r] = FreshMemory(r)
  BY DEF Over
<1>2. \A r \in Ranks : Dense("off", FreshMemory(r), r)
  BY DEF Dense, Early, Late, FreshMemory
<1>3. OwnersKnown' /\ Syncing'
  BY <1>1 DEF OwnersKnown, Unowned, Syncing
<1>. QED
  BY <1>1, <1>2, <1>3, DenseAgain DEF DenseInv

-----------------------------------------------------------------------------
\* What a rank does alone: it loads or makes a model, fills its batch, writes
\* the model or brings it up to date; only the last touches a row.
LEMMA AloneDense ==
  ASSUME IInv, ReplicaInv, FedInv, DenseInv, NEW r \in Ranks, Alone(r) \/ CheckpointFails(r)
  PROVE  DenseInv'
<1>0. /\ DOMAIN mem = Ranks /\ DOMAIN files = Ranks
      /\ mem = [s \in Ranks |-> mem[s]]
      /\ Fields \subseteq DOMAIN mem[r]
      /\ options \in OptionSets /\ Fed(pc[r], mem[r], r)
      /\ Dense(pc[r], mem[r], r) /\ OwnersKnown
      /\ \A s \in Ranks : FileDense(files[s], s)
      /\ mem[r].epoch \in Nat /\ StepsPerEpoch \in Nat
  BY UnitFacts DEF IInv, MemoryInv, ReplicaInv, FedInv, DenseInv, Fed
<1>00. ASSUME NEW message, AbortMpi(message) PROVE DenseInv'
  BY <1>00, OverDense DEF AbortMpi, disk, history, DenseInv, OutputDense
<1>1. CASE CountBuckets(r)
  <2>1. CASE \E message : AbortMpi(message)
    BY <2>1, <1>00
  <2>2. CASE Goes(r, "census") /\ UNCHANGED mem /\ Local
    <3>1. mem' = [mem EXCEPT ![r] = mem[r]] /\ pc' = [pc EXCEPT ![r] = "census"]
      BY <2>2, <1>0 DEF Goes
    <3>2. UNCHANGED <<options, owners, output, files>>
      BY <2>2 DEF Local, disk, history
    <3>3. pc[r] = "count"
      BY <1>1 DEF CountBuckets, At
    <3>4. Dense("census", mem[r], r)
      BY <1>0, <3>3 DEF Dense, Early, Late
    <3>. QED
      BY <1>0, <3>1, <3>2, <3>3, <3>4, DenseAlone DEF Unowned
  <2>. QED
    BY <1>1, <2>1, <2>2 DEF CountBuckets
<1>2. CASE LoadCheckpoint(r)
  <2>0. /\ pc[r] = "load" /\ UNCHANGED <<options, owners, output, files>>
        /\ mem[r].model = Nothing /\ mem[r].epoch = 0
    BY <1>0, <1>2 DEF LoadCheckpoint, At, Local, disk, history, Dense, Early
  <2>1. CASE resuming
    <3>. DEFINE m == IF files[r] = Nothing THEN [mem[r] EXCEPT !.ok = FALSE]
                     ELSE [mem[r] EXCEPT !.epoch = files[r].epoch, !.model = files[r].model]
    <3>1. mem' = [mem EXCEPT ![r] = m] /\ pc' = [pc EXCEPT ![r] = "agree"]
      BY <1>2, <2>1 DEF LoadCheckpoint, Goes
    <3>2. IF files[r] = Nothing THEN m.model = Nothing /\ ~m.ok
          ELSE m.epoch = files[r].epoch /\ m.model = files[r].model
      BY <1>0, <2>0 DEF Fields
    <3>. HIDE DEF m
    <3>3. Dense("agree", m, r)
      BY <1>0, <3>2 DEF Dense, FileDense, Early, Late
    <3>. QED
      BY <1>0, <2>0, <3>1, <3>3, DenseAlone DEF Unowned
  <2>2. CASE ~resuming
    <3>. DEFINE m == [mem[r] EXCEPT !.model = InitialModel(r)]
    <3>1. mem' = [mem EXCEPT ![r] = m] /\ pc' = [pc EXCEPT ![r] = "epoch"]
      BY <1>0, <1>2, <2>2 DEF LoadCheckpoint, Goes
    <3>2. m.model = InitialModel(r) /\ m.epoch = 0
      BY <1>0, <2>0 DEF Fields
    <3>. HIDE DEF m
    <3>3. owners = OwnersMade
      BY <1>0, <2>0 DEF OwnersKnown, Unowned
    <3>4. ModelDense(m.model, r) /\ m.model.number = 0
      BY <1>0, <3>2, <3>3, InitialModelDense
    <3>5. StepsMade("epoch", m) = 0 /\ 0 * StepsPerEpoch + 0 = 0
      BY <1>0 DEF StepsMade, Saving
    <3>6. Kept(m.model, r, m.epoch * StepsPerEpoch + StepsMade("epoch", m))
      BY <3>2, <3>4, <3>5 DEF Kept
    <3>7. Dense("epoch", m, r)
      BY <3>2, <3>6, SizesAssumption DEF Dense, Early, Late, SizesAssumption
    <3>. QED
      BY <1>0, <2>0, <3>1, <3>7, DenseAlone DEF Unowned
  <2>. QED
    BY <2>1, <2>2
<1>3. CASE BeginEpoch(r)
  <2>. DEFINE m == [mem[r] EXCEPT
                      !.kept = [b \in Buckets |->
                          IF Owns(r, b) THEN Shuffled(@[b], mem[r].epoch, b) ELSE @[b]],
                      !.offset = [b \in Buckets |-> 0], !.step = 0]
  <2>1. /\ mem' = [mem EXCEPT ![r] = m] /\ pc' = [pc EXCEPT ![r] = "fill"]
        /\ pc[r] = "epoch" /\ UNCHANGED <<options, owners, output, files>>
        /\ mem[r].epoch < Epochs
    BY <1>0, <1>3 DEF BeginEpoch, At, Goes, Local, disk, history
  <2>2. m.model = mem[r].model /\ m.epoch = mem[r].epoch /\ m.step = 0
    BY <1>0 DEF Fields
  <2>. HIDE DEF m
  <2>3. StepsMade("epoch", mem[r]) = StepsMade("fill", m)
    BY <2>2 DEF StepsMade, Saving
  <2>4. Dense("fill", m, r)
    BY <1>0, <2>1, <2>2, <2>3 DEF Dense, Early, Late
  <2>. QED
    BY <1>0, <2>1, <2>4, DenseAlone DEF Unowned
<1>4. CASE FillBatch(r)
  <2>1. CASE \E message : AbortMpi(message)
    BY <2>1, <1>00
  <2>2. CASE ~Overflows(r)
    <3>. DEFINE m == [mem[r] EXCEPT
                        !.batch = LocalBatch(r),
                        !.offset = [b \in Buckets |->
                            IF Owns(r, b) THEN @[b] + Amount(b, mem[r].step) ELSE @[b]]]
    <3>1. /\ mem' = [mem EXCEPT ![r] = m] /\ pc' = [pc EXCEPT ![r] = "size"]
          /\ pc[r] = "fill" /\ UNCHANGED <<options, owners, output, files>>
          /\ mem[r].step < StepsPerEpoch
      BY <1>0, <1>4, <2>2 DEF FillBatch, At, Goes, Local, disk, history
    <3>2. m.model = mem[r].model /\ m.epoch = mem[r].epoch /\ m.step = mem[r].step
          /\ m.batch = LocalBatch(r)
      BY <1>0 DEF Fields
    <3>. HIDE DEF m
    <3>3. StepsMade("fill", mem[r]) = StepsMade("size", m)
      BY <3>2 DEF StepsMade, Saving
    <3>4. \A e \in m.batch : e \in Corpus /\ Of(r, e.row)
      <4>1. owners = OwnersMade
        BY <1>0, <3>1 DEF OwnersKnown, Unowned
      <4>2. \A e \in LocalBatch(r) : e \in Corpus /\ Owns(r, BucketOf(e))
        BY <1>0, <2>2, <3>1, BatchFacts
      <4>. QED
        BY <3>2, <4>1, <4>2 DEF Of, Owns, BucketOf
    <3>5. Dense("size", m, r)
      BY <1>0, <3>1, <3>2, <3>3, <3>4 DEF Dense, Early, Late
    <3>. QED
      BY <1>0, <3>1, <3>5, DenseAlone DEF Unowned
  <2>. QED
    BY <1>4, <2>1, <2>2 DEF FillBatch
<1>5. CASE EndEpoch(r)
  <2>1. /\ mem' = [mem EXCEPT ![r] = mem[r]] /\ pc' = [pc EXCEPT ![r] = "report"]
        /\ pc[r] = "fill" /\ UNCHANGED <<options, owners, output, files>>
    BY <1>0, <1>5 DEF EndEpoch, At, Goes, Local, disk, history
  <2>2. StepsMade("fill", mem[r]) = StepsMade("report", mem[r])
    BY DEF StepsMade, Saving
  <2>3. Dense("report", mem[r], r)
    BY <1>0, <2>1, <2>2 DEF Dense, Early, Late
  <2>. QED
    BY <1>0, <2>1, <2>3, DenseAlone DEF Unowned
<1>6. CASE SaveCheckpoint(r)
  <2>. DEFINE f == [epoch |-> mem[r].epoch + 1, model |-> mem[r].model]
  <2>1. /\ mem' = [mem EXCEPT ![r] = mem[r]] /\ pc' = [pc EXCEPT ![r] = "saved"]
        /\ pc[r] = "save" /\ UNCHANGED <<options, owners, output>>
        /\ files' = [files EXCEPT ![r] = f]
    BY <1>0, <1>6 DEF SaveCheckpoint, EpochToResume, At, Goes, history
  <2>2. StepsMade("save", mem[r]) = StepsPerEpoch /\ StepsMade("saved", mem[r]) = StepsPerEpoch
    BY DEF StepsMade, Saving
  <2>3. Dense("saved", mem[r], r)
    BY <1>0, <2>1, <2>2 DEF Dense, Early, Late
  <2>4. f.epoch = mem[r].epoch + 1 /\ f.model = mem[r].model
    OBVIOUS
  <2>. HIDE DEF f
  <2>5. f.epoch * StepsPerEpoch = mem[r].epoch * StepsPerEpoch + StepsPerEpoch
    BY <1>0, <2>4
  <2>6. FileDense(f, r)
    BY <1>0, <2>1, <2>2, <2>4, <2>5 DEF FileDense, Dense, Late
  <2>7. \A s \in Ranks : FileDense(files'[s], s)
    BY <1>0, <2>1, <2>6
  <2>. QED
    BY <2>1, <2>3, <2>7, DenseAlone DEF Unowned
<1>7. CASE Flush(r)
  <2>. DEFINE k == Flushed(mem[r].model, r)
              m == [mem[r] EXCEPT !.model = k]
  <2>1. /\ pc[r] = "epoch" /\ UNCHANGED <<options, owners, output, files>>
        /\ pc' = [pc EXCEPT ![r] = "gather"] /\ ~(mem[r].epoch < Epochs)
    BY <1>7 DEF Flush, At, Goes, Local, disk, history
  <2>2. owners = OwnersMade
    BY <1>0, <2>1 DEF OwnersKnown, Unowned
  <2>3. \A row : Of(r, row) <=> Owns(r, row[1])
    BY <2>2 DEF Of, Owns
  <2>4. ModelDense(mem[r].model, r)
    BY <1>0, <2>1 DEF Dense, Kept, Late
  <2>5. mem' = [mem EXCEPT ![r] = m]
    <3>1. mem' = [mem EXCEPT ![r].model.rows =
                   [row \in Rows |-> IF Owns(r, row[1])
                                     THEN FlushMomentum(@[row], mem[r].model.number) ELSE @[row]]]
      BY <1>7 DEF Flush
    <3>. DEFINE new == [row \in Rows |-> IF Owns(r, row[1])
                             THEN FlushMomentum(mem[r].model.rows[row], mem[r].model.number)
                             ELSE mem[r].model.rows[row]]
    <3>2. mem' = [mem EXCEPT ![r] = [mem[r] EXCEPT !.model = [mem[r].model EXCEPT !.rows = new]]]
      BY <1>0, <2>4, <3>1 DEF Fields, ModelDense, ModelFields
    <3>3. k = [mem[r].model EXCEPT !.rows = new]
      BY <2>3, <2>4 DEF Flushed, ModelDense, ModelFields
    <3>. HIDE DEF k, new
    <3>. QED
      BY <3>2, <3>3
  <2>6. m.model = k /\ m.epoch = mem[r].epoch
    BY <1>0 DEF Fields
  <2>7. StepsMade("epoch", mem[r]) = 0 /\ StepsMade("gather", m) = 0
    BY DEF StepsMade, Saving
  <2>8. /\ mem[r].epoch = Epochs
        /\ mem[r].model.number <= mem[r].epoch * StepsPerEpoch + 0
        /\ Kept(mem[r].model, r, mem[r].epoch * StepsPerEpoch + 0)
    <3>1. Epochs \in Nat
      BY SizesAssumption DEF SizesAssumption
    <3>2. /\ Kept(mem[r].model, r, mem[r].epoch * StepsPerEpoch + StepsMade("epoch", mem[r]))
          /\ mem[r].epoch <= Epochs
      BY <1>0, <2>1 DEF Dense, Late
    <3>3. mem[r].epoch = Epochs
      BY <1>0, <2>1, <3>1, <3>2
    <3>. QED
      BY <2>7, <3>2, <3>3 DEF Kept
  <2>9. mem[r].model.number <= AllSteps
    <3>1. mem[r].epoch * StepsPerEpoch + 0 = mem[r].epoch * StepsPerEpoch
      BY <1>0
    <3>. QED
      BY <2>8, <3>1 DEF AllSteps
  <2>10. /\ ModelDense(k, r) /\ k.number = mem[r].model.number
         /\ \A row \in Rows : Of(r, row) => k.rows[row].last = k.number
    BY <1>0, <2>4, <2>9, FlushKeepsDense
  <2>. HIDE DEF k, m
  <2>11. Kept(m.model, r, m.epoch * StepsPerEpoch + StepsMade("gather", m))
    BY <2>6, <2>7, <2>8, <2>10 DEF Kept
  <2>12. m.epoch <= Epochs
    BY <2>6, <2>8, SizesAssumption DEF SizesAssumption
  <2>13. Dense("gather", m, r)
    BY <2>6, <2>10, <2>11, <2>12 DEF Dense, Early, Late
  <2>. QED
    BY <1>0, <2>1, <2>5, <2>13, DenseAlone DEF Unowned
<1>8. CASE CheckpointFails(r)
  <2>. DEFINE m == [mem[r] EXCEPT !.ok = FALSE]
  <2>1. /\ mem' = [mem EXCEPT ![r] = m] /\ pc' = [pc EXCEPT ![r] = "saved"]
        /\ pc[r] = "save" /\ UNCHANGED <<options, owners, output, files>>
    BY <1>0, <1>8 DEF CheckpointFails, At, Goes, disk
  <2>2. m.model = mem[r].model /\ m.epoch = mem[r].epoch
    BY <1>0 DEF Fields
  <2>. HIDE DEF m
  <2>3. StepsMade("save", mem[r]) = StepsMade("saved", m)
    BY DEF StepsMade, Saving
  <2>4. Dense("saved", m, r)
    BY <1>0, <2>1, <2>2, <2>3 DEF Dense, Early, Late
  <2>. QED
    BY <1>0, <2>1, <2>4, DenseAlone DEF Unowned
<1>. QED
  BY <1>1, <1>2, <1>3, <1>4, <1>5, <1>6, <1>7, <1>8 DEF Alone

\* The gradients meet: every row is stepped, now or later.
LEMMA SyncDense ==
  ASSUME IInv, FedInv, DenseInv, Sync
  PROVE  DenseInv'
<1>0. /\ \A r \in Ranks : Fields \subseteq DOMAIN mem[r]
      /\ options \in OptionSets
  BY DEF IInv, MemoryInv, FedInv
<1>. DEFINE batches == Global
<1>1. /\ Meet("sync") /\ UNCHANGED <<options, owners, output, files>>
      /\ AllGo(IF options.optimizer = "muon" THEN "head" ELSE "loss")
      /\ \A r \in Ranks : pc[r] = "sync"
  BY DEF Sync, Meet, Local, disk, history
<1>2. batches # {} /\ batches \subseteq Corpus
  <2>1. batches # {}
    BY <1>1, NumRanksAssumption DEF DenseInv, Syncing, Global, GlobalOf, Ranks
  <2>2. \A r \in Ranks : \A e \in mem[r].batch : e \in Corpus
    BY <1>1 DEF DenseInv, Dense
  <2>. QED
    BY <2>1, <2>2 DEF Global
<1>3. \A r \in Ranks : mem'[r] = [mem[r] EXCEPT !.model = Updated(mem[r].model, mem[r].batch, batches)]
  BY <1>0 DEF Sync, Fields
<1>. HIDE DEF batches
<1>4. ASSUME NEW r \in Ranks PROVE pc'[r] # "sync" /\ Dense(pc'[r], mem'[r], r)
  <2>. DEFINE m == mem'[r]
              label == pc'[r]
              k == mem[r].model
              u == Updated(mem[r].model, mem[r].batch, batches)
              e == mem[r].epoch
              n == mem[r].step
              q == StepsPerEpoch
  <2>1. m.model = u /\ m.epoch = e /\ m.step = n /\ label \in {"head", "loss"}
    BY <1>0, <1>1, <1>3 DEF AllGo, Fields
  <2>2. /\ Fed("sync", mem[r], r) /\ Dense("sync", mem[r], r)
    BY <1>1 DEF FedInv, DenseInv
  <2>3. e \in Nat /\ n \in Nat /\ n + 1 <= q /\ q \in Nat /\ Epochs \in Nat
    BY <1>0, <2>2, UnitFacts, SizesAssumption
    DEF Fed, AtWork, InStep, StepsTaken, SizesAssumption
  <2>4. StepsMade("sync", mem[r]) = n /\ StepsMade(label, m) = n + 1
    BY <2>1 DEF StepsMade, Saving
  <2>5. Kept(k, r, e * q + n) /\ e < Epochs
    BY <2>2, <2>4 DEF Dense, Late
  <2>6. \A x \in mem[r].batch : x \in Corpus /\ Of(r, x.row)
    BY <2>2 DEF Dense
  <2>. HIDE DEF m, label, e, n, q, k
  <2>7. k.number \in Nat /\ k.number <= e * q + n /\ ModelDense(k, r)
    BY <2>5 DEF Kept, ModelDense
  <2>8. k.number + 1 <= AllSteps
    <3>1. (e + 1) * q <= Epochs * q
      <4>1. e + 1 <= Epochs /\ e + 1 \in Nat
        BY <2>3, <2>5
      <4>. QED
        BY <2>3, <4>1, Products
    <3>2. (e + 1) * q = e * q + q /\ e * q \in Nat /\ Epochs * q \in Nat
      BY <2>3
    <3>. DEFINE a == e * q
                b == Epochs * q
                c == (e + 1) * q
    <3>3. AllSteps = b
      BY DEF AllSteps, q
    <3>. HIDE DEF a, b, c
    <3>4. c <= b /\ c = a + q /\ a \in Nat /\ b \in Nat /\ k.number <= a + n
      BY <2>7, <3>1, <3>2 DEF a, b, c
    <3>. QED
      BY <2>3, <2>7, <3>3, <3>4
  <2>9. ModelDense(u, r) /\ u.number = k.number + 1
    BY <1>0, <1>2, <2>6, <2>7, <2>8, StepKeepsDense DEF k
  <2>. HIDE DEF u
  <2>10. k.number + 1 <= e * q + (n + 1)
    <3>1. e * q \in Nat
      BY <2>3
    <3>. DEFINE a == e * q
    <3>. HIDE DEF a
    <3>2. a \in Nat /\ k.number <= a + n
      BY <2>7, <3>1 DEF a
    <3>3. k.number + 1 <= a + (n + 1)
      BY <2>3, <2>7, <3>2
    <3>. QED
      BY <3>3 DEF a
  <2>11. Kept(m.model, r, m.epoch * StepsPerEpoch + StepsMade(label, m))
    BY <2>1, <2>4, <2>9, <2>10 DEF Kept, q
  <2>12. m.epoch <= Epochs /\ m.epoch < Epochs
    BY <2>1, <2>3, <2>5
  <2>13. Dense(label, m, r)
    BY <2>1, <2>11, <2>12 DEF Dense, Early, Late
  <2>. QED
    BY <2>1, <2>13 DEF label, m
<1>. QED
  BY <1>1, <1>4, DenseTogether DEF Unowned

\* The rows of all ranks, added up, are those of the owners.
LEMMA GatherDense ==
  ASSUME IInv, FedInv, DenseInv, GatherAndSave
  PROVE  DenseInv'
<1>1. /\ \A r \in Ranks : pc[r] = "gather" /\ Fed("gather", mem[r], r) /\ Dense("gather", mem[r], r)
      /\ options \in OptionSets /\ UNCHANGED <<options, files>>
      /\ owners = OwnersMade /\ EveryRecordIsOwned
  <2>1. \A r \in Ranks : pc[r] = "gather" /\ Fed("gather", mem[r], r) /\ Dense("gather", mem[r], r)
    BY DEF GatherAndSave, Meet, FedInv, DenseInv
  <2>2. 0 \in Ranks
    BY NumRanksAssumption DEF NumRanksAssumption, Ranks
  <2>3. owners = OwnersMade
    BY <2>1, <2>2 DEF DenseInv, OwnersKnown, Unowned
  <2>4. EveryRecordIsOwned
    BY <2>1, <2>2 DEF Fed, Stored, Late
  <2>. QED
    BY <2>1, <2>3, <2>4 DEF FedInv, GatherAndSave, history
<1>2. ASSUME NEW row \in Rows
      PROVE  Gathered(row) = mem[owners[row[1]]].model.dense[row].weight
  <2>. DEFINE owner == owners[row[1]]
  <2>1. owner \in Ranks
    <3>1. PICK e \in Corpus : row = e.row
      BY DEF Rows
    <3>. QED
      BY <1>1, <3>1 DEF EveryRecordIsOwned, BucketOf
  <2>2. Of(owner, row) /\ \A r \in Ranks : r # owner => ~Of(r, row)
    BY <1>1 DEF Of
  <2>. HIDE DEF owner
  <2>3. \A r \in Ranks : ModelDense(mem[r].model, r)
    BY <1>1 DEF Dense, Late, Kept
  <2>4. \A r \in Ranks : r # owner => mem[r].model.rows[row].weight = 0
    BY <2>2, <2>3 DEF ModelDense
  <2>. DEFINE k == mem[owner].model
              x == k.rows[row]
              d == k.dense[row]
  <2>5. x \in RowRecords /\ d \in RowRecords /\ Exactly(x, d, k.number) /\ k.number \in Nat
    BY <2>1, <2>2, <2>3 DEF ModelDense
  <2>6. x.last = k.number
    BY <1>1, <2>1, <2>2 DEF Dense
  <2>. HIDE DEF x, d
  <2>7. d.weight = x.weight
    <3>1. x.velocity \in Int /\ x.weight \in Int
      BY <2>5 DEF RowRecords
    <3>2. k.number - x.last = 0
      BY <2>5, <2>6
    <3>3. Drift(x.velocity, 0) = 0
      BY <3>1, NoDrift
    <3>4. d.weight = x.weight - 0
      BY <2>5, <3>2, <3>3 DEF Exactly
    <3>. QED
      BY <3>1, <3>4
  <2>8. Gathered(row) = x.weight
    <3>1. x.weight \in Int
      BY <2>5 DEF RowRecords
    <3>. QED
      BY <2>1, <2>4, <3>1, GatheredOnce DEF x
  <2>. QED
    BY <2>7, <2>8 DEF d, owner
<1>3. OutputDense'
  <2>1. output'.rows = [row \in Rows |-> Gathered(row)]
    BY DEF GatherAndSave
  <2>2. output'.dense = [row \in Rows |-> mem[owners[row[1]]].model.dense[row].weight]
    BY DEF GatherAndSave
  <2>. QED
    BY <1>2, <2>1, <2>2 DEF OutputDense
<1>4. Over("done", "")
  BY DEF GatherAndSave
<1>. QED
  BY <1>1, <1>3, <1>4, OverDense

\* The collective calls before a rank has a model.
LEMMA EarlyDense ==
  ASSUME IInv, DenseInv, options' = options, UNCHANGED <<output, files>>,
         NEW label \in Early \ {"off"}, NEW next \in Early, Meet(label), AllGo(next),
         \A r \in Ranks : mem'[r].model = mem[r].model /\ mem'[r].epoch = mem[r].epoch,
         owners' = OwnersMade
  PROVE  DenseInv'
<1>1. \A r \in Ranks : pc[r] = label /\ pc'[r] = next
  BY DEF Meet, AllGo
<1>2. \A r \in Ranks : Dense(next, mem'[r], r)
  BY <1>1 DEF DenseInv, Dense, Early, Late
<1>3. OwnersKnown'
  <2>1. OwnersMade' = OwnersMade
    BY DataFrame DEF OwnersMade
  <2>. QED
    BY <2>1 DEF OwnersKnown
<1>4. Syncing' /\ OutputDense'
  BY <1>1 DEF DenseInv, Syncing, OutputDense, Early
<1>. QED
  BY <1>1, <1>2, <1>3, <1>4, DenseAgain DEF DenseInv

\* The collective calls.
LEMMA TogetherDense ==
  ASSUME IInv, ReplicaInv, FedInv, DenseInv, Together
  PROVE  DenseInv'
<1>0. /\ \A r \in Ranks : Fields \subseteq DOMAIN mem[r]
      /\ options \in OptionSets /\ OwnersKnown
      /\ \A r \in Ranks : Fed(pc[r], mem[r], r) /\ Dense(pc[r], mem[r], r) /\ mem[r].epoch \in Nat
      /\ StepsPerEpoch \in Nat /\ Epochs \in Nat /\ 0 \in Ranks
  <2>1. \A r \in Ranks : Fields \subseteq DOMAIN mem[r]
    BY DEF IInv, MemoryInv
  <2>2. /\ options \in OptionSets /\ OwnersKnown
        /\ \A r \in Ranks : Fed(pc[r], mem[r], r) /\ Dense(pc[r], mem[r], r)
    BY DEF FedInv, DenseInv
  <2>3. \A r \in Ranks : mem[r].epoch \in Nat
    BY <2>2 DEF Fed
  <2>4. StepsPerEpoch \in Nat /\ Epochs \in Nat /\ 0 \in Ranks
    BY <2>2, UnitFacts, SizesAssumption, NumRanksAssumption
    DEF SizesAssumption, NumRanksAssumption, Ranks
  <2>. QED
    BY <2>1, <2>2, <2>3, <2>4
<1>00. ASSUME NEW message, AbortMpi(message) PROVE DenseInv'
  BY <1>00, OverDense DEF AbortMpi, disk, history, DenseInv, OutputDense
<1>000. ASSUME NEW label, Meet(label), label \notin Unowned PROVE owners = OwnersMade
  BY <1>0, <1>000 DEF Meet, OwnersKnown
<1>1. CASE Census
  <2>1. CASE AbortMpi("training set is empty")
    BY <2>1, <1>00
  <2>2. CASE /\ AllGo("rounds") /\ owners' = OwnersMade
             /\ UNCHANGED <<mem, job, why, disk, history>>
    BY <1>1, <2>2, EarlyDense DEF Census, disk, history, Early
  <2>. QED
    BY <1>1, <2>1, <2>2 DEF Census, OwnersMade
<1>2. CASE AgreeRounds
  <2>1. /\ Meet("rounds") /\ AllGo("route") /\ UNCHANGED <<options, owners, output, files>>
    BY <1>2 DEF AgreeRounds, Local, disk, history
  <2>2. \A r \in Ranks : mem'[r].model = mem[r].model /\ mem'[r].epoch = mem[r].epoch
    BY <1>0, <1>2 DEF AgreeRounds, Fields
  <2>3. owners = OwnersMade
    BY <2>1, <1>000 DEF Unowned
  <2>. QED
    BY <2>1, <2>2, <2>3, EarlyDense DEF Early
<1>3. CASE RouteRound
  <2>. DEFINE next == IF mem[0].rounds = 1 THEN "tally" ELSE "route"
  <2>1. /\ Meet("route") /\ AllGo(next) /\ UNCHANGED <<options, owners, output, files>>
    BY <1>3 DEF RouteRound, Local, disk, history
  <2>2. \A r \in Ranks : mem'[r].model = mem[r].model /\ mem'[r].epoch = mem[r].epoch
    BY <1>0, <1>3 DEF RouteRound, Fields
  <2>3. owners = OwnersMade
    BY <2>1, <1>000 DEF Unowned
  <2>4. next \in Early
    BY DEF Early
  <2>. HIDE DEF next
  <2>. QED
    BY <2>1, <2>2, <2>3, <2>4, EarlyDense DEF Early
<1>4. CASE Tally
  <2>1. CASE AbortMpi("routed record count mismatch")
    BY <2>1, <1>00
  <2>2. CASE AllGo("load") /\ UNCHANGED mem /\ Local
    <3>1. Meet("tally") /\ UNCHANGED <<options, owners, output, files>>
      BY <1>4, <2>2 DEF Tally, Local, disk, history
    <3>2. owners = OwnersMade
      BY <3>1, <1>000 DEF Unowned
    <3>. QED
      BY <2>2, <3>1, <3>2, EarlyDense DEF Early
  <2>. QED
    BY <1>4, <2>1, <2>2 DEF Tally
<1>5. CASE AgreeLoaded
  <2>1. CASE AbortMpi("cannot resume checkpoint")
    BY <2>1, <1>00
  <2>2. CASE ~ \E r \in Ranks : ~mem[r].ok \/ mem[r].epoch > Epochs
    <3>1. /\ Meet("agree") /\ AllGo("epoch") /\ UNCHANGED <<mem, options, owners, output, files>>
      BY <1>5, <2>2 DEF AgreeLoaded, disk
    <3>2. ASSUME NEW r \in Ranks PROVE pc'[r] # "sync" /\ Dense(pc'[r], mem'[r], r)
      <4>1. pc[r] = "agree" /\ pc'[r] = "epoch" /\ mem'[r] = mem[r]
        BY <3>1 DEF Meet, AllGo
      <4>2. mem[r].ok /\ mem[r].epoch <= Epochs
        BY <1>0, <2>2
      <4>3. Kept(mem[r].model, r, mem[r].epoch * StepsPerEpoch)
        BY <1>0, <4>1, <4>2 DEF Dense
      <4>4. StepsMade("epoch", mem[r]) = 0
        BY DEF StepsMade, Saving
      <4>5. mem[r].epoch * StepsPerEpoch + 0 = mem[r].epoch * StepsPerEpoch
        BY <1>0
      <4>6. Kept(mem[r].model, r, mem[r].epoch * StepsPerEpoch + StepsMade("epoch", mem[r]))
        BY <4>3, <4>4, <4>5
      <4>. QED
        BY <4>1, <4>2, <4>6 DEF Dense, Early, Late
    <3>. QED
      BY <3>1, <3>2, DenseTogether DEF Unowned
  <2>. QED
    BY <1>5, <2>1, <2>2 DEF AgreeLoaded
<1>6. CASE Size
  <2>1. Meet("size") /\ UNCHANGED <<options, owners, output, files>>
    BY <1>6 DEF Size, Local, disk, history
  <2>2. CASE Global = {}
    <3>1. ASSUME NEW r \in Ranks PROVE pc'[r] # "sync" /\ Dense(pc'[r], mem'[r], r)
      <4>. DEFINE m == mem'[r]
                  e == mem[r].epoch
                  q == StepsPerEpoch
                  n == mem[r].step
      <4>1. /\ m.model = mem[r].model /\ m.epoch = e /\ m.step = n + 1
            /\ pc[r] = "size" /\ pc'[r] = "fill"
        BY <1>0, <1>6, <2>1, <2>2 DEF Size, AfterEmptyStep, AllGo, Meet, Fields
      <4>. HIDE DEF m
      <4>2. StepsMade("size", mem[r]) = n /\ StepsMade("fill", m) = n + 1
        BY <4>1 DEF StepsMade, Saving
      <4>3. n \in Nat /\ e \in Nat /\ q \in Nat
        BY <1>0, <4>1 DEF Fed, AtWork, InStep
      <4>4. Kept(mem[r].model, r, e * q + n) /\ e < Epochs /\ e <= Epochs
        BY <1>0, <4>1, <4>2 DEF Dense, Late
      <4>5. Kept(mem[r].model, r, e * q + (n + 1))
        <5>. HIDE DEF e, q, n
        <5>. DEFINE a == e * q
                    c == mem[r].model.number
        <5>1. a \in Nat
          BY <4>3
        <5>2. c \in Nat /\ c <= a + n
          BY <4>4 DEF Kept, ModelDense
        <5>. HIDE DEF a, c
        <5>3. c <= a + (n + 1)
          BY <4>3, <5>1, <5>2
        <5>. QED
          BY <4>4, <5>3 DEF Kept, a, c
      <4>6. Dense("fill", m, r)
        BY <4>1, <4>2, <4>4, <4>5 DEF Dense, Early, Late
      <4>. QED
        BY <4>1, <4>6 DEF m
    <3>. QED
      BY <2>1, <3>1, DenseTogether DEF Unowned
  <2>3. CASE Global # {}
    <3>1. \A r \in Ranks : pc[r] = "size" /\ pc'[r] = "sync" /\ mem'[r] = mem[r]
      BY <1>6, <2>1, <2>3 DEF Size, AllGo, Meet
    <3>2. ASSUME NEW r \in Ranks PROVE Dense("sync", mem[r], r)
      <4>1. StepsMade("size", mem[r]) = StepsMade("sync", mem[r])
        BY DEF StepsMade, Saving
      <4>. QED
        BY <1>0, <3>1, <4>1 DEF Dense, Early, Late
    <3>3. Syncing'
      BY <2>3, <3>1 DEF Syncing, Global, GlobalOf
    <3>4. OwnersKnown'
      <4>1. OwnersMade' = OwnersMade
        BY <2>1, DataFrame DEF OwnersMade
      <4>2. owners = OwnersMade
        BY <2>1, <1>000 DEF Unowned
      <4>. QED
        BY <2>1, <4>1, <4>2 DEF OwnersKnown
    <3>5. OutputDense'
      BY <2>1 DEF DenseInv, OutputDense
    <3>. QED
      BY <2>1, <3>1, <3>2, <3>3, <3>4, <3>5, DenseAgain DEF DenseInv
  <2>. QED
    BY <2>2, <2>3
<1>7. CASE Sync
  BY <1>7, SyncDense
<1>8. CASE Broadcast
  <2>1. Meet("head") /\ UNCHANGED <<options, owners, output, files>>
    BY <1>8 DEF Broadcast, Local, disk, history
  <2>2. ASSUME NEW r \in Ranks PROVE pc'[r] # "sync" /\ Dense(pc'[r], mem'[r], r)
    <3>. DEFINE m == mem'[r]
                k == mem[r].model
    <3>1. pc[r] = "head" /\ pc'[r] = "loss"
      BY <1>8, <2>1 DEF Broadcast, AllGo, Meet
    <3>2. Kept(k, r, mem[r].epoch * StepsPerEpoch + StepsMade("head", mem[r]))
      BY <1>0, <3>1 DEF Dense, Late
    <3>3. ModelFields \subseteq DOMAIN k
      BY <3>2 DEF Kept, ModelDense
    <3>4. /\ m.model.number = k.number /\ m.model.rows = k.rows /\ m.model.dense = k.dense
          /\ ModelFields \subseteq DOMAIN m.model
          /\ m.epoch = mem[r].epoch /\ m.step = mem[r].step
      BY <1>0, <1>8, <3>3 DEF Broadcast, Fields, ModelFields
    <3>. HIDE DEF m, k
    <3>5. StepsMade("head", mem[r]) = StepsMade("loss", m)
      BY <3>4 DEF StepsMade, Saving
    <3>6. ModelDense(m.model, r)
      BY <3>2, <3>4, SameRows DEF Kept
    <3>7. Kept(m.model, r, m.epoch * StepsPerEpoch + StepsMade("loss", m))
      BY <3>2, <3>4, <3>5, <3>6 DEF Kept
    <3>8. Dense("loss", m, r)
      BY <1>0, <3>1, <3>4, <3>7 DEF Dense, Early, Late
    <3>. QED
      BY <3>1, <3>8 DEF m
  <2>. QED
    BY <2>1, <2>2, DenseTogether DEF Unowned
<1>9. CASE Loss
  <2>1. Meet("loss") /\ UNCHANGED <<options, owners, output, files>>
    BY <1>9 DEF Loss, Local, disk, history
  <2>2. ASSUME NEW r \in Ranks PROVE pc'[r] # "sync" /\ Dense(pc'[r], mem'[r], r)
    <3>. DEFINE m == mem'[r]
    <3>1. /\ pc[r] = "loss" /\ pc'[r] = "fill" /\ m.model = mem[r].model
          /\ m.epoch = mem[r].epoch /\ m.step = mem[r].step + 1
      BY <1>0, <1>9, <2>1 DEF Loss, AllGo, Meet, Fields
    <3>. HIDE DEF m
    <3>2. StepsMade("loss", mem[r]) = StepsMade("fill", m)
      BY <3>1 DEF StepsMade, Saving
    <3>3. Dense("fill", m, r)
      BY <1>0, <3>1, <3>2 DEF Dense, Early, Late
    <3>. QED
      BY <3>1, <3>3 DEF m
  <2>. QED
    BY <2>1, <2>2, DenseTogether DEF Unowned
<1>10. CASE Report
  <2>1. Meet("report") /\ UNCHANGED <<options, owners, output, files>>
    BY <1>10 DEF Report, Local, disk, history
  <2>2. ASSUME NEW r \in Ranks PROVE pc'[r] # "sync" /\ Dense(pc'[r], mem'[r], r)
    <3>. DEFINE m == mem'[r]
                e == mem[r].epoch
                q == StepsPerEpoch
    <3>1. /\ pc[r] = "report" /\ m.model = mem[r].model
          /\ \/ pc'[r] = "save" /\ m.epoch = e
             \/ pc'[r] = "epoch" /\ m.epoch = e + 1
      BY <1>0, <1>10, <2>1 DEF Report, Meet, Fields
    <3>. HIDE DEF m
    <3>2. mem[r].step = q /\ e \in Nat /\ q \in Nat
      BY <1>0, <3>1 DEF Fed, AtWork
    <3>3. StepsMade("report", mem[r]) = q
      BY <3>2 DEF StepsMade, Saving
    <3>4. Kept(mem[r].model, r, e * q + q) /\ e < Epochs /\ e <= Epochs
      BY <1>0, <3>1, <3>3 DEF Dense, Late
    <3>5. StepsMade("save", m) = q /\ StepsMade("epoch", m) = 0
      BY DEF StepsMade, Saving
    <3>6. m.epoch = e => Dense("save", m, r)
      BY <3>1, <3>4, <3>5 DEF Dense, Early, Late
    <3>7. e * q + q = (e + 1) * q + 0 /\ e + 1 <= Epochs
      <4>. HIDE DEF e, q
      <4>. QED
        BY <1>0, <3>2, <3>4
    <3>8. m.epoch = e + 1 => Kept(m.model, r, m.epoch * q + 0)
      BY <3>1, <3>4, <3>7
    <3>9. m.epoch = e + 1 => Dense("epoch", m, r)
      BY <3>5, <3>7, <3>8 DEF Dense, Early, Late
    <3>. QED
      BY <3>1, <3>6, <3>9 DEF m
  <2>. QED
    BY <2>1, <2>2, DenseTogether DEF Unowned
<1>11. CASE AgreeSaved
  <2>1. CASE AbortMpi("cannot write checkpoint")
    BY <2>1, <1>00
  <2>2. CASE ~ \E r \in Ranks : ~mem[r].ok
    <3>0. Meet("saved") /\ UNCHANGED <<options, owners, output, files>>
      BY <1>11, <2>2 DEF AgreeSaved, Local, disk, history
    <3>1. ASSUME NEW r \in Ranks PROVE pc'[r] # "sync" /\ Dense(pc'[r], mem'[r], r)
      <4>. DEFINE m == mem'[r]
                  e == mem[r].epoch
                  q == StepsPerEpoch
      <4>1. /\ pc[r] = "saved" /\ m.model = mem[r].model
            /\ pc'[r] = "epoch" /\ m.epoch = e + 1
        BY <1>0, <1>11, <2>2, <3>0 DEF AgreeSaved, AllGo, Meet, Fields
      <4>. HIDE DEF m
      <4>2. StepsMade("saved", mem[r]) = q /\ StepsMade("epoch", m) = 0
        BY DEF StepsMade, Saving
      <4>3. Kept(mem[r].model, r, e * q + q) /\ e < Epochs
        BY <1>0, <4>1, <4>2 DEF Dense, Late
      <4>4. e * q + q = (e + 1) * q + 0 /\ e + 1 <= Epochs
        <5>1. e \in Nat /\ q \in Nat
          BY <1>0
        <5>. HIDE DEF e, q
        <5>. QED
          BY <1>0, <4>3, <5>1
      <4>5. Kept(m.model, r, m.epoch * q + 0)
        BY <4>1, <4>3, <4>4
      <4>6. Dense("epoch", m, r)
        BY <4>1, <4>2, <4>4, <4>5 DEF Dense, Early, Late
      <4>. QED
        BY <4>1, <4>6 DEF m
    <3>. QED
      BY <3>0, <3>1, DenseTogether DEF Unowned
  <2>. QED
    BY <1>11, <2>1, <2>2 DEF AgreeSaved
<1>12. CASE GatherAndSave
  BY <1>12, GatherDense
<1>13. CASE Mismatch
  BY <1>13, OverDense DEF Mismatch, disk, history, DenseInv, OutputDense
<1>. QED
  BY <1>1, <1>2, <1>3, <1>4, <1>5, <1>6, <1>7, <1>8, <1>9, <1>10, <1>11, <1>12, <1>13
  DEF Together

\* Failures, crashes and restarts leave the files.
LEMMA OtherDense ==
  ASSUME IInv, ReplicaInv, DenseInv, SaveFails \/ Crash \/ Restart \/ UNCHANGED vars
  PROVE  DenseInv'
<1>1. CASE SaveFails
  BY <1>1, OverDense DEF SaveFails, disk, DenseInv, OutputDense
<1>2. CASE Crash
  BY <1>2, OverDense DEF Crash, disk, DenseInv, OutputDense
<1>3. CASE Restart
  <2>1. /\ job # "running" /\ UNCHANGED <<options, owners, mem, output>>
        /\ pc' = [r \in Ranks |-> "count"]
        /\ files' = [r \in Ranks |-> IF why = "cannot resume checkpoint" THEN Nothing ELSE files[r]]
    BY <1>3 DEF Restart, WriteErrors, IInv, MemoryInv
  <2>2. ASSUME NEW r \in Ranks PROVE Dense(pc'[r], mem'[r], r) /\ FileDense(files'[r], r)
    <3>1. pc[r] = "off" /\ Dense("off", mem[r], r) /\ FileDense(files[r], r)
      BY <2>1 DEF ReplicaInv, DenseInv
    <3>2. Dense("count", mem[r], r)
      BY <3>1 DEF Dense, Early, Late
    <3>. QED
      BY <2>1, <3>1, <3>2 DEF FileDense
  <2>3. OwnersKnown' /\ Syncing' /\ OutputDense'
    BY <2>1 DEF DenseInv, OwnersKnown, Unowned, Syncing, OutputDense
  <2>. QED
    BY <2>1, <2>2, <2>3, DenseAgain
<1>4. CASE UNCHANGED vars
  <2>1. UNCHANGED <<options, pc, mem, owners, files, output>>
    BY <1>4 DEF vars
  <2>2. OwnersMade' = OwnersMade
    BY <2>1, DataFrame DEF OwnersMade
  <2>3. OwnersKnown' /\ Syncing' /\ OutputDense'
    BY <2>1, <2>2 DEF DenseInv, OwnersKnown, Syncing, OutputDense, GlobalOf
  <2>. QED
    BY <2>1, <2>3, DenseAgain DEF DenseInv
<1>. QED
  BY <1>1, <1>2, <1>3, <1>4

\* At the start there is no model and no file.
LEMMA InitDense == Init => DenseInv
<1>. SUFFICES ASSUME Init PROVE DenseInv
  OBVIOUS
<1>1. \A r \in Ranks : pc[r] = "count" /\ mem[r] = FreshMemory(r) /\ files[r] = Nothing
  BY DEF Init
<1>2. \A r \in Ranks : Dense("count", FreshMemory(r), r)
  BY DEF Dense, Early, Late, FreshMemory
<1>. QED
  BY <1>1, <1>2 DEF Init, DenseInv, FileDense, OwnersKnown, Unowned, Syncing, OutputDense

\* Every step keeps the invariant.
LEMMA DenseKeeps == IInv /\ ReplicaInv /\ FedInv /\ DenseInv /\ [Next]_vars => DenseInv'
BY AloneDense, TogetherDense, OtherDense DEF Next

\* Rows brought up to date are what the invariant says.
LEMMA DenseFollows == FedInv /\ DenseInv => LazyIsDense
<1>. SUFFICES ASSUME FedInv, DenseInv PROVE LazyIsDense
  OBVIOUS
<1>1. ASSUME NEW r \in Ranks, mem[r].model # Nothing, NEW row \in Rows, Owns(r, row[1])
      PROVE  FlushMomentum(mem[r].model.rows[row], mem[r].model.number).weight
                = mem[r].model.dense[row].weight
  <2>. DEFINE m == mem[r].model
  <2>1. Dense(pc[r], mem[r], r) /\ pc[r] \notin Early
    BY <1>1 DEF DenseInv, Dense
  <2>2. ModelDense(m, r)
    BY <1>1, <2>1 DEF Dense, Kept
  <2>3. Of(r, row)
    BY <1>1, <2>1 DEF DenseInv, OwnersKnown, Unowned, Early, Of, Owns
  <2>. HIDE DEF m
  <2>. DEFINE x == m.rows[row]
              d == m.dense[row]
              n == m.number
  <2>4. x \in RowRecords /\ d \in RowRecords /\ Exactly(x, d, n)
    BY <2>2, <2>3 DEF ModelDense
  <2>. HIDE DEF x, d, n
  <2>5. x = [weight |-> x.weight, velocity |-> x.velocity, last |-> x.last]
    BY <2>4 DEF RowRecords
  <2>6. FlushMomentum(x, n).weight = x.weight - Drift(x.velocity, n - x.last)
    <3>. DEFINE c == x.weight - Drift(x.velocity, n - x.last)
                v == x.velocity \div PowerOf2(n - x.last)
    <3>1. CaughtUp(x, n - x.last) = [x EXCEPT !.weight = c, !.velocity = v]
      BY <2>5 DEF CaughtUp
    <3>. HIDE DEF c, v
    <3>2. CaughtUp(x, n - x.last) = [weight |-> c, velocity |-> v, last |-> x.last]
      BY <2>5, <3>1
    <3>3. FlushMomentum(x, n).weight = c
      BY <3>2 DEF FlushMomentum
    <3>. QED
      BY <3>3 DEF c
  <2>. QED
    BY <2>4, <2>6 DEF Exactly, x, d, n, m
<1>2. output # Nothing => output.rows = output.dense
  BY DEF DenseInv, OutputDense
<1>. QED
  BY <1>1, <1>2 DEF LazyIsDense

\* For any number of ranks, any data, batches and shuffles, both kinds of
\* momentum, any crashes and failed writes, torn resumes included: every row,
\* brought up to date, is what stepping it at every step would have made of it,
\* and the saved model has every row once.
THEOREM LazyIsAlwaysDense == Spec => []LazyIsDense
BY InitHolds, NextKeeps, InitReplicas, ReplicasKeep, InitFed, FedKeeps, InitDense, DenseKeeps,
   DenseFollows, PTL DEF Spec
=============================================================================
