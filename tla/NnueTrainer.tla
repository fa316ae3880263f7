---------------------------- MODULE NnueTrainer ----------------------------
(***************************************************************************)
(* The synchronous trainer of the evaluation network,                      *)
(* src/cpu/train_nnue_mpi.c: one program run by several MPI ranks.  Each   *)
(* rank reads its own shard of records; the records are routed to the rank *)
(* that owns their king bucket; in every step each rank takes its part of  *)
(* the global batch, and gradients meet in collective calls.  Board rows   *)
(* of the network live on the owner of their bucket and are updated        *)
(* lazily; everything else is replicated.  Every few epochs each rank      *)
(* writes its own checkpoint file, from which a later job may resume.      *)
(*                                                                         *)
(* A collective call is one joint step of all ranks, enabled when all wait *)
(* at the same call; what a rank does between two of them is a step of its *)
(* own.  Arithmetic is exact: momentum is one half and the rate is one.    *)
(***************************************************************************)
EXTENDS Integers, FiniteSets, SequencesExt

CONSTANTS
    NumRanks,           \* the size of the communicator
    KingBuckets,        \* KING_BUCKETS: buckets 0 .. KingBuckets - 1
    RouteRecords,       \* ROUTE_RECORDS: records a rank routes in one round
    Epochs,             \* --epochs
    CheckpointEpochs,   \* --checkpoint-epochs, 0 without --checkpoint
    OptionSets,         \* records of batch (--global-batch), optimizer, and
                        \* shards: the records [id, row] each rank reads, a
                        \* row being a bucket and a number
    Shuffled(_, _, _),  \* shuffle_bucket of a sequence, for an epoch and bucket
    Unit,               \* the gradient of a record, and the initial weight of a
    InitialWeight,      \* row: Unit has enough factors to keep divisions exact
    MaxCrashes,         \* bound: jobs killed
    MaxFailures         \* bound: files that cannot be written

ASSUME NumRanksAssumption == NumRanks \in Nat \ {0}
ASSUME CheckpointAssumption == CheckpointEpochs \in Nat
ASSUME SizesAssumption == KingBuckets \in Nat /\ RouteRecords \in Nat \ {0} /\ Epochs \in Nat

Ranks == 0 .. NumRanks - 1
Buckets == 0 .. KingBuckets - 1
NoKing == KingBuckets          \* what record_bucket makes of a board without king
Sides == 0 .. 1
Nothing == <<>>

VARIABLES
    options,    \* command line and data, the same for every job
    pc,         \* where each rank is
    mem,        \* the memory of each rank
    owners,     \* owners, which every rank computes alike
    job,        \* "running", or how it ended
    why,        \* the message of abort_mpi
    resuming,   \* whether the job was started with --resume
    files,      \* the complete checkpoint file of each rank, or Nothing
    output,     \* the model saved by rank 0, or Nothing
    torn,       \* history variable: a job has resumed from two different epochs
    crashes, failures

vars == <<options, pc, mem, owners, job, why, resuming, files, output, torn, crashes, failures>>
disk == <<files, output>>
history == <<options, resuming, torn, crashes, failures>>

-----------------------------------------------------------------------------
(***************************************************************************)
(* The data, its census and the owners of the buckets.                     *)
(***************************************************************************)
BucketOf(record) == record.row[1]
CorpusOf(o) == UNION {ToSet(o.shards[r]) : r \in Ranks}
Corpus == CorpusOf(options)
Rows == {x.row : x \in Corpus}
OfBucket(b) == {x \in Corpus : BucketOf(x) = b}
GlobalBuckets(b) == Cardinality(OfBucket(b))
GlobalCount == Cardinality(Corpus)
StepsPerEpoch == (GlobalCount + options.batch - 1) \div options.batch
Nesterov == options.optimizer = "nesterov"

\* Records are told apart, however alike their boards are.
ASSUME DataAssumption ==
    \A o \in OptionSets :
        /\ o.batch \in Nat \ {0}
        /\ \A r \in Ranks : o.shards[r] \in Seq(CorpusOf(o))
        /\ \A r, s \in Ranks : \A i \in DOMAIN o.shards[r], j \in DOMAIN o.shards[s] :
              o.shards[r][i] = o.shards[s][j] => r = s /\ i = j

\* shuffle_bucket only ever exchanges two records of the bucket.
Orders(S) == {s \in [1 .. Cardinality(S) -> S] : \A x \in S : \E i \in DOMAIN s : s[i] = x}
ASSUME ShuffleAssumption ==
    \A o \in OptionSets, b \in Buckets, epoch \in 0 .. Epochs - 1 :
        LET records == {x \in CorpusOf(o) : BucketOf(x) = b}
        IN  \A s \in Orders(records) : Shuffled(s, epoch, b) \in Orders(records)

\* The largest bucket left goes to the rank with the smallest load; the first
\* of equals is taken.
First(S, worse(_, _)) == CHOOSE x \in S : \A y \in S \ {x} : worse(y, x) \/ (~worse(x, y) /\ x < y)
AssignOwners(corpus) ==
    LET count(b) == Cardinality({x \in corpus : BucketOf(x) = b})
        load(own, r) == Cardinality({x \in corpus : own[BucketOf(x)] = r})
        own[n \in 0 .. KingBuckets] ==
            IF n = 0 THEN [b \in Buckets |-> -1]
            ELSE LET before == own[n - 1]
                     smaller(b, c) == count(b) < count(c)
                     busier(r, s) == load(before, r) > load(before, s)
                 IN  [before EXCEPT ![First({b \in Buckets : before[b] = -1}, smaller)] =
                                        First(Ranks, busier)]
    IN  own[KingBuckets]
Owns(r, b) == owners[b] = r

-----------------------------------------------------------------------------
(***************************************************************************)
(* Rows of the network under momentum.  A row is stepped only when a record*)
(* of the batch uses it; the steps it missed are made up for later.        *)
(***************************************************************************)
PowerOf2(n) == LET power[k \in 0 .. n] == IF k = 0 THEN 1 ELSE 2 * power[k - 1] IN power[n]

\* Velocities are halved at most once in each step of the job, and once more by
\* Nesterov's method: every division is exact.
ASSUME UnitAssumption ==
    /\ Unit \in Nat /\ InitialWeight \in Int
    /\ \A o \in OptionSets :
          LET count == Cardinality(CorpusOf(o))
              steps == (count + o.batch - 1) \div o.batch
          IN  \A n \in 1 .. count : Unit % (n * PowerOf2(Epochs * steps + 1)) = 0

\* What k steps without gradient take from a weight.
Drift(velocity, k) ==
    LET whole == velocity - velocity \div PowerOf2(k) IN IF Nesterov THEN whole \div 2 ELSE whole
CaughtUp(x, k) ==
    [x EXCEPT !.weight = @ - Drift(x.velocity, k), !.velocity = @ \div PowerOf2(k)]
Stepped(x, gradient) ==
    LET velocity == x.velocity \div 2 + gradient
    IN  [x EXCEPT !.velocity = velocity,
                  !.weight = @ - IF Nesterov THEN gradient + velocity \div 2 ELSE velocity]

\* Bug: the present step is counted among the missed ones.
Bug_SkippedAndThis(x, number) == number - x.last

Skipped(x, number) == number - x.last - 1
LazyMomentum(x, gradient, number) ==
    [Stepped(CaughtUp(x, Skipped(x, number)), gradient) EXCEPT !.last = number]
FlushMomentum(x, number) == [CaughtUp(x, number - x.last) EXCEPT !.last = number]

\* The parameters of a rank and their optimizer: number is step_number, rows
\* the board rows, replica the replicated parameters and head the hidden matrices of
\* the two sides, each as the sequence of the batches it has seen;
\* dense, a history variable, is what rows would be if stepped at every step.
InitialModel(r) ==
    LET row(x) == [weight |-> IF Owns(r, x[1]) THEN InitialWeight ELSE 0, velocity |-> 0, last |-> 0]
    IN  [number |-> 0, rows |-> [x \in Rows |-> row(x)], dense |-> [x \in Rows |-> row(x)],
         replica |-> <<>>, head |-> [side \in Sides |-> <<>>]]

\* The gradient of a row, from the records of the rank's own batch that use it,
\* averaged over the global batch.
Gradient(x, batch, global) ==
    (Unit * Cardinality({e \in batch : e.row = x})) \div Cardinality(global)

\* One step with a batch of the rank's own and the global batch.
Updated(model, batch, global) ==
    LET number == model.number + 1
        gradient(x) == Gradient(x, batch, global)
        used == {e.row : e \in batch}
    IN  [model EXCEPT
           !.number = number,
           !.rows = [x \in Rows |-> IF x \in used THEN LazyMomentum(@[x], gradient(x), number) ELSE @[x]],
           !.dense = [x \in Rows |-> Stepped(@[x], gradient(x))],
           !.replica = Append(@, global),
           !.head = IF options.optimizer = "muon" THEN @
                    ELSE [side \in Sides |-> Append(@[side], global)]]

-----------------------------------------------------------------------------
FreshMemory(r) ==
    [shard |-> options.shards[r], kept |-> [b \in Buckets |-> <<>>], rounds |-> 0,
     epoch |-> 0, step |-> 0, offset |-> [b \in Buckets |-> 0], batch |-> {},
     model |-> Nothing, ok |-> TRUE]

Init ==
    /\ options \in OptionSets
    /\ pc = [r \in Ranks |-> "count"]
    /\ mem = [r \in Ranks |-> FreshMemory(r)]
    /\ owners = [b \in Buckets |-> 0]
    /\ job = "running"
    /\ why = ""
    /\ resuming = FALSE
    /\ files = [r \in Ranks |-> Nothing]
    /\ output = Nothing
    /\ torn = FALSE
    /\ crashes = 0
    /\ failures = 0

\* Every process is gone, and what it had in memory.
Over(how, message) ==
    /\ job' = how
    /\ why' = message
    /\ pc' = [r \in Ranks |-> "off"]
    /\ mem' = [r \in Ranks |-> FreshMemory(r)]
    /\ owners' = [b \in Buckets |-> 0]
AbortMpi(message) == Over("aborted", message) /\ UNCHANGED <<disk, history>>

\* A rank goes on alone, or all ranks after a collective call.
At(r, label) == job = "running" /\ pc[r] = label
Goes(r, label) == pc' = [pc EXCEPT ![r] = label]
Meet(label) == job = "running" /\ \A r \in Ranks : pc[r] = label
AllGo(label) == pc' = [r \in Ranks |-> label]
Local == UNCHANGED <<owners, job, why, disk, history>>

-----------------------------------------------------------------------------
(***************************************************************************)
(* Reading and routing the records.                                        *)
(***************************************************************************)
CountBuckets(r) ==
    /\ At(r, "count")
    /\ IF \E i \in DOMAIN options.shards[r] : BucketOf(options.shards[r][i]) = NoKing
       THEN AbortMpi("record has no perspective king")
       ELSE Goes(r, "census") /\ UNCHANGED mem /\ Local

\* MPI_Allreduce of the buckets' counts.
Census ==
    /\ Meet("census")
    /\ IF GlobalCount = 0 THEN AbortMpi("training set is empty")
       ELSE /\ AllGo("rounds")
            /\ owners' = AssignOwners(Corpus)
            /\ UNCHANGED <<mem, job, why, disk, history>>

RoundsOf(r) == (Len(mem[r].shard) + RouteRecords - 1) \div RouteRecords

\* MPI_Allreduce of the number of rounds: a rank whose shard is short takes
\* part in the later rounds with nothing to send.
MaxRounds(r) == Max({RoundsOf(s) : s \in Ranks})
AgreeRounds ==
    /\ Meet("rounds")
    /\ mem' = [r \in Ranks |-> [mem[r] EXCEPT !.rounds = MaxRounds(r)]]
    /\ AllGo("route")
    /\ Local

\* MPI_Alltoall of the counts and MPI_Alltoallv of the records: what a rank
\* receives is in the order of the senders.
Chunk(r) == SubSeq(mem[r].shard, 1, Min({RouteRecords, Len(mem[r].shard)}))
Arriving == FlattenSeq([n \in 1 .. NumRanks |-> Chunk(n - 1)])
Received(b) ==
    LET taken[n \in 0 .. Len(Arriving)] ==
            IF n = 0 THEN <<>>
            ELSE IF BucketOf(Arriving[n]) = b THEN Append(taken[n - 1], Arriving[n]) ELSE taken[n - 1]
    IN  taken[Len(Arriving)]
RouteRound ==
    /\ Meet("route")
    /\ \A r \in Ranks : mem[r].rounds = mem[0].rounds
    /\ mem' = [r \in Ranks |->
                 [mem[r] EXCEPT
                    !.shard = SubSeq(@, Len(Chunk(r)) + 1, Len(@)),
                    !.kept = [b \in Buckets |-> IF Owns(r, b) THEN @[b] \o Received(b) ELSE @[b]],
                    !.rounds = @ - 1]]
    /\ AllGo(IF mem[0].rounds = 1 THEN "tally" ELSE "route")
    /\ Local

\* MPI_Allreduce of the records kept.
Tally ==
    /\ Meet("tally")
    /\ LET routed == {x \in Ranks \X Buckets \X (1 .. GlobalCount) : x[3] <= Len(mem[x[1]].kept[x[2]])}
       IN  IF Cardinality(routed) # GlobalCount THEN AbortMpi("routed record count mismatch")
           ELSE AllGo("load") /\ UNCHANGED mem /\ Local

-----------------------------------------------------------------------------
(***************************************************************************)
(* Initial weights, or the checkpoint of the rank.                         *)
(***************************************************************************)
LoadCheckpoint(r) ==
    /\ At(r, "load")
    /\ IF resuming
       THEN /\ mem' = [mem EXCEPT
                         ![r] = IF files[r] = Nothing THEN [@ EXCEPT !.ok = FALSE]
                                ELSE [@ EXCEPT !.epoch = files[r].epoch, !.model = files[r].model]]
            /\ Goes(r, "agree")
       ELSE /\ mem' = [mem EXCEPT ![r].model = InitialModel(r)]
            /\ Goes(r, "epoch")
    /\ Local

\* MPI_Allreduce of loaded_all.  That the ranks have loaded the same epoch is
\* not looked at.
AgreeLoaded ==
    /\ Meet("agree")
    /\ IF \E r \in Ranks : ~mem[r].ok \/ mem[r].epoch > Epochs
       THEN AbortMpi("cannot resume checkpoint")
       ELSE /\ AllGo("epoch")
            /\ torn' = (torn \/ \E r \in Ranks : mem[r].epoch # mem[0].epoch)
            /\ UNCHANGED <<mem, owners, job, why, disk, options, resuming, crashes, failures>>

-----------------------------------------------------------------------------
(***************************************************************************)
(* Epochs and steps.                                                       *)
(***************************************************************************)
\* The owned buckets are shuffled where they stand.
BeginEpoch(r) ==
    /\ At(r, "epoch")
    /\ mem[r].epoch < Epochs
    /\ mem' = [mem EXCEPT
                 ![r].kept = [b \in Buckets |-> IF Owns(r, b) THEN Shuffled(@[b], mem[r].epoch, b) ELSE @[b]],
                 ![r].offset = [b \in Buckets |-> 0],
                 ![r].step = 0]
    /\ Goes(r, "fill")
    /\ Local

\* Bug: every step takes the share of a whole batch, rounded down.
Bug_ShareOfOneBatch(b, step) == (options.batch * GlobalBuckets(b)) \div GlobalCount

\* What step takes from a bucket: the share of the records up to its end less
\* the share of those up to its start.
Quota(b, record) == (record * GlobalBuckets(b)) \div GlobalCount
Amount(b, step) ==
    LET start == step * options.batch
        end == Min({start + options.batch, GlobalCount})
    IN  Quota(b, end) - Quota(b, start)

Taken(r, b) ==
    SubSeq(mem[r].kept[b], mem[r].offset[b] + 1, mem[r].offset[b] + Amount(b, mem[r].step))
LocalBatch(r) == UNION {ToSet(Taken(r, b)) : b \in {c \in Buckets : Owns(r, c)}}
Overflows(r) ==
    LET mine == {b \in Buckets : Owns(r, b)}
        slots == {x \in mine \X (1 .. GlobalCount) : x[2] <= Amount(x[1], mem[r].step)}
    IN  \/ \E b \in mine : mem[r].offset[b] + Amount(b, mem[r].step) > Len(mem[r].kept[b])
        \/ Cardinality(slots) > options.batch

\* Bug: a rank without records in a step goes on to the next one.
Bug_SkipsEmptyShare(r) ==
    /\ At(r, "fill")
    /\ mem[r].step < StepsPerEpoch
    /\ mem' = [mem EXCEPT
                 ![r].batch = LocalBatch(r),
                 ![r].step = IF LocalBatch(r) = {} THEN @ + 1 ELSE @,
                 ![r].offset = [b \in Buckets |-> IF Owns(r, b) THEN @[b] + Amount(b, mem[r].step) ELSE @[b]]]
    /\ Goes(r, IF LocalBatch(r) = {} THEN "fill" ELSE "size")
    /\ Local

FillBatch(r) ==
    /\ At(r, "fill")
    /\ mem[r].step < StepsPerEpoch
    /\ IF Overflows(r) THEN AbortMpi("stratified minibatch overflow")
       ELSE /\ mem' = [mem EXCEPT
                         ![r].batch = LocalBatch(r),
                         ![r].offset = [b \in Buckets |->
                             IF Owns(r, b) THEN @[b] + Amount(b, mem[r].step) ELSE @[b]]]
            /\ Goes(r, "size")
            /\ Local

Global == UNION {mem[r].batch : r \in Ranks}

\* Bug: continue, in a loop that counts its steps further down.
Bug_EmptyStepStays(r) == mem[r].step

\* MPI_Allreduce of the batch sizes; a step without any record is skipped.
AfterEmptyStep(r) == mem[r].step + 1
Size ==
    /\ Meet("size")
    /\ IF Global = {}
       THEN /\ mem' = [r \in Ranks |-> [mem[r] EXCEPT !.step = AfterEmptyStep(r)]]
            /\ AllGo("fill")
       ELSE AllGo("sync") /\ UNCHANGED mem
    /\ Local

\* MPI_Allreduce of the replicated gradients, and the step of the optimizer.
Sync ==
    /\ Meet("sync")
    /\ mem' = [r \in Ranks |-> [mem[r] EXCEPT !.model = Updated(@, mem[r].batch, Global)]]
    /\ AllGo(IF options.optimizer = "muon" THEN "head" ELSE "loss")
    /\ Local

\* Bug: the matrices are broadcast from the root of all the other calls.
Bug_FromRankZero(side) == 0

\* Muon: the owner of a matrix steps it and MPI_Bcast gives it to the others.
MatrixOwner(side) == side % NumRanks
BroadcastRoot(side) == side % NumRanks
HeadOf(r, side) ==
    IF r = MatrixOwner(side) THEN Append(mem[r].model.head[side], Global) ELSE mem[r].model.head[side]
Broadcast ==
    /\ Meet("head")
    /\ mem' = [r \in Ranks |->
                 [mem[r] EXCEPT !.model.head = [side \in Sides |-> HeadOf(BroadcastRoot(side), side)]]]
    /\ AllGo("loss")
    /\ Local

\* MPI_Allreduce of the loss, and the end of the step.
Loss ==
    /\ Meet("loss")
    /\ mem' = [r \in Ranks |-> [mem[r] EXCEPT !.step = @ + 1, !.batch = {}]]
    /\ AllGo("fill")
    /\ Local

EndEpoch(r) ==
    /\ At(r, "fill")
    /\ ~(mem[r].step < StepsPerEpoch)
    /\ Goes(r, "report")
    /\ UNCHANGED mem
    /\ Local

\* MPI_Reduce of the times, then a checkpoint if one is due.
Due(epoch) == CheckpointEpochs > 0 /\ (epoch + 1) % CheckpointEpochs = 0
Report ==
    /\ Meet("report")
    /\ pc' = [r \in Ranks |-> IF Due(mem[r].epoch) THEN "save" ELSE "epoch"]
    /\ mem' = [r \in Ranks |-> [mem[r] EXCEPT !.epoch = IF Due(@) THEN @ ELSE @ + 1]]
    /\ Local

-----------------------------------------------------------------------------
(***************************************************************************)
(* Checkpoints and the final model.                                        *)
(***************************************************************************)
\* Bug: the epoch that has just ended is recorded as the one to resume at.
Bug_EpochJustEnded(r) == mem[r].epoch

\* Each rank replaces its file by a complete new one, or leaves it.
EpochToResume(r) == mem[r].epoch + 1
SaveCheckpoint(r) ==
    /\ At(r, "save")
    /\ files' = [files EXCEPT ![r] = [epoch |-> EpochToResume(r), model |-> mem[r].model]]
    /\ Goes(r, "saved")
    /\ UNCHANGED <<mem, owners, job, why, output, history>>
CheckpointFails(r) ==
    /\ At(r, "save")
    /\ failures < MaxFailures
    /\ failures' = failures + 1
    /\ mem' = [mem EXCEPT ![r].ok = FALSE]
    /\ Goes(r, "saved")
    /\ UNCHANGED <<owners, job, why, disk, options, resuming, torn, crashes>>

\* MPI_Allreduce of checkpoint_ok.
AgreeSaved ==
    /\ Meet("saved")
    /\ IF \E r \in Ranks : ~mem[r].ok THEN AbortMpi("cannot write checkpoint")
       ELSE /\ mem' = [r \in Ranks |-> [mem[r] EXCEPT !.epoch = @ + 1]]
            /\ AllGo("epoch")
            /\ Local

\* The steps the owned rows have missed are made up for.
Flush(r) ==
    /\ At(r, "epoch")
    /\ ~(mem[r].epoch < Epochs)
    /\ mem' = [mem EXCEPT ![r].model.rows =
                 [x \in Rows |-> IF Owns(r, x[1]) THEN FlushMomentum(@[x], mem[r].model.number) ELSE @[x]]]
    /\ Goes(r, "gather")
    /\ Local

\* MPI_Reduce adds up the board rows of all ranks, rank 0 saves them with its
\* copy of the rest and MPI_Bcast tells the others.
SumOver(value(_)) ==
    LET sum[n \in 0 .. NumRanks] == IF n = 0 THEN 0 ELSE sum[n - 1] + value(n - 1) IN sum[NumRanks]
Gathered(x) == LET weight(r) == mem[r].model.rows[x].weight IN SumOver(weight)
GatherAndSave ==
    /\ Meet("gather")
    /\ output' = [rows |-> [x \in Rows |-> Gathered(x)],
                  dense |-> [x \in Rows |-> mem[owners[x[1]]].model.dense[x].weight]]
    /\ Over("done", "")
    /\ UNCHANGED <<files, history>>
SaveFails ==
    /\ Meet("gather")
    /\ failures < MaxFailures
    /\ failures' = failures + 1
    /\ Over("aborted", "cannot save NNUE3 checkpoint")
    /\ UNCHANGED <<disk, options, resuming, torn, crashes>>

-----------------------------------------------------------------------------
(***************************************************************************)
(* What MPI and the operator do.                                           *)
(***************************************************************************)
Calls == {"census", "rounds", "route", "tally", "agree", "size", "sync", "head", "loss",
          "report", "saved", "gather"}

\* Ranks that wait in different calls: MPI does not define what comes of it.
Mismatch ==
    /\ job = "running"
    /\ \A r \in Ranks : pc[r] \in Calls
    /\ \/ \E r \in Ranks : pc[r] # pc[0]
       \/ pc[0] = "route" /\ \E r \in Ranks : mem[r].rounds # mem[0].rounds
    /\ Over("undefined", "")
    /\ UNCHANGED <<disk, history>>

\* A node is lost or the time of the job is up.
Crash ==
    /\ job = "running"
    /\ crashes < MaxCrashes
    /\ crashes' = crashes + 1
    /\ Over("killed", "")
    /\ UNCHANGED <<disk, options, resuming, torn, failures>>

\* The operator resumes from the files there are; when that is refused, the
\* next job starts from nothing.
WriteErrors == {"cannot write checkpoint", "cannot save NNUE3 checkpoint"}
Restart ==
    /\ job = "killed" \/ why \in WriteErrors \cup {"cannot resume checkpoint"}
    /\ files' = [r \in Ranks |-> IF why = "cannot resume checkpoint" THEN Nothing ELSE files[r]]
    /\ resuming' = \E r \in Ranks : files'[r] # Nothing
    /\ job' = "running"
    /\ why' = ""
    /\ pc' = [r \in Ranks |-> "count"]
    /\ UNCHANGED <<options, mem, owners, output, torn, crashes, failures>>

Alone(r) ==
    \/ CountBuckets(r) \/ LoadCheckpoint(r) \/ BeginEpoch(r) \/ FillBatch(r) \/ EndEpoch(r)
    \/ SaveCheckpoint(r) \/ Flush(r)
Together ==
    \/ Census \/ AgreeRounds \/ RouteRound \/ Tally \/ AgreeLoaded \/ Size \/ Sync \/ Broadcast
    \/ Loss \/ Report \/ AgreeSaved \/ GatherAndSave \/ Mismatch

Next ==
    \/ \E r \in Ranks : Alone(r) \/ CheckpointFails(r)
    \/ Together
    \/ SaveFails
    \/ Crash
    \/ Restart

Spec == Init /\ [][Next]_vars

\* The ranks run and MPI completes a call in which all of them are.
FairSpec == Spec /\ WF_vars(Together) /\ \A r \in Ranks : WF_vars(Alone(r))

-----------------------------------------------------------------------------

\* When an epoch ends, every record of every shard has been in one batch: it
\* was routed once, to the owner of its bucket, whatever the lengths of the
\* shards; and the shares of the steps, rounded step by step and bucket by
\* bucket, add up to the whole.
EachRecordOncePerEpoch ==
    \A r \in Ranks : pc[r] = "report" =>
        \A b \in Buckets : Owns(r, b) =>
            /\ ToSet(mem[r].kept[b]) = OfBucket(b)
            /\ mem[r].offset[b] = Len(mem[r].kept[b])
            /\ Len(mem[r].kept[b]) = GlobalBuckets(b)

\* Ranks of one job, in one epoch, always meet in the same call: also when a
\* rank has no record left to route, or none in a step.
RanksMeet == job = "undefined" => torn

\* Ranks that have made the same number of steps hold the same replicated
\* parameters, the two matrices that only one of them steps included, and all
\* have seen every batch: after a checkpoint and a resumed job as well.
ReplicasAgree ==
    ~torn => \A r, s \in Ranks :
        mem[r].model # Nothing /\ mem[s].model # Nothing /\ pc[r] # "head" =>
            LET m == mem[r].model
                n == mem[s].model
            IN  /\ m.number = n.number => m.replica = n.replica /\ m.head = n.head
                /\ Len(m.replica) = m.number
                /\ \A side \in Sides : m.head[side] = m.replica

\* The shortcut of the rarely used rows is exact: brought up to date, a row is
\* what stepping it at every step would have made of it, across checkpoints
\* and in the saved model, to which every row is added once.
LazyIsDense ==
    /\ \A r \in Ranks : mem[r].model # Nothing =>
          \A x \in Rows : Owns(r, x[1]) =>
             FlushMomentum(mem[r].model.rows[x], mem[r].model.number).weight
                 = mem[r].model.dense[x].weight
    /\ output # Nothing => output.rows = output.dense

\* The files of the ranks are never further apart than one checkpoint, each
\* holds the steps of the epochs it claims, and files of one epoch hold one
\* model: whenever the job is killed.
EffectiveSteps ==
    Cardinality({n \in 0 .. StepsPerEpoch - 1 : \E b \in Buckets : Amount(b, n) > 0})
CheckpointsBelongTogether ==
    ~torn => \A r, s \in Ranks :
        files[r] # Nothing =>
            /\ files[r].model.number = files[r].epoch * EffectiveSteps
            /\ files[s] # Nothing =>
                  /\ files[s].epoch - files[r].epoch <= CheckpointEpochs
                  /\ files[s].epoch = files[r].epoch => files[s].model.replica = files[r].model.replica

\* Every job ends, whatever the shares of the ranks are: no rank waits for ever
\* in a call the others do not make.
EveryJobEnds == job = "running" ~> job # "running"

\* doc/tinyshogi.md:291, of the trainer: "Build deterministic stratified global
\* minibatches", and :298: "One-node and twelve-node runs from identical shards
\* and hyperparameters produced byte-identical 94,228,157-byte NNUE3 models".
BatchesFit == why # "stratified minibatch overflow"
=============================================================================
