-------------------------- MODULE Campaign_proofs --------------------------
(***************************************************************************)
(* The campaign never consumes device time it has not charged, never has   *)
(* two processes on the device, never gives out a seed twice, publishes    *)
(* whole games only, finds at every start the files its state names, and   *)
(* pays for each optimizer step with the credit of recorded games: for     *)
(* every budget, length of a phase, launch delay within the margin, number *)
(* of threads and games, and any crashes.                                  *)
(***************************************************************************)
EXTENDS Campaign, FiniteSetTheorems, WellFoundedInduction, TLAPS

\* What is needed of the supervisor's state, of a phase and of a process: the
\* fields they have, and the types of those that measure time.
StateFields == {"spent", "lease", "sequence", "model", "shards", "positions",
                "credit", "seed", "preflight", "validated"}
IsState(s) ==
    /\ StateFields \subseteq DOMAIN s
    /\ s.spent \in Nat
    /\ s.lease \in Nat \cup {NONE}

ChildFields == {"label", "status", "start", "limit", "rc", "target", "steps", "base"}
IsChild(c) ==
    /\ ChildFields \subseteq DOMAIN c
    /\ c.start \in Nat
    /\ c.limit \in Nat

JobFields == {"label", "lease", "target", "steps", "rc"}
IsJob(j) ==
    /\ JobFields \subseteq DOMAIN j
    /\ j.lease \in Nat

TypeInv ==
    /\ now \in Nat
    /\ used \in Nat
    /\ IsState(disk)
    /\ pc # "down" => IsState(mem)
    /\ IsJob(job)
    /\ IsChild(child)

\* While the supervisor is at work the file agrees with its memory on what is
\* spent.  A phase that is debited but not yet launched is charged in full and
\* its expiry is two seconds past its lease.
Charge ==
    /\ pc # "down" => mem.spent = disk.spent
    /\ pc = "debited" => /\ now <= LaunchDelay
                         /\ used + job.lease <= disk.spent
                         /\ disk.lease = job.lease + 2

\* A running process is within its lease, which ends before the expiry in the
\* file.  What a phase that is waited for has used is charged on top of what
\* its lease has left.
Lease ==
    /\ Running => /\ child.start <= now /\ now <= child.limit
                  /\ disk.lease \in Nat /\ child.limit < disk.lease
    /\ pc = "waiting" => /\ child.start <= now
                         /\ used + job.lease <= disk.spent + (now - child.start)

IInv == TypeInv /\ Charge /\ Lease /\ BudgetCoversUse /\ OneDevicePhase

LEMMA StateUpdate ==
  ASSUME NEW s, IsState(s)
  PROVE  /\ IsState([s EXCEPT !.lease = NONE])
         /\ [s EXCEPT !.lease = NONE].spent = s.spent
         /\ [s EXCEPT !.lease = NONE].lease = NONE
  BY DEF IsState, StateFields

LEMMA FreshTyped == IsState(Fresh) /\ Fresh.spent = 0
  BY DEF IsState, StateFields, Fresh

\* A process that ends keeps the times it had; Halted has none.
LEMMA ChildKept ==
  ASSUME NEW c, IsChild(c), NEW rc
  PROVE  LET d == [c EXCEPT !.status = "exited", !.rc = rc]
         IN  IsChild(d) /\ d.start = c.start /\ d.limit = c.limit /\ d.status = "exited"
  BY DEF IsChild, ChildFields

LEMMA HaltedTyped == IsChild(Halted) /\ Halted.status = "none"
  BY DEF IsChild, ChildFields, Halted

LEMMA NoJobTyped == IsJob(NoJob)
  BY DEF IsJob, JobFields, NoJob

LEMMA JobTyped ==
  ASSUME NEW j, IsJob(j), NEW x
  PROVE  /\ IsJob([NoJob EXCEPT !.target = x])
         /\ IsJob([j EXCEPT !.rc = x]) /\ [j EXCEPT !.rc = x].lease = j.lease
  BY DEF IsJob, JobFields, NoJob

-----------------------------------------------------------------------------
\* Debiting a phase charges the whole lease, within the budget, and records the
\* expiry; too short a rest of the budget ends the supervisor.
LEMMA DebitKeeps ==
  ASSUME IInv, pc \in {"main", "seeded"},
         NEW label, NEW target, NEW steps,
         Debit(label, target, steps, mem), Unleased
  PROVE  IInv'
  <1> USE CampaignAssumption
  <1> DEFINE lease == Least(PhaseSeconds, Remaining)
  <1>1. /\ IsState(mem) /\ mem.spent = disk.spent /\ ~Running
        /\ disk.spent \in Nat /\ used \in Nat /\ used <= disk.spent /\ disk.spent <= Budget
        /\ IsJob(job) /\ IsState(disk) /\ now \in Nat
    BY DEF IInv, TypeInv, Charge, BudgetCoversUse, OneDevicePhase, IsState
  <1>2. /\ child' = child /\ used' = used /\ ~Running' /\ IsChild(child)
    BY <1>1 DEF Unleased, Running, IInv, TypeInv
  <1>3. CASE lease < 3
    <2>1. pc' = "down" /\ job' = NoJob /\ now' = now /\ disk' = disk
      BY <1>3 DEF Debit, Leaves
    <2> QED
      BY <1>1, <1>2, <2>1, NoJobTyped
         DEF IInv, TypeInv, Charge, Lease, BudgetCoversUse, OneDevicePhase
  <1>4. CASE ~(lease < 3)
    <2>1. lease \in Nat /\ lease <= Budget - mem.spent
      BY <1>1, <1>4 DEF Least, Remaining
    <2>2. /\ mem' = [mem EXCEPT !.sequence = mem.sequence + 1, !.spent = mem.spent + lease,
                                !.lease = lease + 2]
          /\ disk' = mem' /\ now' = 0 /\ pc' = "debited"
          /\ job' = [label |-> label, lease |-> lease, target |-> target,
                     steps |-> steps, rc |-> 0]
      BY <1>4 DEF Debit, Charged, Expiry
    <2>3. /\ IsState(mem') /\ mem'.spent = mem.spent + lease /\ mem'.lease = lease + 2
      <3>1. mem.spent + lease \in Nat /\ lease + 2 \in Nat
        BY <1>1, <2>1
      <3> HIDE DEF lease
      <3> QED
        BY <1>1, <2>2, <3>1 DEF IsState, StateFields
    <2>4. IsJob(job') /\ job'.lease = lease
      <3> HIDE DEF lease
      <3> QED
        BY <2>1, <2>2 DEF IsJob, JobFields
    <2> HIDE DEF lease
    <2> QED
      BY <1>1, <1>2, <2>1, <2>2, <2>3, <2>4
         DEF IInv, TypeInv, Charge, Lease, BudgetCoversUse, OneDevicePhase
  <1> QED
    BY <1>3, <1>4

\* The steps of the leased process that end it, or kill it.
LEMMA ExitKeeps ==
  ASSUME IInv, Running, NEW rc, Exit(rc), ChildOnly
  PROVE  IInv'
  <1>1. /\ IsChild(child) /\ now \in Nat /\ used \in Nat /\ child.limit \in Nat
        /\ now <= child.limit /\ pc \in {"down", "waiting"}
    BY DEF IInv, TypeInv, Lease, OneDevicePhase, IsChild
  <1>2. /\ IsChild(child') /\ ~Running'
        /\ pc = "waiting" => child'.start = child.start
    BY <1>1, ChildKept, HaltedTyped DEF Exit, Running
  <1>3. UNCHANGED <<now, disk, mem, pc, job, used>>
    BY DEF ChildOnly
  <1>4. used <= disk.spent
    BY <1>1 DEF IInv, BudgetCoversUse, TypeInv, IsState
  <1> QED
    BY <1>1, <1>2, <1>3, <1>4
       DEF IInv, TypeInv, Charge, Lease, BudgetCoversUse, OneDevicePhase

\* A step that leaves the clock, the file, the process and the use alone, and
\* what the supervisor has spent; and that neither debits nor waits.
LEMMA QuietKeeps ==
  ASSUME IInv, pc # "waiting", UNCHANGED <<now, disk, child, used>>, IsJob(job'),
         \/ pc' = "down"
         \/ /\ pc # "down" /\ pc' \notin {"down", "debited", "waiting"}
            /\ IsState(mem') /\ mem'.spent = mem.spent
  PROVE  IInv'
  BY DEF IInv, TypeInv, Charge, Lease, BudgetCoversUse, OneDevicePhase, Running

\* The same, and the file is replaced by the memory.
LEMMA SaveKeeps ==
  ASSUME IInv, pc \notin {"down", "waiting"}, UNCHANGED <<now, child, used>>, IsJob(job'),
         pc' \notin {"down", "debited", "waiting"},
         IsState(mem'), mem'.spent = mem.spent, disk' = mem'
  PROVE  IInv'
  <1>1. ~Running /\ ~Running'
    BY DEF IInv, OneDevicePhase, Running
  <1> QED
    BY <1>1 DEF IInv, TypeInv, Charge, Lease, BudgetCoversUse, OneDevicePhase
-----------------------------------------------------------------------------
LEMMA InitHolds == Init => IInv
  <1> SUFFICES ASSUME Init PROVE IInv
    OBVIOUS
  <1> QED
    BY CampaignAssumption, FreshTyped, HaltedTyped, NoJobTyped
       DEF Init, IInv, TypeInv, Charge, Lease, BudgetCoversUse, OneDevicePhase, Running

\* The supervisor's own steps between two phases.
LEMMA MainKeeps ==
  ASSUME IInv,
         \/ Save \/ InitModel \/ Finish \/ TakeSeed \/ Leave
         \/ AfterPreflight \/ AfterValidate \/ AfterTrain
         \/ ImportFails \/ Import \/ WriteManifest \/ Commit
  PROVE  IInv'
  <1>0. IsJob(job) /\ IsJob(NoJob) /\ (pc # "down" => IsState(mem))
    BY NoJobTyped DEF IInv, TypeInv
  <1>1. CASE Save
    BY <1>0, <1>1, SaveKeeps DEF Save
  <1>2. CASE InitModel
    <2>1. IsState(mem') /\ mem'.spent = mem.spent
      BY <1>0, <1>2 DEF InitModel, IsState, StateFields
    <2> QED
      BY <1>0, <1>2, <2>1, QuietKeeps DEF InitModel
  <1>3. CASE Finish
    BY <1>0, <1>3, QuietKeeps DEF Finish, InLoop, Leaves, Unleased
  <1>4. CASE TakeSeed
    <2>1. IsState(mem') /\ mem'.spent = mem.spent
      BY <1>0, <1>4 DEF TakeSeed, SeedTaken, InLoop, IsState, StateFields
    <2>2. IsJob(job')
      BY <1>4, JobTyped, <1>0 DEF TakeSeed
    <2> QED
      BY <1>4, <2>1, <2>2, SaveKeeps DEF TakeSeed, InLoop, Unleased
  <1>5. CASE Leave
    BY <1>0, <1>5, QuietKeeps DEF Leave, Leaves, Unleased
  <1>6. CASE AfterPreflight
    <2>1. pc = "collected" /\ IsJob(job') /\ UNCHANGED <<now, disk, child, used>>
      BY <1>0, <1>6 DEF AfterPreflight, Passed, Leaves, Unleased
    <2>2. \/ pc' = "down"
          \/ pc' = "save" /\ IsState(mem') /\ mem'.spent = mem.spent
      BY <1>0, <1>6, <2>1 DEF AfterPreflight, Leaves, IsState, StateFields
    <2> QED
      BY <2>1, <2>2, QuietKeeps
  <1>7. CASE AfterValidate
    <2>1. pc = "collected" /\ IsJob(job') /\ UNCHANGED <<now, disk, child, used>>
      BY <1>0, <1>7 DEF AfterValidate, Passed, Leaves, Unleased
    <2>2. \/ pc' = "down"
          \/ pc' = "save" /\ IsState(mem') /\ mem'.spent = mem.spent
      BY <1>0, <1>7, <2>1 DEF AfterValidate, Leaves, IsState, StateFields
    <2> QED
      BY <2>1, <2>2, QuietKeeps
  <1>8. CASE AfterTrain
    <2>1. pc = "collected" /\ UNCHANGED <<now, child, used>>
      BY <1>8 DEF AfterTrain, Passed, Unleased
    <2>2. CASE job.target \in DOMAIN models
      <3>1. IsState(mem') /\ mem'.spent = mem.spent
        BY <1>0, <1>8, <2>1, <2>2 DEF AfterTrain, IsState, StateFields
      <3>2. disk' = mem' /\ job' = NoJob /\ pc' \in {"main", "leaving"}
        BY <1>8, <2>2 DEF AfterTrain
      <3> QED
        BY <1>0, <2>1, <3>1, <3>2, SaveKeeps
    <2>3. CASE job.target \notin DOMAIN models
      BY <1>0, <1>8, <2>1, <2>3, QuietKeeps DEF AfterTrain, Leaves
    <2> QED
      BY <2>2, <2>3
  <1>9. CASE ImportFails
    BY <1>0, <1>9, QuietKeeps DEF ImportFails, Passed, Leaves, Unleased
  <1>10. CASE Import
    <2>1. pc = "collected" /\ pc' = "packed" /\ UNCHANGED <<now, disk, job, child, used>>
      BY <1>10 DEF Import, Passed, AfterPacking
    <2>2. IsState(mem') /\ mem'.spent = mem.spent
      BY <1>0, <1>10, <2>1 DEF Import, IsState, StateFields
    <2> QED
      BY <1>0, <2>1, <2>2, QuietKeeps
  <1>11. CASE WriteManifest
    BY <1>0, <1>11, QuietKeeps DEF WriteManifest
  <1>12. CASE Commit
    BY <1>0, <1>12, SaveKeeps DEF Commit
  <1> QED
    BY <1>1, <1>2, <1>3, <1>4, <1>5, <1>6, <1>7, <1>8, <1>9, <1>10, <1>11, <1>12

\* A start: with the recorded expiry passed, nothing runs any more.
LEMMA OpenKeeps == ASSUME IInv, Open PROVE IInv'
  <1> USE CampaignAssumption
  <1>1. IsState(mem') /\ mem'.spent = disk.spent /\ IsState(disk)
    BY StateUpdate DEF IInv, TypeInv, Open, Resumed
  <1>2. ~Running
    <2>1. SUFFICES ASSUME Running PROVE FALSE
      OBVIOUS
    <2>2. /\ disk.lease \in Nat /\ child.limit < disk.lease /\ now <= child.limit
          /\ now \in Nat /\ child.limit \in Nat
      BY <2>1 DEF IInv, TypeInv, Lease, IsChild
    <2>3. now >= disk.lease
      BY <2>2 DEF Open
    <2> QED
      BY <2>2, <2>3
  <1>3. ~Running'
    BY <1>2 DEF Open, Running
  <1> QED
    BY <1>1, <1>2, <1>3
       DEF IInv, TypeInv, Charge, Lease, BudgetCoversUse, OneDevicePhase, Open

LEMMA LaunchKeeps == ASSUME IInv, Launch PROVE IInv'
  <1> USE CampaignAssumption
  <1>1. /\ now \in Nat /\ used \in Nat /\ job.lease \in Nat /\ disk.spent \in Nat
        /\ now <= LaunchDelay /\ used + job.lease <= disk.spent
        /\ disk.lease = job.lease + 2
    BY DEF IInv, TypeInv, Charge, Launch, IsJob, IsState
  <1>2. /\ IsChild(child') /\ child'.start = now /\ child'.limit = now + job.lease
        /\ child'.status = "running"
    BY <1>1 DEF Launch, IsChild, ChildFields
  <1>3. UNCHANGED <<now, disk, mem, job, used>> /\ pc' = "waiting" /\ pc = "debited"
    BY DEF Launch
  <1> QED
    BY <1>1, <1>2, <1>3
       DEF IInv, TypeInv, Charge, Lease, BudgetCoversUse, OneDevicePhase, Running

LEMMA TickKeeps == ASSUME IInv, Tick PROVE IInv'
  <1> USE CampaignAssumption
  <1>1. /\ now \in Nat /\ used \in Nat /\ child.start \in Nat /\ child.limit \in Nat
        /\ job.lease \in Nat /\ disk.spent \in Nat
    BY DEF IInv, TypeInv, IsChild, IsJob, IsState
  <1>2. /\ UNCHANGED <<disk, mem, pc, job, child>> /\ now' = now + 1
        /\ (Running' <=> Running)
    BY DEF Tick, Running
  <1>3. CASE Running
    <2>1. used' = used + 1 /\ now < child.limit /\ pc \in {"down", "waiting"}
      BY <1>3 DEF Tick, IInv, OneDevicePhase
    <2> QED
      BY <1>1, <1>2, <1>3, <2>1
         DEF IInv, TypeInv, Charge, Lease, BudgetCoversUse, OneDevicePhase
  <1>4. CASE ~Running
    <2>1. used' = used /\ ((pc = "debited" /\ now < LaunchDelay) \/ pc = "down")
      BY <1>1, <1>4 DEF Tick
    <2> QED
      BY <1>1, <1>2, <1>4, <2>1
         DEF IInv, TypeInv, Charge, Lease, BudgetCoversUse, OneDevicePhase
  <1> QED
    BY <1>3, <1>4

\* The refund leaves charged what the process has used.
LEMMA CollectKeeps == ASSUME IInv, Collect PROVE IInv'
  <1>1. /\ now \in Nat /\ used \in Nat /\ child.start \in Nat /\ job.lease \in Nat
        /\ disk.spent \in Nat /\ mem.spent = disk.spent /\ disk.spent <= Budget
        /\ child.start <= now /\ used + job.lease <= disk.spent + (now - child.start)
        /\ ~Running /\ used <= disk.spent /\ IsState(mem) /\ IsJob(job)
    BY DEF IInv, TypeInv, Charge, Lease, BudgetCoversUse, Collect, Running,
           IsChild, IsJob, IsState
  <1>2. Refunded \in Nat /\ used <= Refunded /\ Refunded <= Budget
    BY <1>1, CampaignAssumption DEF Refunded, Minus
  <1>3. IsState(mem') /\ mem'.spent = Refunded
    <2>1. mem' = [mem EXCEPT !.spent = Refunded, !.lease = NONE]
      BY DEF Collect
    <2> QED
      BY <1>1, <1>2, <2>1 DEF IsState, StateFields
  <1>4. IsJob(job')
    BY <1>1, JobTyped DEF Collect
  <1>5. /\ IsChild(child') /\ ~Running' /\ now' = 0 /\ used' = used /\ disk' = mem'
        /\ pc' \in {"collected", "leaving"}
    BY HaltedTyped DEF Collect, Running
  <1> QED
    BY <1>1, <1>2, <1>3, <1>4, <1>5
       DEF IInv, TypeInv, Charge, Lease, BudgetCoversUse, OneDevicePhase

LEMMA CrashKeeps == ASSUME IInv, Crash PROVE IInv'
  <1>1. IsJob(job') /\ IsChild(child') /\ pc' = "down" /\ UNCHANGED <<now, disk, used>>
    BY NoJobTyped, HaltedTyped DEF Crash, Leaves, IInv, TypeInv
  <1>2. (Running' <=> Running) /\ (Running => child' = child)
    BY HaltedTyped DEF Crash, Running
  <1> QED
    BY <1>1, <1>2 DEF IInv, TypeInv, Charge, Lease, BudgetCoversUse, OneDevicePhase

\* Every step keeps the invariant, one lemma per group of actions.
LEMMA NextKeeps == IInv /\ [Next]_vars => IInv'
  <1> SUFFICES ASSUME IInv, [Next]_vars PROVE IInv'
    OBVIOUS
  <1>1. CASE UNCHANGED vars
    BY <1>1 DEF vars, campaignVars, IInv, TypeInv, Charge, Lease, BudgetCoversUse,
                OneDevicePhase, Running
  <1>2. CASE Preflight \/ Train \/ Validate \/ Selfplay
    BY <1>2, DebitKeeps DEF Preflight, Train, Validate, Selfplay, InLoop
  <1>3. CASE TrainerExits \/ OtherExits \/ SelfplayExits \/ Kill
    BY <1>3, ExitKeeps DEF TrainerExits, OtherExits, SelfplayExits, Kill, Exits
  <1>4. CASE SelfplayRuns \/ SelfplayIsStopped
    BY <1>4 DEF SelfplayRuns, SelfplayIsStopped, ChildOnly, IInv, TypeInv, Charge, Lease,
                BudgetCoversUse, OneDevicePhase, Running
  <1>5. CASE \/ Save \/ InitModel \/ Finish \/ TakeSeed \/ Leave
             \/ AfterPreflight \/ AfterValidate \/ AfterTrain
             \/ ImportFails \/ Import \/ WriteManifest \/ Commit
    BY <1>5, MainKeeps
  <1> QED
    BY <1>1, <1>2, <1>3, <1>4, <1>5, OpenKeeps, LaunchKeeps, TickKeeps, CollectKeeps,
       CrashKeeps DEF Next

LEMMA Invariance == Spec => []IInv
  BY InitHolds, NextKeeps, PTL DEF Spec

\* Through any crashes and resumptions, what the leased processes have used and
\* may still use is charged in the state file, within the budget.
THEOREM UseIsCharged == Spec => []BudgetCoversUse
  <1>1. IInv => BudgetCoversUse
    BY DEF IInv
  <1> QED
    BY <1>1, Invariance, PTL

\* A supervisor at work never finds an earlier process on the device: the
\* expiry it waited for outlasts every lease that may have been running.
THEOREM OneProcessAtATime == Spec => []OneDevicePhase
  <1>1. IInv => OneDevicePhase
    BY DEF IInv
  <1> QED
    BY <1>1, Invariance, PTL

-----------------------------------------------------------------------------
(***************************************************************************)
(* Seeds and files.  What the state file names is there as it was recorded: *)
(* the shards are distinct, older than the next seed, and their replays     *)
(* those their manifests name.  The supervisor's memory is ahead of the     *)
(* file by at most the shard it imports.  That shard, and the one that is   *)
(* being played, also by a process whose supervisor died, is not named yet. *)
(***************************************************************************)
Shards == {disk.shards[i] : i \in DOMAIN disk.shards}
Kept(seed) == /\ seed \in DOMAIN manifests /\ seed \in DOMAIN replays
              /\ manifests[seed] = replays[seed]
Stored ==
    /\ disk.seed \in Nat
    /\ disk.shards \in Seq(Nat)
    /\ \A i, j \in DOMAIN disk.shards : disk.shards[i] = disk.shards[j] => i = j
    /\ \A seed \in Shards : seed < disk.seed /\ Kept(seed)
    /\ \A seed \in DOMAIN replays \cup DOMAIN traces : seed \in Nat /\ seed < disk.seed
    /\ disk.model # NONE => disk.model \in DOMAIN models

Importing == pc \in {"packed", "manifested"}
AtWork ==
    pc # "down" =>
        /\ mem.seed = disk.seed
        /\ mem.model # NONE => mem.model \in DOMAIN models
        /\ mem.shards = IF Importing THEN Append(disk.shards, job.target) ELSE disk.shards
        /\ Importing => job.target \in DOMAIN replays
        /\ pc = "manifested" => Kept(job.target)

Unnamed(seed) == seed \in Nat /\ seed < disk.seed /\ seed \notin Shards
SpFields == {"phase", "seed", "next", "failed", "stopped", "replay", "trace", "game", "at"}
Aims ==
    /\ \/ pc = "seeded" \/ Importing
       \/ pc \in {"debited", "waiting", "collected"} /\ job.label = "selfplay"
       => Unnamed(job.target)
    /\ Running /\ child.label = "selfplay" =>
          Unnamed(child.target) /\ SpFields \subseteq DOMAIN sp /\ sp.seed = child.target

DataInv == Stored /\ AtWork /\ Aims

LEMMA DataInit == Init => DataInv
  <1> SUFFICES ASSUME Init PROVE DataInv
    OBVIOUS
  <1>1. disk.shards = <<>> /\ disk.seed = 1 /\ disk.model = NONE /\ ~Running
    BY DEF Init, Fresh, Halted, Running
  <1>2. replays = [x \in {} |-> 0] /\ traces = [x \in {} |-> 0] /\ pc = "down"
    BY DEF Init
  <1> QED
    BY <1>1, <1>2 DEF DataInv, Stored, AtWork, Aims, Shards, Importing

\* What is kept stays kept: files of trainer and self-play only come in addition.
Files == <<models, manifests, replays, traces>>

\* The supervisor ends, for whatever reason; a process that runs, runs on.
LEMMA DownKeepsData ==
  ASSUME DataInv, pc' = "down", UNCHANGED <<disk, Files, sp>>,
         Running' => Running /\ child' = child
  PROVE  DataInv'
  <1>1. Stored'
    BY DEF DataInv, Stored, Shards, Kept, Files
  <1>2. AtWork'
    BY DEF AtWork
  <1>3. Aims'
    BY DEF DataInv, Aims, Unnamed, Shards, Importing
  <1> QED
    BY <1>1, <1>2, <1>3 DEF DataInv

\* A step of the supervisor while nothing runs that replaces the state file, or
\* not, and names no shard; the checkpoint it names is there.
LEMMA WorkKeepsData ==
  ASSUME DataInv, ~Running', UNCHANGED <<manifests, replays, traces, sp>>,
         DOMAIN models \subseteq DOMAIN models',
         disk'.seed = disk.seed, disk'.shards = disk.shards,
         disk'.model # NONE => disk'.model \in DOMAIN models',
         pc' \notin {"packed", "manifested", "seeded"},
         pc' # "down" => /\ mem'.seed = disk.seed /\ mem'.shards = disk.shards
                         /\ mem'.model # NONE => mem'.model \in DOMAIN models',
         pc' \in {"debited", "waiting", "collected"} /\ job'.label = "selfplay" =>
             Unnamed(job'.target)
  PROVE  DataInv'
  <1>1. Shards' = Shards
    BY DEF Shards
  <1>2. Stored'
    BY <1>1 DEF DataInv, Stored, Kept
  <1>3. AtWork'
    BY DEF AtWork, Importing
  <1>4. Aims'
    BY <1>1 DEF Aims, Unnamed, Importing
  <1> QED
    BY <1>2, <1>3, <1>4 DEF DataInv

LEMMA DebitKeepsData ==
  ASSUME IInv, DataInv, pc \in {"main", "seeded"},
         NEW label, NEW target, NEW steps,
         label = "selfplay" => pc = "seeded" /\ target = job.target,
         Debit(label, target, steps, mem), Unleased
  PROVE  DataInv'
  <1>1. /\ ~Running /\ Running' = Running /\ UNCHANGED <<models, manifests, replays, traces, sp>>
        /\ IsState(mem)
    BY DEF IInv, TypeInv, OneDevicePhase, Unleased, Running
  <1>2. CASE Leaves /\ UNCHANGED <<now, disk>>
    BY <1>1, <1>2, DownKeepsData DEF Leaves, Files
  <1>3. CASE /\ \E lease : /\ mem' = [mem EXCEPT !.sequence = @ + 1, !.spent = Charged(lease),
                                                  !.lease = Expiry(lease)]
                           /\ job' = [label |-> label, lease |-> lease,
                                      target |-> target, steps |-> steps, rc |-> 0]
             /\ disk' = mem' /\ pc' = "debited"
    <2>1. /\ mem'.seed = mem.seed /\ mem'.shards = mem.shards /\ mem'.model = mem.model
          /\ job'.label = label /\ job'.target = target
      BY <1>1, <1>3 DEF IsState, StateFields
    <2>2. /\ mem.seed = disk.seed /\ mem.shards = disk.shards
          /\ mem.model # NONE => mem.model \in DOMAIN models
          /\ pc = "seeded" => Unnamed(job.target)
      BY DEF DataInv, AtWork, Aims, Importing
    <2> QED
      BY <1>1, <1>3, <2>1, <2>2, WorkKeepsData
  <1> QED
    BY <1>2, <1>3 DEF Debit

\* The supervisor's own steps between two phases.
LEMMA MainKeepsData ==
  ASSUME IInv, DataInv,
         \/ Save \/ InitModel \/ Finish \/ TakeSeed \/ Leave
         \/ AfterPreflight \/ AfterValidate \/ AfterTrain
         \/ ImportFails \/ Import \/ WriteManifest \/ Commit
  PROVE  DataInv'
  <1>0. /\ pc \notin {"down", "waiting"} /\ ~Running /\ child' = child /\ ~Running' /\ sp' = sp
        /\ replays' = replays /\ traces' = traces
        /\ IsState(mem) /\ mem.seed = disk.seed /\ (mem.model # NONE => mem.model \in DOMAIN models)
    BY DEF Save, InitModel, Finish, TakeSeed, Leave, AfterPreflight, AfterValidate, AfterTrain,
           ImportFails, Import, WriteManifest, Commit, InLoop, Passed, Unleased,
           IInv, TypeInv, OneDevicePhase, Running, DataInv, AtWork
  <1>1. CASE Save
    BY <1>0, <1>1, WorkKeepsData DEF Save, DataInv, AtWork, Importing
  <1>2. CASE InitModel
    <2>1. /\ mem'.seed = mem.seed /\ mem'.shards = mem.shards /\ mem'.model = 0
          /\ mem.shards = disk.shards /\ disk' = disk /\ pc' = "save"
          /\ manifests' = manifests
      BY <1>0, <1>2 DEF InitModel, IsState, StateFields, DataInv, AtWork, Importing
    <2>2. DOMAIN models' = DOMAIN models \cup {0}
      BY <1>2 DEF InitModel, Published
    <2>3. disk.model # NONE => disk.model \in DOMAIN models
      BY DEF DataInv, Stored
    <2> QED
      BY <1>0, <2>1, <2>2, <2>3, WorkKeepsData
  <1>3. CASE Finish \/ Leave \/ ImportFails
    BY <1>0, <1>3, DownKeepsData DEF Finish, Leave, ImportFails, Leaves, Unleased, Files
  <1>4. CASE TakeSeed
    <2>1. /\ mem'.seed = mem.seed + 1 /\ mem'.shards = mem.shards /\ mem'.model = mem.model
          /\ mem.shards = disk.shards /\ disk' = mem' /\ pc' = "seeded"
          /\ job'.target = mem.seed /\ UNCHANGED <<models, manifests>>
      BY <1>0, <1>4 DEF TakeSeed, SeedTaken, InLoop, Unleased, IsState, StateFields, NoJob,
                        DataInv, AtWork, Importing
    <2>2. Shards' = Shards /\ disk.seed \in Nat /\ \A x \in Shards : x < disk.seed /\ x \in Nat
      BY <2>1 DEF Shards, DataInv, Stored
    <2>3. Stored'
      BY <1>0, <2>1, <2>2 DEF DataInv, Stored, Kept
    <2>4. AtWork'
      BY <1>0, <2>1 DEF AtWork, Importing
    <2>5. Aims'
      BY <1>0, <2>1, <2>2 DEF Aims, Unnamed, Importing
    <2> QED
      BY <2>3, <2>4, <2>5 DEF DataInv
  <1>5. CASE AfterPreflight \/ AfterValidate
    <2>1. /\ pc = "collected" /\ UNCHANGED <<disk, models, manifests>>
          /\ mem.shards = disk.shards
      BY <1>5 DEF AfterPreflight, AfterValidate, Passed, Unleased, DataInv, AtWork, Importing
    <2>2. CASE pc' = "down"
      BY <1>0, <2>1, <2>2, DownKeepsData DEF Files
    <2>3. CASE pc' # "down"
      <3>1. /\ pc' = "save" /\ mem'.seed = mem.seed /\ mem'.shards = mem.shards
            /\ mem'.model = mem.model
        BY <1>0, <1>5, <2>3 DEF AfterPreflight, AfterValidate, Leaves, IsState, StateFields
      <3>2. disk.model # NONE => disk.model \in DOMAIN models
        BY DEF DataInv, Stored
      <3> QED
        BY <1>0, <2>1, <3>1, <3>2, WorkKeepsData
    <2> QED
      BY <2>2, <2>3
  <1>6. CASE AfterTrain
    <2>1. pc = "collected" /\ UNCHANGED <<models, manifests>> /\ mem.shards = disk.shards
      BY <1>6 DEF AfterTrain, Passed, Unleased, DataInv, AtWork, Importing
    <2>2. CASE job.target \in DOMAIN models
      <3>1. /\ mem'.seed = mem.seed /\ mem'.shards = mem.shards /\ mem'.model = job.target
            /\ disk' = mem' /\ pc' \in {"main", "leaving"}
        BY <1>0, <1>6, <2>2 DEF AfterTrain, IsState, StateFields
      <3> QED
        BY <1>0, <2>1, <2>2, <3>1, WorkKeepsData
    <2>3. CASE job.target \notin DOMAIN models
      <3>1. disk' = disk /\ (pc' = "down" \/ (pc' = "main" /\ mem' = mem))
        <4>1. disk' = disk
          BY <1>6, <2>3 DEF AfterTrain
        <4>2. CASE job.rc = 0
          BY <1>6, <2>3, <4>2 DEF AfterTrain
        <4>3. CASE job.rc # 0
          BY <1>6, <2>3, <4>3 DEF AfterTrain, Leaves
        <4> QED
          BY <4>1, <4>2, <4>3
      <3>2. disk.model # NONE => disk.model \in DOMAIN models
        BY DEF DataInv, Stored
      <3>3. CASE pc' = "down"
        BY <1>0, <2>1, <3>1, <3>3, DownKeepsData DEF Files
      <3>4. CASE pc' = "main" /\ mem' = mem
        BY <1>0, <2>1, <3>1, <3>2, <3>4, WorkKeepsData
      <3> QED
        BY <3>1, <3>3, <3>4
    <2> QED
      BY <2>2, <2>3
  <1>7. CASE Import
    <2>1. /\ pc = "collected" /\ job.label = "selfplay" /\ pc' = "packed"
          /\ job.target \in DOMAIN replays /\ UNCHANGED <<disk, job, models, manifests>>
          /\ mem'.seed = mem.seed /\ mem'.model = mem.model
          /\ mem'.shards = Append(mem.shards, job.target) /\ mem.shards = disk.shards
      BY <1>0, <1>7 DEF Import, Passed, AfterPacking, IsState, StateFields,
                        DataInv, AtWork, Importing
    <2>2. Stored'
      BY <1>0, <2>1 DEF DataInv, Stored, Shards, Kept
    <2>3. AtWork'
      BY <1>0, <2>1 DEF AtWork, Importing
    <2>4. Aims'
      BY <1>0, <2>1 DEF DataInv, Aims, Unnamed, Shards, Importing
    <2> QED
      BY <2>2, <2>3, <2>4 DEF DataInv
  <1>8. CASE WriteManifest
    <2>1. /\ pc = "packed" /\ pc' = "manifested" /\ UNCHANGED <<disk, mem, job, models>>
          /\ manifests' = Published(manifests, job.target, replays[job.target])
          /\ Unnamed(job.target) /\ job.target \in DOMAIN replays
          /\ mem.shards = Append(disk.shards, job.target)
      BY <1>8 DEF WriteManifest, DataInv, Aims, AtWork, Importing
    <2>2. \A x : (Kept(x) \/ x = job.target) => Kept(x)'
      BY <1>0, <2>1 DEF Kept, Published
    <2>3. Stored'
      BY <1>0, <2>1, <2>2 DEF DataInv, Stored, Shards
    <2>4. AtWork'
      BY <1>0, <2>1, <2>2 DEF AtWork, Importing
    <2>5. Aims'
      BY <1>0, <2>1 DEF DataInv, Aims, Unnamed, Shards, Importing
    <2> QED
      BY <2>3, <2>4, <2>5 DEF DataInv
  <1>9. CASE Commit
    <2>1. /\ pc = "manifested" /\ pc' = "main" /\ disk' = mem /\ mem' = mem
          /\ UNCHANGED <<models, manifests>>
          /\ Unnamed(job.target) /\ Kept(job.target)
          /\ mem.shards = Append(disk.shards, job.target)
      BY <1>9 DEF Commit, DataInv, Aims, AtWork, Importing
    <2>2. disk.shards \in Seq(Nat) /\ job.target \in Nat
      BY <2>1 DEF DataInv, Stored, Unnamed
    <2>3. /\ disk'.shards \in Seq(Nat) /\ Len(disk'.shards) = Len(disk.shards) + 1
          /\ \A i \in 1 .. Len(disk.shards) : disk'.shards[i] = disk.shards[i]
          /\ disk'.shards[Len(disk.shards) + 1] = job.target
      BY <2>1, <2>2
    <2>4. Shards' = Shards \cup {job.target}
      <3> DEFINE n == Len(disk.shards)
      <3>1. DOMAIN disk.shards = 1 .. n /\ DOMAIN disk'.shards = 1 .. (n + 1) /\ n \in Nat
        BY <2>2, <2>3
      <3>2. DOMAIN disk'.shards = (1 .. n) \cup {n + 1}
        BY <3>1
      <3>3. Shards' = {disk'.shards[i] : i \in (1 .. n) \cup {n + 1}}
        BY <3>2 DEF Shards
      <3>4. Shards = {disk.shards[i] : i \in 1 .. n}
        BY <3>1 DEF Shards
      <3>5. /\ \A i \in 1 .. n : disk'.shards[i] = disk.shards[i]
            /\ disk'.shards[n + 1] = job.target
        BY <2>3
      <3> HIDE DEF n
      <3> QED
        BY <3>3, <3>4, <3>5
    <2>5. \A i, j \in DOMAIN disk'.shards : disk'.shards[i] = disk'.shards[j] => i = j
      BY <2>1, <2>2, <2>3 DEF DataInv, Stored, Unnamed, Shards
    <2>6. \A x : Kept(x) => Kept(x)'
      BY <1>0, <2>1 DEF Kept
    <2>7. Stored'
      BY <1>0, <2>1, <2>3, <2>4, <2>5, <2>6 DEF DataInv, Stored, Unnamed
    <2>8. AtWork' /\ Aims'
      BY <1>0, <2>1 DEF AtWork, Aims, Importing
    <2> QED
      BY <2>7, <2>8 DEF DataInv
  <1> QED
    BY <1>1, <1>2, <1>3, <1>4, <1>5, <1>6, <1>7, <1>8, <1>9

\* A step of the leased process, or of the clock: the checkpoints grow, a replay
\* or trace comes at most under a seed that the state file does not name.
LEMMA ProcessKeepsData ==
  ASSUME DataInv, ~Importing, UNCHANGED <<disk, mem, pc, job, manifests>>,
         DOMAIN models \subseteq DOMAIN models',
         \A x \in DOMAIN replays' \cup DOMAIN traces' :
             x \in DOMAIN replays \cup DOMAIN traces \/ Unnamed(x),
         \A x \in Shards : Kept(x) => Kept(x)',
         Running' /\ child'.label = "selfplay" =>
             Unnamed(child'.target) /\ SpFields \subseteq DOMAIN sp' /\ sp'.seed = child'.target
  PROVE  DataInv'
  <1>1. Shards' = Shards
    BY DEF Shards
  <1>2. Stored'
    BY <1>1 DEF DataInv, Stored, Unnamed
  <1>3. AtWork'
    BY DEF DataInv, AtWork, Importing
  <1>4. Aims'
    BY <1>1 DEF DataInv, Aims, Unnamed, Importing
  <1> QED
    BY <1>2, <1>3, <1>4 DEF DataInv

\* Nothing of what self-play keeps is renamed, and its process goes on with the
\* seed it was given.
LEMMA SelfplayKeepsSeed ==
  ASSUME SpFields \subseteq DOMAIN sp, SelfplayStep \/ Stop
  PROVE  SpFields \subseteq DOMAIN sp' /\ sp'.seed = sp.seed
  <1>1. CASE Stop
    BY <1>1 DEF Stop, SpFields
  <1>2. CASE Join \/ RenameTrace \/ RenameReplay
    BY <1>2 DEF Join, RenameTrace, RenameReplay, SpFields
  <1>3. ASSUME NEW t \in Threads, Take(t) \/ Abandon(t) \/ Break(t) \/ Ends(t) \/ Record(t)
        PROVE  SpFields \subseteq DOMAIN sp' /\ sp'.seed = sp.seed
    BY <1>3 DEF Take, Abandon, Break, Ends, Record, SpFields
  <1> QED
    BY <1>1, <1>2, <1>3 DEF SelfplayStep

LEMMA SelfplayKeepsData ==
  ASSUME IInv, DataInv, SelfplayRuns \/ SelfplayIsStopped
  PROVE  DataInv'
  <1>1. /\ Running /\ child.label = "selfplay" /\ child' = child /\ Running' = Running
        /\ UNCHANGED <<disk, mem, pc, job, manifests, models>>
        /\ SelfplayStep \/ (Stop /\ UNCHANGED <<replays, traces>>)
    BY DEF SelfplayRuns, SelfplayIsStopped, ChildOnly, Running
  <1>2. ~Importing
    BY <1>1 DEF IInv, OneDevicePhase, Importing
  <1>3. /\ Unnamed(child.target) /\ SpFields \subseteq DOMAIN sp /\ sp.seed = child.target
    BY <1>1 DEF DataInv, Aims
  <1>4. SpFields \subseteq DOMAIN sp' /\ sp'.seed = child.target
    BY <1>1, <1>3, SelfplayKeepsSeed
  <1>5. /\ replays' = replays \/ \E v : replays' = Published(replays, child.target, v)
        /\ traces' = traces \/ \E v : traces' = Published(traces, child.target, v)
    BY <1>1, <1>3 DEF SelfplayStep, RenameTrace, RenameReplay
  <1>6. /\ DOMAIN replays' \subseteq DOMAIN replays \cup {child.target}
        /\ DOMAIN replays \subseteq DOMAIN replays'
        /\ \A x \in DOMAIN replays : x # child.target => replays'[x] = replays[x]
    <2>1. CASE replays' = replays
      BY <2>1
    <2>2. ASSUME NEW v, replays' = Published(replays, child.target, v)
          PROVE  /\ DOMAIN replays' \subseteq DOMAIN replays \cup {child.target}
                 /\ DOMAIN replays \subseteq DOMAIN replays'
                 /\ \A x \in DOMAIN replays : x # child.target => replays'[x] = replays[x]
      BY <2>2 DEF Published
    <2> QED
      BY <1>5, <2>1, <2>2
  <1>7. DOMAIN traces' \subseteq DOMAIN traces \cup {child.target}
    BY <1>5 DEF Published
  <1>8. \A x \in DOMAIN replays' \cup DOMAIN traces' :
          x \in DOMAIN replays \cup DOMAIN traces \/ Unnamed(x)
    BY <1>3, <1>6, <1>7
  <1>9. \A x \in Shards : Kept(x) => Kept(x)'
    BY <1>1, <1>3, <1>6 DEF Kept, Unnamed
  <1> QED
    BY <1>1, <1>2, <1>3, <1>4, <1>8, <1>9, ProcessKeepsData

LEMMA ExitKeepsData ==
  ASSUME IInv, DataInv, TrainerExits \/ OtherExits \/ SelfplayExits \/ Kill
  PROVE  DataInv'
  <1>0. DOMAIN models \subseteq DOMAIN models'
    <2>1. CASE TrainerExits
      <3>1. (\E v : models' = Published(models, child.target, v)) \/ models' = models
        BY <2>1 DEF TrainerExits
      <3> QED
        BY <3>1 DEF Published
    <2>2. CASE OtherExits \/ SelfplayExits \/ Kill
      BY <2>2 DEF OtherExits, SelfplayExits, Kill
    <2> QED
      BY <2>1, <2>2
  <1>1. /\ Running /\ UNCHANGED <<disk, mem, pc, job, manifests, replays, traces>>
        /\ DOMAIN models \subseteq DOMAIN models'
        /\ \E rc : Exit(rc)
    BY <1>0 DEF TrainerExits, OtherExits, SelfplayExits, Kill, Exits, ChildOnly
  <1>2. ~Running' /\ ~Importing
    BY <1>1, HaltedTyped, ChildKept DEF Exit, Running, IInv, TypeInv, OneDevicePhase, Importing
  <1> QED
    BY <1>1, <1>2, ProcessKeepsData DEF Kept

\* Nothing runs when a supervisor starts, by OpenKeeps.
LEMMA OpenKeepsData == ASSUME IInv, DataInv, Open PROVE DataInv'
  <1>1. pc' = "save" /\ UNCHANGED <<disk, models, manifests, replays, traces, sp>>
    BY DEF Open
  <1>2. ~Running'
    BY <1>1, OpenKeeps DEF IInv, OneDevicePhase
  <1>3. /\ mem'.seed = disk.seed /\ mem'.shards = disk.shards /\ mem'.model = disk.model
    BY DEF Open, Resumed, IInv, TypeInv, IsState, StateFields
  <1>4. disk.model # NONE => disk.model \in DOMAIN models
    BY DEF DataInv, Stored
  <1> QED
    BY <1>1, <1>2, <1>3, <1>4, WorkKeepsData

LEMMA LaunchKeepsData == ASSUME IInv, DataInv, Launch PROVE DataInv'
  <1>1. /\ pc = "debited" /\ pc' = "waiting"
        /\ UNCHANGED <<disk, mem, job, models, manifests, replays, traces>>
        /\ child'.label = job.label /\ child'.target = job.target
        /\ job.label = "selfplay" => sp' \in Begun(job.target)
    BY DEF Launch
  <1>2. job.label = "selfplay" =>
          Unnamed(job.target) /\ SpFields \subseteq DOMAIN sp' /\ sp'.seed = job.target
    BY <1>1 DEF DataInv, Aims, Begun, SpFields
  <1>3. Shards' = Shards
    BY <1>1 DEF Shards
  <1>4. Stored'
    BY <1>1, <1>3 DEF DataInv, Stored, Kept
  <1>5. AtWork'
    BY <1>1 DEF DataInv, AtWork, Importing
  <1>6. Aims'
    BY <1>1, <1>2, <1>3 DEF Aims, Unnamed, Importing
  <1> QED
    BY <1>4, <1>5, <1>6 DEF DataInv

LEMMA TickKeepsData == ASSUME DataInv, Tick PROVE DataInv'
  <1>1. UNCHANGED <<disk, mem, pc, job, child, models, manifests, replays, traces, sp>>
    BY DEF Tick
  <1> QED
    BY <1>1 DEF DataInv, Stored, AtWork, Aims, Shards, Kept, Unnamed, Importing, Running

LEMMA CollectKeepsData == ASSUME IInv, DataInv, Collect PROVE DataInv'
  <1>1. /\ pc = "waiting" /\ pc' \in {"collected", "leaving"} /\ disk' = mem'
        /\ UNCHANGED <<models, manifests, replays, traces, sp>> /\ ~Running'
    BY HaltedTyped DEF Collect, Running
  <1>2. /\ mem'.seed = mem.seed /\ mem'.shards = mem.shards /\ mem'.model = mem.model
        /\ job'.label = job.label /\ job'.target = job.target
    BY <1>1 DEF Collect, IInv, TypeInv, IsState, StateFields, IsJob, JobFields
  <1>3. /\ mem.seed = disk.seed /\ mem.shards = disk.shards
        /\ mem.model # NONE => mem.model \in DOMAIN models
        /\ job.label = "selfplay" => Unnamed(job.target)
    BY <1>1 DEF DataInv, AtWork, Aims, Importing
  <1> QED
    BY <1>1, <1>2, <1>3, WorkKeepsData

LEMMA CrashKeepsData == ASSUME DataInv, Crash PROVE DataInv'
  <1>1. /\ pc' = "down" /\ UNCHANGED <<disk, Files, sp>>
        /\ Running' => Running /\ child' = child
    BY HaltedTyped DEF Crash, Leaves, Running, Files
  <1> QED
    BY <1>1, DownKeepsData

LEMMA NextKeepsData == IInv /\ DataInv /\ [Next]_vars => DataInv'
  <1> SUFFICES ASSUME IInv, DataInv, [Next]_vars PROVE DataInv'
    OBVIOUS
  <1>1. CASE UNCHANGED vars
    BY <1>1 DEF vars, campaignVars, DataInv, Stored, AtWork, Aims, Shards, Kept, Unnamed,
                Importing, Running
  <1>2. CASE Preflight \/ Train \/ Validate \/ Selfplay
    BY <1>2, DebitKeepsData DEF Preflight, Train, Validate, Selfplay, InLoop
  <1>3. CASE TrainerExits \/ OtherExits \/ SelfplayExits \/ Kill
    BY <1>3, ExitKeepsData
  <1>4. CASE SelfplayRuns \/ SelfplayIsStopped
    BY <1>4, SelfplayKeepsData
  <1>5. CASE \/ Save \/ InitModel \/ Finish \/ TakeSeed \/ Leave
             \/ AfterPreflight \/ AfterValidate \/ AfterTrain
             \/ ImportFails \/ Import \/ WriteManifest \/ Commit
    BY <1>5, MainKeepsData
  <1> QED
    BY <1>1, <1>2, <1>3, <1>4, <1>5, OpenKeepsData, LaunchKeepsData, TickKeepsData,
       CollectKeepsData, CrashKeepsData DEF Next

LEMMA DataInvariance == Spec => []DataInv
  BY DataInit, NextKeepsData, Invariance, PTL DEF Spec

\* Whatever the crashes, the seed that comes next is later than every file's,
\* published or being written by a process left behind, and no shard is imported
\* twice.
THEOREM SeedsAreFresh == Spec => []GameIdsAreFresh
  <1>1. DataInv => GameIdsAreFresh
    BY DEF DataInv, Stored, Aims, Unnamed, GameIdsAreFresh
  <1> QED
    BY <1>1, DataInvariance, PTL

\* A start is never refused for a missing or altered file, wherever the one
\* before it died: what the state file names was there before it was named.
THEOREM ResumesAreAccepted == Spec => []ResumeIsAccepted
  <1>1. DataInv => ResumeIsAccepted
    <2> SUFFICES ASSUME DataInv PROVE Verified
      BY DEF ResumeIsAccepted
    <2>1. \A i \in DOMAIN disk.shards : disk.shards[i] \in Shards
      BY DEF Shards
    <2> QED
      BY <2>1 DEF DataInv, Stored, Kept, Verified
  <1> QED
    BY <1>1, DataInvariance, PTL
-----------------------------------------------------------------------------
(***************************************************************************)
(* Whole shards.  While self-play runs, what it has recorded are games of  *)
(* its seed, each once, in both files alike; a game that is being played   *)
(* is not among them and belongs to one thread.  An incomplete record is   *)
(* followed by failure, and nothing is published after one.                *)
(***************************************************************************)
Entries == [id : Nat \X Nat, whole : BOOLEAN]
SpType ==
    [phase : {"play", "sync", "traced", "published", "discard"},
     seed : Nat, next : Nat, failed : BOOLEAN, stopped : BOOLEAN,
     replay : Seq(Entries), trace : Seq(Entries),
     game : [Threads -> Nat \cup {Games}],
     at : [Threads -> {"free", "play", "record", "over"}]]

Playing(t) == sp.at[t] \in {"play", "record"}
Recorded ==
    /\ sp.trace = sp.replay
    /\ \A i \in DOMAIN sp.replay :
          /\ sp.replay[i].id[1] = sp.seed /\ sp.replay[i].id[2] < sp.next
          /\ sp.failed \/ sp.replay[i].whole
          /\ \A j \in DOMAIN sp.replay : sp.replay[i].id = sp.replay[j].id => i = j
Played ==
    \A t \in Threads : Playing(t) =>
        /\ sp.game[t] \in Nat /\ sp.game[t] < sp.next
        /\ \A i \in DOMAIN sp.replay : sp.replay[i].id[2] # sp.game[t]
        /\ \A u \in Threads : Playing(u) /\ sp.game[u] = sp.game[t] => u = t
Renamed ==
    /\ sp.phase \in {"sync", "traced", "published"} => ~sp.failed
    /\ sp.phase # "published" => sp.seed \notin DOMAIN replays
    /\ sp.phase = "traced" => sp.seed \in DOMAIN traces /\ traces[sp.seed] = sp.trace
ProcessInv == sp \in SpType /\ Recorded /\ Played /\ Renamed

WholeInv ==
    /\ ShardsAreWhole
    /\ Running /\ child.label = "selfplay" => ProcessInv
    /\ pc = "seeded" \/ (pc = "debited" /\ job.label = "selfplay") =>
          job.target \notin DOMAIN replays

\* A thread takes a game, or leaves: no record is made.
LEMMA TakeKeeps ==
  ASSUME ProcessInv, UNCHANGED <<replays, traces>>, NEW t \in Threads,
         Take(t) \/ Abandon(t) \/ Break(t) \/ Ends(t)
  PROVE  ProcessInv'
  <1>0. sp \in SpType
    BY DEF ProcessInv
  <1>1. /\ sp.phase = "play" /\ sp.at[t] \in {"free", "play"}
        /\ UNCHANGED <<sp.phase, sp.seed, sp.replay, sp.trace>>
        /\ sp' \in SpType /\ sp.next' \in {sp.next, sp.next + 1}
        /\ sp.failed => sp.failed'
    <2>1. CASE Take(t)
      <3>1. CASE Canceled
        BY <1>0, <2>1, <3>1 DEF SpType, Take
      <3>2. CASE ~Canceled
        <4>1. /\ sp' = [sp EXCEPT !.next = sp.next + 1, !.game[t] = sp.next,
                                   !.at[t] = IF sp.next < Games THEN "play" ELSE "over"]
              /\ sp.phase = "play" /\ sp.at[t] = "free"
          BY <2>1, <3>2 DEF Take
        <4>2. sp.next + 1 \in Nat /\ sp.next \in Nat
          BY <1>0 DEF SpType
        <4> QED
          BY <1>0, <4>1, <4>2 DEF SpType
      <3> QED
        BY <3>1, <3>2
    <2>2. CASE Abandon(t)
      BY <1>0, <2>2 DEF SpType, Abandon
    <2>3. CASE Break(t)
      BY <1>0, <2>3 DEF SpType, Break
    <2>4. CASE Ends(t)
      BY <1>0, <2>4 DEF SpType, Ends
    <2> QED
      BY <2>1, <2>2, <2>3, <2>4
  <1>2. /\ sp.next \in Nat /\ sp.replay \in Seq(Entries)
        /\ \A i \in DOMAIN sp.replay : sp.replay[i].id[2] \in Nat
    <2>1. sp.next \in Nat /\ sp.replay \in Seq(Entries)
      BY <1>0 DEF SpType
    <2>2. \A i \in DOMAIN sp.replay : sp.replay[i] \in Entries
      BY <2>1
    <2> QED
      BY <2>1, <2>2 DEF Entries
  <1>3. Recorded'
    BY <1>1, <1>2 DEF ProcessInv, Recorded
  <1>4. \/ \A u \in Threads : Playing(u)' => Playing(u) /\ sp.game'[u] = sp.game[u]
        \/ /\ sp.next' = sp.next + 1 /\ sp.game'[t] = sp.next
           /\ \A u \in Threads \ {t} : Playing(u)' => Playing(u) /\ sp.game'[u] = sp.game[u]
    <2>1. CASE Take(t)
      <3>1. CASE Canceled
        <4>1. sp' = [sp EXCEPT !.at[t] = "over"]
          BY <2>1, <3>1 DEF Take
        <4> QED
          BY <1>0, <4>1 DEF SpType, Playing
      <3>2. CASE ~Canceled
        <4>1. sp' = [sp EXCEPT !.next = sp.next + 1, !.game[t] = sp.next,
                               !.at[t] = IF sp.next < Games THEN "play" ELSE "over"]
          BY <2>1, <3>2 DEF Take
        <4> QED
          BY <1>0, <4>1 DEF SpType, Playing
      <3> QED
        BY <3>1, <3>2
    <2>2. CASE Abandon(t) \/ Break(t) \/ Ends(t)
      <3>1. sp.game' = sp.game /\ Playing(t)
        BY <1>0, <2>2 DEF SpType, Abandon, Break, Ends, Playing
      <3>2. \A u \in Threads \ {t} : sp.at'[u] = sp.at[u]
        <4>1. CASE Abandon(t)
          BY <1>0, <4>1 DEF SpType, Abandon
        <4>2. CASE Break(t)
          BY <1>0, <4>2 DEF SpType, Break
        <4>3. CASE Ends(t)
          BY <1>0, <4>3 DEF SpType, Ends
        <4> QED
          BY <2>2, <4>1, <4>2, <4>3
      <3> QED
        BY <3>1, <3>2 DEF Playing
    <2> QED
      BY <2>1, <2>2
  <1>5. Played'
    <2>1. CASE \A u \in Threads : Playing(u)' => Playing(u) /\ sp.game'[u] = sp.game[u]
      BY <1>1, <1>2, <2>1 DEF ProcessInv, Played
    <2>2. CASE /\ sp.next' = sp.next + 1 /\ sp.game'[t] = sp.next
               /\ \A u \in Threads \ {t} : Playing(u)' => Playing(u) /\ sp.game'[u] = sp.game[u]
      BY <1>1, <1>2, <2>2 DEF ProcessInv, Played, Recorded
    <2> QED
      BY <1>4, <2>1, <2>2
  <1>6. Renamed'
    BY <1>1 DEF ProcessInv, Renamed
  <1> QED
    BY <1>1, <1>3, <1>5, <1>6 DEF ProcessInv

LEMMA RecordKeeps ==
  ASSUME ProcessInv, UNCHANGED <<replays, traces>>, NEW t \in Threads, Record(t)
  PROVE  ProcessInv'
  <1>1. PICK whole \in BOOLEAN :
          sp' = [sp EXCEPT !.at[t] = IF whole THEN "free" ELSE "over",
                           !.failed = sp.failed \/ ~whole,
                           !.replay = Append(sp.replay, Entry(t, whole)),
                           !.trace = Append(sp.trace, Entry(t, whole))]
    <2>1. CASE sp' = [sp EXCEPT !.at[t] = "free", !.replay = Append(@, Entry(t, TRUE)),
                                !.trace = Append(@, Entry(t, TRUE))]
      <3>1. [sp EXCEPT !.at[t] = "free", !.failed = sp.failed \/ ~TRUE,
                       !.replay = Append(sp.replay, Entry(t, TRUE)),
                       !.trace = Append(sp.trace, Entry(t, TRUE))]
            = [sp EXCEPT !.at[t] = "free", !.replay = Append(@, Entry(t, TRUE)),
                         !.trace = Append(@, Entry(t, TRUE))]
        BY DEF ProcessInv, SpType
      <3> QED
        BY <2>1, <3>1
    <2>2. CASE sp' = [sp EXCEPT !.at[t] = "over", !.failed = TRUE,
                                !.replay = Append(@, Entry(t, FALSE)),
                                !.trace = Append(@, Entry(t, FALSE))]
      <3>1. (sp.failed \/ ~FALSE) = TRUE
        OBVIOUS
      <3> QED
        BY <2>2, <3>1
    <2> QED
      BY <2>1, <2>2 DEF Record
  <1>2. /\ Playing(t) /\ sp.phase = "play" /\ sp.game[t] \in Nat /\ sp.seed \in Nat
        /\ Entry(t, whole) \in Entries
    BY DEF Record, ProcessInv, Played, Playing, SpType, Entry, Entries
  <1> DEFINE n == Len(sp.replay)
             e == Entry(t, whole)
  <1>3. /\ sp' \in SpType
        /\ UNCHANGED <<sp.phase, sp.seed, sp.next, sp.game>>
        /\ sp.failed' = (sp.failed \/ ~whole)
        /\ sp.replay' = Append(sp.replay, e) /\ sp.trace' = Append(sp.trace, e)
        /\ sp.at'[t] \in {"free", "over"} /\ \A u \in Threads \ {t} : sp.at'[u] = sp.at[u]
    <2>1. sp \in SpType
      BY DEF ProcessInv
    <2>2. /\ sp.replay \in Seq(Entries) /\ sp.trace \in Seq(Entries)
          /\ Append(sp.replay, e) \in Seq(Entries) /\ Append(sp.trace, e) \in Seq(Entries)
      BY <1>2, <2>1 DEF SpType
    <2>3. (sp.failed \/ ~whole) \in BOOLEAN
      OBVIOUS
    <2> HIDE DEF e
    <2>4. sp' = [sp EXCEPT !.at[t] = IF whole THEN "free" ELSE "over",
                           !.failed = sp.failed \/ ~whole,
                           !.replay = Append(sp.replay, e), !.trace = Append(sp.trace, e)]
      BY <1>1 DEF e
    <2>5. sp' \in SpType
      BY <2>1, <2>2, <2>3, <2>4 DEF SpType
    <2>6. /\ UNCHANGED <<sp.phase, sp.seed, sp.next, sp.game>>
          /\ sp.replay' = Append(sp.replay, e) /\ sp.trace' = Append(sp.trace, e)
      BY <2>1, <2>4 DEF SpType
    <2>7. sp.at'[t] \in {"free", "over"} /\ \A u \in Threads \ {t} : sp.at'[u] = sp.at[u]
      BY <2>1, <2>4 DEF SpType
    <2>8. sp.failed' = (sp.failed \/ ~whole)
      BY <2>1, <2>4 DEF SpType
    <2> QED
      BY <2>5, <2>6, <2>7, <2>8
  <1>4. /\ sp.replay \in Seq(Entries) /\ n \in Nat
        /\ e.id[1] = sp.seed /\ e.id[2] = sp.game[t] /\ e.whole = whole
    BY DEF ProcessInv, SpType, Entry
  <1> HIDE DEF e
  <1>5. /\ DOMAIN sp.replay' = 1..(n + 1) /\ DOMAIN sp.replay = 1..n
        /\ sp.replay'[n + 1] = e /\ \A i \in 1..n : sp.replay'[i] = sp.replay[i]
    BY <1>2, <1>3, <1>4 DEF e
  <1> HIDE DEF n
  <1>6. /\ \A i \in 1..n : sp.replay[i].id[2] # sp.game[t]
        /\ \A u \in Threads \ {t} : Playing(u) => sp.game[u] # sp.game[t]
        /\ sp.game[t] < sp.next
    BY <1>2, <1>5 DEF ProcessInv, Played
  <1>7. Recorded'
    <2>1. ASSUME NEW i \in DOMAIN sp.replay'
          PROVE  /\ sp.replay'[i].id[1] = sp.seed /\ sp.replay'[i].id[2] < sp.next
                 /\ sp.failed' \/ sp.replay'[i].whole
      <3>1. CASE i \in 1..n
        <4>1. /\ sp.replay[i].id[1] = sp.seed /\ sp.replay[i].id[2] < sp.next
              /\ sp.failed \/ sp.replay[i].whole
          BY <1>5, <3>1 DEF ProcessInv, Recorded
        <4> QED
          BY <1>3, <1>5, <3>1, <4>1
      <3>2. CASE i = n + 1
        BY <1>3, <1>4, <1>5, <1>6, <3>2
      <3> QED
        BY <1>4, <1>5, <3>1, <3>2
    <2>2. ASSUME NEW i \in DOMAIN sp.replay', NEW j \in DOMAIN sp.replay',
                 sp.replay'[i].id = sp.replay'[j].id
          PROVE  i = j
      <3>1. CASE i \in 1..n /\ j \in 1..n
        BY <1>5, <2>2, <3>1 DEF ProcessInv, Recorded
      <3>2. CASE i = n + 1 \/ j = n + 1
        BY <1>4, <1>5, <1>6, <2>2, <3>2
      <3> QED
        BY <1>4, <1>5, <3>1, <3>2
    <2>3. sp.trace' = sp.replay'
      BY <1>3 DEF ProcessInv, Recorded
    <2> QED
      BY <1>3, <2>1, <2>2, <2>3 DEF Recorded
  <1>8. Played'
    <2> SUFFICES ASSUME NEW u \in Threads, Playing(u)'
                 PROVE  /\ sp.game'[u] \in Nat /\ sp.game'[u] < sp.next'
                        /\ \A i \in DOMAIN sp.replay' : sp.replay'[i].id[2] # sp.game'[u]
                        /\ \A v \in Threads : Playing(v)' /\ sp.game'[v] = sp.game'[u] => v = u
      BY DEF Played
    <2>1. \A v \in Threads : Playing(v)' => v # t /\ Playing(v)
      BY <1>3 DEF Playing
    <2>2. u # t /\ Playing(u)
      BY <2>1
    <2>3. \A i \in 1..(n + 1) : sp.replay'[i].id[2] # sp.game[u]
      <3>1. ASSUME NEW i \in 1..(n + 1) PROVE sp.replay'[i].id[2] # sp.game[u]
        <4>1. CASE i \in 1..n
          BY <1>5, <2>2, <4>1 DEF ProcessInv, Played
        <4>2. CASE i = n + 1
          BY <1>4, <1>5, <1>6, <2>2, <4>2
        <4> QED
          BY <1>4, <4>1, <4>2
      <3> QED
        BY <3>1
    <2> QED
      BY <1>3, <1>5, <2>1, <2>2, <2>3 DEF ProcessInv, Played
  <1>9. Renamed'
    BY <1>2, <1>3 DEF ProcessInv, Renamed
  <1> QED
    BY <1>3, <1>7, <1>8, <1>9 DEF ProcessInv

LEMMA JoinKeeps ==
  ASSUME ProcessInv, UNCHANGED <<replays, traces>>, Join \/ Stop
  PROVE  ProcessInv'
  <1>1. sp \in SpType
    BY DEF ProcessInv
  <1>2. CASE Stop
    <2>1. /\ sp' \in SpType
          /\ UNCHANGED <<sp.phase, sp.seed, sp.next, sp.failed, sp.replay, sp.trace, sp.game, sp.at>>
      BY <1>1, <1>2 DEF Stop, SpType
    <2> QED
      BY <2>1 DEF ProcessInv, Recorded, Played, Playing, Renamed
  <1>3. CASE Join
    <2>1. PICK phase \in AfterJoin : sp' = [sp EXCEPT !.phase = phase] /\ sp.phase = "play"
      BY <1>3 DEF Join
    <2>2. phase \in {"sync", "discard"} /\ (phase = "sync" => ~sp.failed)
      BY <2>1 DEF AfterJoin
    <2>3. /\ sp' \in SpType /\ sp.phase' = phase
          /\ UNCHANGED <<sp.seed, sp.next, sp.failed, sp.replay, sp.trace, sp.game, sp.at>>
      BY <1>1, <2>1, <2>2 DEF SpType
    <2>4. Renamed'
      BY <2>1, <2>2, <2>3 DEF ProcessInv, Renamed
    <2> QED
      BY <2>3, <2>4 DEF ProcessInv, Recorded, Played, Playing
  <1> QED
    BY <1>2, <1>3

\* The trace is published while the replay of that seed does not exist; the
\* replay afterwards, and it is what the trace was.
LEMMA RenamesKeep ==
  ASSUME ProcessInv, ShardsAreWhole,
         (RenameTrace /\ UNCHANGED replays) \/ (RenameReplay /\ UNCHANGED traces)
  PROVE  ProcessInv' /\ ShardsAreWhole'
  <1>1. sp \in SpType
    BY DEF ProcessInv
  <1>2. PICK phase \in {"traced", "published", "discard"} : sp' = [sp EXCEPT !.phase = phase]
    BY DEF RenameTrace, RenameReplay
  <1>3. /\ sp' \in SpType /\ sp.phase' = phase
        /\ UNCHANGED <<sp.seed, sp.next, sp.failed, sp.replay, sp.trace, sp.game, sp.at>>
    BY <1>1, <1>2 DEF SpType
  <1>4. Recorded' /\ Played'
    BY <1>3 DEF ProcessInv, Recorded, Played, Playing
  <1>5. CASE UNCHANGED <<replays, traces>> /\ phase = "discard"
    BY <1>3, <1>4, <1>5 DEF ProcessInv, Renamed, ShardsAreWhole, RenameTrace, RenameReplay
  <1>6. CASE /\ sp.phase = "sync" /\ phase = "traced" /\ UNCHANGED replays
             /\ traces' = Published(traces, sp.seed, sp.trace)
    <2>1. /\ sp.seed \in DOMAIN traces' /\ traces'[sp.seed] = sp.trace
          /\ \A x \in DOMAIN traces \ {sp.seed} : x \in DOMAIN traces' /\ traces'[x] = traces[x]
      BY <1>6 DEF Published
    <2>2. sp.seed \notin DOMAIN replays /\ ~sp.failed
      BY <1>6 DEF ProcessInv, Renamed
    <2>3. Renamed'
      BY <1>3, <1>6, <2>1, <2>2 DEF Renamed
    <2>4. ShardsAreWhole'
      BY <1>6, <2>1, <2>2 DEF ShardsAreWhole
    <2> QED
      BY <1>3, <1>4, <2>3, <2>4 DEF ProcessInv
  <1>7. CASE /\ sp.phase = "traced" /\ phase = "published" /\ UNCHANGED traces
             /\ replays' = Published(replays, sp.seed, sp.replay)
    <2>1. /\ DOMAIN replays' = DOMAIN replays \cup {sp.seed}
          /\ replays'[sp.seed] = sp.replay
          /\ \A x \in DOMAIN replays \ {sp.seed} : replays'[x] = replays[x]
      BY <1>7 DEF Published
    <2>2. /\ sp.seed \in DOMAIN traces /\ traces[sp.seed] = sp.replay /\ ~sp.failed
          /\ sp.seed \notin DOMAIN replays
          /\ \A i \in DOMAIN sp.replay :
                /\ sp.replay[i].whole /\ sp.replay[i].id[1] = sp.seed
                /\ \A j \in DOMAIN sp.replay : sp.replay[i].id = sp.replay[j].id => i = j
      BY <1>7 DEF ProcessInv, Recorded, Renamed
    <2>3. Renamed'
      BY <1>3, <1>7, <2>2 DEF Renamed
    <2>4. ShardsAreWhole'
      <3>1. ASSUME NEW x \in DOMAIN replays'
            PROVE  /\ x \in DOMAIN traces /\ traces[x] = replays'[x]
                   /\ \A i \in DOMAIN replays'[x] :
                         /\ replays'[x][i].whole /\ replays'[x][i].id[1] = x
                         /\ \A j \in DOMAIN replays'[x] :
                               replays'[x][i].id = replays'[x][j].id => i = j
        <4>1. CASE x = sp.seed
          BY <2>1, <2>2, <4>1
        <4>2. CASE x # sp.seed
          <5>1. x \in DOMAIN replays /\ replays'[x] = replays[x]
            BY <2>1, <4>2
          <5> QED
            BY <5>1 DEF ShardsAreWhole
        <4> QED
          BY <4>1, <4>2
      <3> QED
        BY <1>7, <3>1 DEF ShardsAreWhole
    <2> QED
      BY <1>3, <1>4, <2>3, <2>4 DEF ProcessInv
  <1>8. \/ UNCHANGED <<replays, traces>> /\ phase = "discard"
        \/ /\ sp.phase = "sync" /\ phase = "traced" /\ UNCHANGED replays
           /\ traces' = Published(traces, sp.seed, sp.trace)
        \/ /\ sp.phase = "traced" /\ phase = "published" /\ UNCHANGED traces
           /\ replays' = Published(replays, sp.seed, sp.replay)
    BY <1>2, <1>3, <1>1 DEF RenameTrace, RenameReplay, SpType
  <1> QED
    BY <1>5, <1>6, <1>7, <1>8

LEMMA BegunHolds ==
  ASSUME NEW seed \in Nat, seed \notin DOMAIN replays, sp' \in Begun(seed),
         UNCHANGED <<replays, traces>>
  PROVE  ProcessInv'
  <1>1. PICK Started \in SUBSET Threads :
          sp' = [phase |-> "play", seed |-> seed, next |-> 0, failed |-> Started # Threads,
                 stopped |-> FALSE, replay |-> <<>>, trace |-> <<>>,
                 game |-> [t \in Threads |-> Games],
                 at |-> [t \in Threads |-> IF t \in Started THEN "free" ELSE "over"]]
    BY DEF Begun
  <1>2. sp' \in SpType
    BY <1>1 DEF SpType
  <1>3. Recorded' /\ Played'
    BY <1>1 DEF Recorded, Played, Playing
  <1>4. Renamed'
    BY <1>1 DEF Renamed
  <1> QED
    BY <1>2, <1>3, <1>4 DEF ProcessInv

LEMMA WholeInit == Init => WholeInv
  <1> SUFFICES ASSUME Init PROVE WholeInv
    OBVIOUS
  <1>1. replays = [x \in {} |-> 0] /\ pc = "down" /\ ~Running
    BY DEF Init, Halted, Running
  <1> QED
    BY <1>1 DEF WholeInv, ShardsAreWhole

\* A step that publishes nothing, and is not one of self-play's.
LEMMA ElsewhereKeepsWhole ==
  ASSUME WholeInv, UNCHANGED <<replays, traces>>,
         Running' /\ child'.label = "selfplay" =>
             sp' = sp /\ Running /\ child.label = "selfplay",
         pc' = "seeded" \/ (pc' = "debited" /\ job'.label = "selfplay") =>
             job'.target \notin DOMAIN replays
  PROVE  WholeInv'
  <1>1. Running' /\ child'.label = "selfplay" => ProcessInv'
    BY DEF WholeInv, ProcessInv, Recorded, Played, Playing, Renamed
  <1> QED
    BY <1>1 DEF WholeInv, ShardsAreWhole

LEMMA SelfplayKeepsWhole ==
  ASSUME IInv, WholeInv, SelfplayRuns \/ SelfplayIsStopped
  PROVE  WholeInv'
  <1>1. /\ Running /\ child.label = "selfplay" /\ ProcessInv /\ ShardsAreWhole
        /\ UNCHANGED <<pc, job, child>> /\ (Running' <=> Running)
        /\ pc \in {"down", "waiting"}
    BY DEF SelfplayRuns, SelfplayIsStopped, ChildOnly, WholeInv, Running, IInv, OneDevicePhase
  <1>2. CASE SelfplayIsStopped
    BY <1>1, <1>2, JoinKeeps DEF SelfplayIsStopped, WholeInv, ShardsAreWhole
  <1>3. CASE SelfplayRuns
    <2>1. CASE (RenameTrace /\ UNCHANGED replays) \/ (RenameReplay /\ UNCHANGED traces)
      BY <1>1, <2>1, RenamesKeep DEF WholeInv
    <2>2. CASE Join /\ UNCHANGED <<replays, traces>>
      BY <1>1, <2>2, JoinKeeps DEF WholeInv, ShardsAreWhole
    <2>3. ASSUME UNCHANGED <<replays, traces>>, NEW t \in Threads,
                 Take(t) \/ Abandon(t) \/ Break(t) \/ Ends(t) \/ Record(t)
          PROVE  WholeInv'
      <3>1. ProcessInv'
        BY <1>1, <2>3, TakeKeeps, RecordKeeps
      <3> QED
        BY <1>1, <2>3, <3>1 DEF WholeInv, ShardsAreWhole
    <2> QED
      BY <1>3, <2>1, <2>2, <2>3 DEF SelfplayRuns, SelfplayStep
  <1> QED
    BY <1>2, <1>3

LEMMA LaunchKeepsWhole ==
  ASSUME DataInv, WholeInv, Launch
  PROVE  WholeInv'
  <1>1. /\ pc = "debited" /\ pc' = "waiting" /\ UNCHANGED <<replays, traces>>
        /\ child'.label = job.label
        /\ job.label = "selfplay" => sp' \in Begun(job.target)
    BY DEF Launch
  <1>2. job.label = "selfplay" => ProcessInv'
    BY <1>1, BegunHolds DEF WholeInv, DataInv, Aims, Unnamed
  <1> QED
    BY <1>1, <1>2 DEF WholeInv, ShardsAreWhole

\* A phase of self-play is debited for the seed that was taken for it.
LEMMA DebitKeepsWhole ==
  ASSUME IInv, WholeInv, pc \in {"main", "seeded"},
         NEW label, NEW target, NEW steps,
         label = "selfplay" => pc = "seeded" /\ target = job.target,
         Debit(label, target, steps, mem), Unleased
  PROVE  WholeInv'
  <1>1. ~Running /\ ~Running' /\ UNCHANGED <<replays, traces>>
    BY DEF IInv, OneDevicePhase, Unleased, Running
  <1>2. \/ pc' = "down"
        \/ pc' = "debited" /\ job'.label = label /\ job'.target = target
    BY DEF Debit, Leaves
  <1> QED
    BY <1>1, <1>2, ElsewhereKeepsWhole DEF WholeInv

LEMMA TakeSeedKeepsWhole ==
  ASSUME IInv, DataInv, WholeInv, TakeSeed
  PROVE  WholeInv'
  <1>1. /\ ~Running /\ ~Running' /\ UNCHANGED <<replays, traces>>
        /\ pc' = "seeded" /\ job'.target = mem.seed /\ mem.seed = disk.seed
    BY DEF TakeSeed, InLoop, Unleased, NoJob, Running, IInv, OneDevicePhase, DataInv, AtWork
  <1>2. mem.seed \notin DOMAIN replays
    BY <1>1 DEF DataInv, Stored
  <1> QED
    BY <1>1, <1>2, ElsewhereKeepsWhole

LEMMA NextKeepsWhole == IInv /\ DataInv /\ WholeInv /\ [Next]_vars => WholeInv'
  <1> SUFFICES ASSUME IInv, DataInv, WholeInv, [Next]_vars PROVE WholeInv'
    OBVIOUS
  <1>1. CASE UNCHANGED vars
    BY <1>1, ElsewhereKeepsWhole DEF vars, campaignVars, WholeInv, Running
  <1>2. CASE Preflight \/ Train \/ Validate \/ Selfplay
    BY <1>2, DebitKeepsWhole DEF Preflight, Train, Validate, Selfplay, InLoop
  <1>3. CASE TrainerExits \/ OtherExits \/ SelfplayExits \/ Kill
    <2>1. /\ UNCHANGED <<replays, traces, pc, job>> /\ Running /\ \E rc : Exit(rc)
      BY <1>3 DEF TrainerExits, OtherExits, SelfplayExits, Kill, Exits, ChildOnly
    <2>2. ~Running'
      BY <2>1, HaltedTyped, ChildKept DEF Exit, Running, IInv, TypeInv
    <2> QED
      BY <2>1, <2>2, ElsewhereKeepsWhole DEF WholeInv
  <1>4. CASE SelfplayRuns \/ SelfplayIsStopped
    BY <1>4, SelfplayKeepsWhole
  <1>5. CASE \/ Save \/ InitModel \/ Finish \/ Leave
             \/ AfterPreflight \/ AfterValidate \/ AfterTrain
             \/ ImportFails \/ Import \/ WriteManifest \/ Commit
    <2>1. /\ UNCHANGED <<replays, traces, sp, child>> /\ pc' \notin {"seeded", "debited"}
      BY <1>5 DEF Save, InitModel, Finish, Leave, AfterPreflight, AfterValidate, AfterTrain,
                  ImportFails, Import, WriteManifest, Commit, Unleased, Leaves, AfterPacking
    <2> QED
      BY <2>1, ElsewhereKeepsWhole DEF Running
  <1>6. CASE Open \/ Tick \/ Collect \/ Crash
    <2>1. /\ UNCHANGED <<replays, traces, sp>>
          /\ (pc' = pc /\ job' = job) \/ pc' \notin {"seeded", "debited"}
          /\ Running' => Running /\ child' = child
      BY <1>6, HaltedTyped DEF Open, Tick, Collect, Crash, Leaves, Running
    <2> QED
      BY <2>1, ElsewhereKeepsWhole DEF WholeInv
  <1>7. CASE Launch
    BY <1>7, LaunchKeepsWhole
  <1>8. CASE TakeSeed
    BY <1>8, TakeSeedKeepsWhole
  <1> QED
    BY <1>1, <1>2, <1>3, <1>4, <1>5, <1>6, <1>7, <1>8 DEF Next

LEMMA WholeInvariance == Spec => []WholeInv
  BY WholeInit, NextKeepsWhole, Invariance, DataInvariance, PTL DEF Spec

\* With any number of threads and games, stopped or failing anywhere, also
\* between the two renames: a published shard holds whole games of its seed, each
\* once, and its trace the same.
THEOREM PublishedShardsAreWhole == Spec => []ShardsAreWhole
  <1>1. WholeInv => ShardsAreWhole
    BY DEF WholeInv
  <1> QED
    BY <1>1, WholeInvariance, PTL
-----------------------------------------------------------------------------
(***************************************************************************)
(* The credit.  Totals first: the natural numbers are well founded, so a   *)
(* set that holds 0 and the successor of each of its numbers holds them    *)
(* all; with such sets, what the recursive sum of Total is.                *)
(***************************************************************************)
LEMMA IndSet ==
  ASSUME NEW S, 0 \in S, \A n \in Nat : n \in S => n + 1 \in S
  PROVE  Nat \subseteq S
  <1>1. SUFFICES ASSUME NEW k \in Nat, k \notin S PROVE FALSE
    OBVIOUS
  <1> DEFINE Bad == {n \in Nat : n \notin S}
             T == {1 .. n : n \in Bad}
  <1>2. T \subseteq FiniteSubsetsOf(Nat) /\ T # {}
    <2>1. \A n \in Nat : IsFiniteSet(1 .. n) /\ (1 .. n) \subseteq Nat
      BY FS_Interval
    <2> QED
      BY <1>1, <2>1 DEF FiniteSubsetsOf
  <1>3. PICK x \in T : \A y \in T : ~(<<y, x>> \in StrictSubsetOrdering(Nat))
    <2>1. IsWellFoundedOn(StrictSubsetOrdering(Nat), FiniteSubsetsOf(Nat))
      BY FS_StrictSubsetOrderingWellFounded
    <2> HIDE DEF T
    <2> QED
      BY <1>2, <2>1, WFMin
  <1>4. PICK n \in Bad : x = 1 .. n
    BY <1>3
  <1>5. n # 0 /\ n - 1 \in Nat
    BY <1>4
  <1>6. n - 1 \in Bad
    BY <1>5, <1>4
  <1>7. 1 .. (n - 1) \in T
    BY <1>6
  <1>8. <<1 .. (n - 1), 1 .. n>> \in StrictSubsetOrdering(Nat)
    BY <1>5, <1>4 DEF StrictSubsetOrdering
  <1> QED
    BY <1>3, <1>4, <1>7, <1>8

\* f[n] is the sum of the first n members of a.
AddsUp(f, a, k) == f = [n \in 0 .. k |-> IF n = 0 THEN 0 ELSE f[n - 1] + a[n]]

LEMMA SumsExist ==
  ASSUME NEW a \in Seq(Nat), NEW k \in 0 .. Len(a)
  PROVE  \E f \in [0 .. k -> Nat] : AddsUp(f, a, k)
  <1> DEFINE S == {m \in Nat : m <= Len(a) => \E f \in [0 .. m -> Nat] : AddsUp(f, a, m)}
  <1>1. 0 \in S
    <2> DEFINE f == [n \in 0 .. 0 |-> 0]
    <2>1. f \in [0 .. 0 -> Nat] /\ AddsUp(f, a, 0)
      BY DEF AddsUp
    <2> HIDE DEF f
    <2> QED
      BY <2>1
  <1>2. ASSUME NEW m \in Nat, m \in S PROVE m + 1 \in S
    <2> SUFFICES ASSUME m + 1 <= Len(a) PROVE \E g \in [0 .. m + 1 -> Nat] : AddsUp(g, a, m + 1)
      OBVIOUS
    <2>1. PICK f \in [0 .. m -> Nat] : AddsUp(f, a, m)
      BY <1>2
    <2> DEFINE g == [n \in 0 .. m + 1 |-> IF n = m + 1 THEN f[m] + a[m + 1] ELSE f[n]]
    <2>2. g \in [0 .. m + 1 -> Nat]
      BY <2>1
    <2>3. ASSUME NEW n \in 0 .. m + 1 PROVE g[n] = IF n = 0 THEN 0 ELSE g[n - 1] + a[n]
      <3>1. CASE n = m + 1
        BY <3>1
      <3>2. CASE n # m + 1
        <4>1. n \in 0 .. m /\ f[n] = IF n = 0 THEN 0 ELSE f[n - 1] + a[n]
          BY <3>2, <2>1 DEF AddsUp
        <4> QED
          BY <4>1
      <3> QED
        BY <3>1, <3>2
    <2>4. AddsUp(g, a, m + 1)
      BY <2>3 DEF AddsUp
    <2> HIDE DEF g
    <2> QED
      BY <2>2, <2>4
  <1> HIDE DEF S
  <1>3. Nat \subseteq S
    BY <1>1, <1>2, IndSet
  <1> QED
    BY <1>3 DEF S

\* Sequences that begin alike have the same sums there.
LEMMA SumsAgree ==
  ASSUME NEW a \in Seq(Nat), NEW b \in Seq(Nat), NEW k \in Nat, NEW l \in Nat, k <= l,
         k <= Len(a), l <= Len(b),
         \A i \in 1 .. k : a[i] = b[i],
         NEW f, AddsUp(f, a, k), NEW g, AddsUp(g, b, l)
  PROVE  f[k] = g[k]
  <1> DEFINE S == {m \in Nat : m <= k => f[m] = g[m]}
  <1>1. 0 \in S
    BY DEF AddsUp
  <1>2. ASSUME NEW m \in Nat, m \in S PROVE m + 1 \in S
    BY <1>2 DEF AddsUp
  <1> HIDE DEF S
  <1>3. Nat \subseteq S
    BY <1>1, <1>2, IndSet
  <1> QED
    BY <1>3 DEF S

LEMMA TotalIsSum ==
  ASSUME NEW a \in Seq(Nat)
  PROVE  \E f \in [0 .. Len(a) -> Nat] : AddsUp(f, a, Len(a)) /\ Total(a) = f[Len(a)]
  <1> DEFINE g == CHOOSE f : AddsUp(f, a, Len(a))
  <1>1. PICK f \in [0 .. Len(a) -> Nat] : AddsUp(f, a, Len(a))
    BY SumsExist
  <1>2. AddsUp(g, a, Len(a))
    BY <1>1
  <1>3. Total(a) = g[Len(a)]
    BY DEF Total, AddsUp
  <1> HIDE DEF g
  <1>4. g[Len(a)] = f[Len(a)]
    BY <1>1, <1>2, SumsAgree
  <1> QED
    BY <1>1, <1>3, <1>4

LEMMA TotalAppend ==
  ASSUME NEW a \in Seq(Nat), NEW x \in Nat
  PROVE  Total(a) \in Nat /\ Total(Append(a, x)) = Total(a) + x
  <1> DEFINE b == Append(a, x)
             n == Len(a)
  <1>1. /\ b \in Seq(Nat) /\ Len(b) = n + 1 /\ n \in Nat
        /\ b[n + 1] = x /\ \A i \in 1 .. n : a[i] = b[i]
    OBVIOUS
  <1>2. PICK f \in [0 .. n -> Nat] : AddsUp(f, a, n) /\ Total(a) = f[n]
    BY TotalIsSum
  <1> HIDE DEF b
  <1>3. PICK g \in [0 .. n + 1 -> Nat] : AddsUp(g, b, n + 1) /\ Total(b) = g[n + 1]
    BY TotalIsSum, <1>1
  <1> HIDE DEF n
  <1>4. f[n] = g[n] /\ f[n] \in Nat
    <2>1. n <= n + 1 /\ n + 1 \in Nat /\ n \in 0 .. n
      BY <1>1
    <2>2. n <= Len(a) /\ n + 1 <= Len(b)
      BY <1>1, <2>1 DEF n
    <2>3. f[n] = g[n]
      BY <1>1, <1>2, <1>3, <2>1, <2>2, SumsAgree, SMTT(60)
    <2> QED
      BY <1>2, <2>1, <2>3
  <1>5. g[n + 1] = g[n] + b[n + 1]
    BY <1>1, <1>3 DEF AddsUp
  <1> QED
    BY <1>1, <1>2, <1>3, <1>4, <1>5 DEF b

LEMMA TotalOfNone == Total(<<>>) = 0
  <1>1. PICK f \in [0 .. Len(<<>>) -> Nat] :
          AddsUp(f, <<>>, Len(<<>>)) /\ Total(<<>>) = f[Len(<<>>)]
    <2>1. <<>> \in Seq(Nat)
      OBVIOUS
    <2> QED
      BY <2>1, TotalIsSum
  <1> QED
    BY <1>1 DEF AddsUp

-----------------------------------------------------------------------------
(***************************************************************************)
(* The books.  Credit and optimizer steps balance in the file and in the   *)
(* supervisor's memory, each with the shards it names.  A checkpoint that  *)
(* is being written is numbered later than the recorded one, so neither a  *)
(* trainer left behind nor a second one touches what has been paid for.    *)
(***************************************************************************)
\* TrainingGames and Earned of any replays r, and the balance of a state s with
\* checkpoints m.
GamesOf(r, x) == Cardinality({i \in DOMAIN r[x] : r[x][i].id \notin Validation})
EarnedOf(r, shards) == 4 * Total([i \in DOMAIN shards |-> GamesOf(r, shards[i])])
Balanced(s, m, r) ==
    /\ s.credit \in Int /\ s.sequence \in Nat
    /\ s.model = NONE => s.credit = 0 /\ s.shards = <<>>
    /\ s.model # NONE => /\ s.model \in 0 .. s.sequence
                         /\ s.credit + Batch * m[s.model] = EarnedOf(r, s.shards)

\* What the sums are about: optimizer steps are counted, a replay is a sequence.
Countable ==
    /\ \A m \in DOMAIN models : models[m] \in Nat
    /\ \A x \in DOMAIN replays : replays[x] \in Seq(Entries)

InMemory ==
    pc # "down" => /\ Balanced(mem, models, replays) /\ mem.sequence = disk.sequence
                   /\ mem.model = disk.model \/ (disk.model = NONE /\ pc = "save")

AheadOf(target) ==
    /\ disk.model # NONE /\ target \in Nat
    /\ disk.model < target /\ target <= disk.sequence

Phase(label) == pc \in {"debited", "waiting", "collected"} /\ job.label = label
Numbered ==
    /\ Phase("train") => AheadOf(job.target)
    /\ Running /\ child.label = "train" => AheadOf(child.target) /\ child.base \in Nat
    /\ pc = "seeded" \/ Importing \/ Phase("selfplay") => mem.model # NONE

BookInv == Countable /\ Balanced(disk, models, replays) /\ InMemory /\ Numbered

LEMMA GamesAreCounted ==
  ASSUME NEW r, NEW x, r[x] \in Seq(Entries)
  PROVE  GamesOf(r, x) \in Nat
  <1> DEFINE Counted == {i \in DOMAIN r[x] : r[x][i].id \notin Validation}
  <1>1. IsFiniteSet(1 .. Len(r[x]))
    BY FS_Interval
  <1>2. Counted \subseteq 1 .. Len(r[x])
    OBVIOUS
  <1>3. Cardinality(Counted) \in Nat
    <2> HIDE DEF Counted
    <2> QED
      BY <1>1, <1>2, FS_Subset, FS_CardinalityType
  <1> QED
    BY <1>3 DEF GamesOf

\* What a shard that is imported adds to the earnings.
LEMMA EarnedMore ==
  ASSUME NEW r, NEW shards \in Seq(Nat), NEW x \in Nat,
         \A i \in DOMAIN shards : GamesOf(r, shards[i]) \in Nat,
         GamesOf(r, x) \in Nat
  PROVE  /\ EarnedOf(r, shards) \in Nat
         /\ EarnedOf(r, Append(shards, x)) = EarnedOf(r, shards) + 4 * GamesOf(r, x)
  <1> DEFINE a == [i \in DOMAIN shards |-> GamesOf(r, shards[i])]
             more == Append(shards, x)
             b == [i \in DOMAIN more |-> GamesOf(r, more[i])]
             new == GamesOf(r, x)
  <1>1. a \in Seq(Nat) /\ Len(a) = Len(shards)
    OBVIOUS
  <1>2. b = Append(a, new)
    <2>1. /\ DOMAIN more = 1 .. Len(shards) + 1 /\ more[Len(shards) + 1] = x
          /\ \A i \in 1 .. Len(shards) : more[i] = shards[i]
      OBVIOUS
    <2>2. /\ DOMAIN Append(a, new) = 1 .. Len(shards) + 1
          /\ Append(a, new)[Len(shards) + 1] = new
          /\ \A i \in 1 .. Len(shards) : Append(a, new)[i] = GamesOf(r, shards[i])
      <3> HIDE DEF new
      <3> QED
        BY <1>1
    <2>3. Append(a, new) = [i \in 1 .. Len(shards) + 1 |-> Append(a, new)[i]]
      <3> HIDE DEF new
      <3> QED
        BY <1>1, <2>2
    <2>4. \A i \in 1 .. Len(shards) + 1 : b[i] = Append(a, new)[i]
      BY <2>1, <2>2
    <2> QED
      BY <2>1, <2>3, <2>4
  <1>3. EarnedOf(r, shards) = 4 * Total(a) /\ EarnedOf(r, more) = 4 * Total(b)
    BY DEF EarnedOf
  <1>4. Total(a) \in Nat /\ Total(b) = Total(a) + new
    <2> HIDE DEF a, b
    <2> QED
      BY <1>1, <1>2, TotalAppend
  <1> HIDE DEF a, b, new
  <1>5. new \in Nat
    BY DEF new
  <1> QED
    BY <1>3, <1>4, <1>5 DEF new

\* The earnings are of replays that stay as they are.
LEMMA EarnedStays ==
  ASSUME NEW r, NEW q, NEW shards, \A i \in DOMAIN shards : q[shards[i]] = r[shards[i]]
  PROVE  EarnedOf(q, shards) = EarnedOf(r, shards)
  <1>1. \A i \in DOMAIN shards : GamesOf(q, shards[i]) = GamesOf(r, shards[i])
    BY DEF GamesOf
  <1> QED
    BY <1>1 DEF EarnedOf

\* So a state stays balanced when it keeps what the balance is about.
LEMMA BalanceStays ==
  ASSUME NEW s, NEW t, NEW m, NEW n, NEW r, NEW q, Balanced(s, m, r),
         t.credit = s.credit, t.sequence \in Nat, s.sequence <= t.sequence,
         t.model = s.model, t.shards = s.shards,
         s.model # NONE => n[s.model] = m[s.model],
         \A i \in DOMAIN s.shards : q[s.shards[i]] = r[s.shards[i]]
  PROVE  Balanced(t, n, q)
  <1>1. EarnedOf(q, t.shards) = EarnedOf(r, s.shards)
    BY EarnedStays
  <1> QED
    BY <1>1 DEF Balanced

LEMMA BooksInit == Init => BookInv
  <1> SUFFICES ASSUME Init PROVE BookInv
    OBVIOUS
  <1>1. /\ disk.shards = <<>> /\ disk.model = NONE /\ disk.credit = 0 /\ disk.sequence = 0
        /\ ~Running /\ pc = "down"
    BY DEF Init, Fresh, Halted, Running
  <1>2. replays = [x \in {} |-> 0] /\ models = [x \in {} |-> 0]
    BY DEF Init
  <1> QED
    BY <1>1, <1>2 DEF BookInv, Countable, Balanced, InMemory, Numbered, Phase, Importing

\* The supervisor ends, for whatever reason; a process that runs, runs on.
LEMMA DownKeepsBooks ==
  ASSUME BookInv, pc' = "down", UNCHANGED <<disk, models, replays>>,
         Running' => Running /\ child' = child
  PROVE  BookInv'
  BY DEF BookInv, Countable, InMemory, Numbered, AheadOf, Phase, Importing

\* A step of the supervisor while nothing runs, by which the file and the memory
\* keep the balance, and no checkpoint or shard is in the making but as numbered.
LEMMA WorkKeepsBooks ==
  ASSUME BookInv, ~Running', replays' = replays,
         \A m \in DOMAIN models' : models'[m] \in Nat,
         Balanced(disk', models', replays), InMemory',
         pc' \notin {"seeded", "packed", "manifested"},
         Phase("train")' => AheadOf(job.target)',
         Phase("selfplay")' => mem'.model # NONE
  PROVE  BookInv'
  BY DEF BookInv, Countable, Numbered, Importing

LEMMA DebitKeepsBooks ==
  ASSUME IInv, DataInv, BookInv, pc \in {"main", "seeded"},
         NEW label, NEW target, NEW steps,
         label = "selfplay" => pc = "seeded",
         label = "train" => mem.model # NONE /\ target = mem.sequence + 1,
         Debit(label, target, steps, mem), Unleased
  PROVE  BookInv'
  <1>1. /\ ~Running /\ Running' = Running /\ UNCHANGED <<models, replays, child>>
        /\ IsState(mem)
    BY DEF IInv, TypeInv, OneDevicePhase, Unleased, Running
  <1>2. CASE Leaves /\ UNCHANGED <<now, disk>>
    BY <1>1, <1>2, DownKeepsBooks DEF Leaves
  <1>3. CASE /\ \E lease : /\ mem' = [mem EXCEPT !.sequence = @ + 1, !.spent = Charged(lease),
                                                  !.lease = Expiry(lease)]
                           /\ job' = [label |-> label, lease |-> lease,
                                      target |-> target, steps |-> steps, rc |-> 0]
             /\ disk' = mem' /\ pc' = "debited"
    <2>1. /\ mem'.sequence = mem.sequence + 1 /\ mem'.model = mem.model
          /\ mem'.shards = mem.shards /\ mem'.credit = mem.credit
          /\ job'.label = label /\ job'.target = target
      BY <1>1, <1>3 DEF IsState, StateFields
    <2>2. /\ Balanced(mem, models, replays) /\ mem.sequence \in Nat
          /\ mem.model # NONE => mem.model \in 0 .. mem.sequence
          /\ pc = "seeded" => mem.model # NONE
      BY DEF BookInv, InMemory, Numbered, Balanced
    <2>3. Balanced(mem', models', replays)
      BY <1>1, <2>1, <2>2, BalanceStays
    <2>4. InMemory'
      BY <1>1, <1>3, <2>3 DEF InMemory
    <2>5. Phase("train")' => AheadOf(job.target)'
      BY <1>3, <2>1, <2>2 DEF Phase, AheadOf
    <2>6. \A m \in DOMAIN models' : models'[m] \in Nat
      BY <1>1 DEF BookInv, Countable
    <2>7. Phase("selfplay")' => mem'.model # NONE
      BY <2>1, <2>2 DEF Phase
    <2> QED
      BY <1>1, <1>3, <2>3, <2>4, <2>5, <2>6, <2>7, WorkKeepsBooks
  <1> QED
    BY <1>2, <1>3 DEF Debit

\* The steps that change neither credit, checkpoint nor shards of the memory.
LEMMA QuietKeepsBooks ==
  ASSUME IInv, BookInv, pc \notin {"down", "waiting"}, ~Importing,
         pc' \in {"save", "main", "seeded"}, UNCHANGED <<models, replays, child>>,
         disk' = mem' \/ (disk' = disk /\ pc # "save"),
         mem'.credit = mem.credit, mem'.sequence = mem.sequence,
         mem'.model = mem.model, mem'.shards = mem.shards,
         pc' = "seeded" => mem.model # NONE
  PROVE  BookInv'
  <1>1. ~Running /\ ~Running'
    BY DEF IInv, OneDevicePhase, Running
  <1>2. Balanced(mem, models, replays) /\ mem.sequence \in Nat /\ mem.sequence = disk.sequence
    BY DEF BookInv, InMemory, Balanced
  <1>3. Balanced(mem', models', replays')
    BY <1>2, BalanceStays
  <1>4. Balanced(disk', models', replays')
    BY <1>3 DEF BookInv
  <1>5. InMemory'
    BY <1>2, <1>3 DEF BookInv, InMemory
  <1> QED
    BY <1>1, <1>3, <1>4, <1>5 DEF BookInv, Countable, Numbered, Phase, Importing

LEMMA MainKeepsBooks ==
  ASSUME IInv, DataInv, BookInv,
         Save \/ TakeSeed \/ Finish \/ Leave \/ AfterPreflight \/ AfterValidate \/ ImportFails
  PROVE  BookInv'
  <1>0. /\ pc \notin {"down", "waiting"} /\ ~Running /\ child' = child /\ ~Running'
        /\ replays' = replays /\ models' = models /\ IsState(mem) /\ ~Importing
    BY DEF Save, Finish, TakeSeed, Leave, AfterPreflight, AfterValidate, ImportFails,
           InLoop, Passed, Unleased, IInv, TypeInv, OneDevicePhase, Running, Importing
  <1>1. CASE pc' = "down"
    <2>1. disk' = disk
      BY <1>1 DEF Save, Finish, TakeSeed, Leave, AfterPreflight, AfterValidate, ImportFails
    <2> QED
      BY <1>0, <1>1, <2>1, DownKeepsBooks
  <1>2. CASE pc' # "down"
    <2>1. CASE Save
      BY <1>0, <2>1, QuietKeepsBooks DEF Save
    <2>2. CASE TakeSeed
      <3>1. /\ mem'.credit = mem.credit /\ mem'.sequence = mem.sequence
            /\ mem'.model = mem.model /\ mem'.shards = mem.shards
        BY <1>0, <2>2 DEF TakeSeed, SeedTaken, IsState, StateFields
      <3> QED
        BY <1>0, <2>2, <3>1, QuietKeepsBooks DEF TakeSeed, InLoop
    <2>3. CASE AfterPreflight \/ AfterValidate
      <3>1. /\ mem'.credit = mem.credit /\ mem'.sequence = mem.sequence
            /\ mem'.model = mem.model /\ mem'.shards = mem.shards
            /\ pc = "collected" /\ pc' = "save" /\ disk' = disk
        BY <1>0, <1>2, <2>3 DEF AfterPreflight, AfterValidate, Passed, Leaves, IsState, StateFields
      <3> QED
        BY <1>0, <3>1, QuietKeepsBooks
    <2>4. CASE Finish \/ Leave \/ ImportFails
      BY <1>2, <2>4 DEF Finish, Leave, ImportFails, Leaves
    <2> QED
      BY <2>1, <2>2, <2>3, <2>4
  <1> QED
    BY <1>1, <1>2

LEMMA InitModelKeepsBooks == ASSUME IInv, BookInv, InitModel PROVE BookInv'
  <1>1. /\ ~Running' /\ IsState(mem) /\ pc' = "save" /\ UNCHANGED <<disk, replays>>
        /\ models' = Published(models, 0, 0) /\ mem.model = NONE /\ pc # "down"
    BY DEF InitModel, IInv, TypeInv, OneDevicePhase, Running
  <1>2. /\ mem'.credit = mem.credit /\ mem'.sequence = mem.sequence
        /\ mem'.model = 0 /\ mem'.shards = mem.shards
    BY <1>1 DEF InitModel, IsState, StateFields
  <1>3. /\ mem.credit = 0 /\ mem.shards = <<>> /\ mem.sequence = disk.sequence
        /\ mem.sequence \in Nat /\ disk.model = NONE
    BY <1>1 DEF BookInv, InMemory, Balanced
  <1>4. models'[0] = 0 /\ \A m \in DOMAIN models' : models'[m] \in Nat
    BY <1>1 DEF Published, BookInv, Countable
  <1>5. EarnedOf(replays, <<>>) = 0
    <2>1. [i \in DOMAIN <<>> |-> GamesOf(replays, <<>>[i])] = <<>>
      OBVIOUS
    <2> QED
      BY <2>1, TotalOfNone DEF EarnedOf
  <1>6. Balanced(mem', models', replays)
    <2>1. Batch * models'[0] = 0
      BY <1>4, CampaignAssumption
    <2>2. /\ mem'.credit = 0 /\ mem'.shards = <<>> /\ mem'.model = 0
          /\ mem'.sequence \in Nat
      BY <1>2, <1>3
    <2>3. mem'.model # NONE => /\ mem'.model \in 0 .. mem'.sequence
                              /\ mem'.credit + Batch * models'[mem'.model]
                                   = EarnedOf(replays, mem'.shards)
      BY <1>5, <2>1, <2>2
    <2> QED
      BY <2>2, <2>3, CampaignAssumption DEF Balanced
  <1>7. Balanced(disk', models', replays)
    BY <1>1, <1>3 DEF BookInv, Balanced
  <1>8. InMemory'
    BY <1>1, <1>2, <1>3, <1>6 DEF InMemory
  <1> QED
    BY <1>1, <1>4, <1>7, <1>8, WorkKeepsBooks DEF Phase

\* The credit is debited for exactly the steps by which the new checkpoint is
\* ahead of the recorded one.
LEMMA AfterTrainKeepsBooks ==
  ASSUME IInv, DataInv, BookInv, AfterTrain
  PROVE  BookInv'
  <1>1. /\ pc = "collected" /\ job.label = "train" /\ UNCHANGED <<models, replays, child>>
        /\ IsState(mem) /\ ~Running /\ ~Running' /\ ~Importing
    BY DEF AfterTrain, Passed, Unleased, IInv, TypeInv, OneDevicePhase, Running, Importing
  <1>2. CASE job.target \in DOMAIN models
    <2>1. /\ mem' = [mem EXCEPT !.credit = mem.credit - Paid, !.model = job.target]
          /\ disk' = mem' /\ pc' \in {"main", "leaving"} /\ job' = NoJob
      BY <1>1, <1>2 DEF AfterTrain
    <2>2. /\ mem'.credit = mem.credit - Paid /\ mem'.sequence = mem.sequence
          /\ mem'.model = job.target /\ mem'.shards = mem.shards
      BY <1>1, <2>1 DEF IsState, StateFields
    <2>3. AheadOf(job.target) /\ Balanced(mem, models, replays) /\ mem.sequence = disk.sequence
          /\ mem.model # NONE
      BY <1>1 DEF BookInv, InMemory, Numbered, Phase, AheadOf
    <2>4. /\ mem.credit \in Int /\ mem.sequence \in Nat
          /\ mem.credit + Batch * models[mem.model] = EarnedOf(replays, mem.shards)
          /\ job.target \in Nat /\ job.target <= mem.sequence
      BY <2>3 DEF Balanced, AheadOf
    <2>5. mem.model \in DOMAIN models
      BY <1>1, <2>3 DEF DataInv, AtWork
    <2>6. models[job.target] \in Nat /\ models[mem.model] \in Nat
      BY <1>2, <2>5 DEF BookInv, Countable
    <2>7. /\ Paid \in Int
          /\ mem.credit - Paid + Batch * models[job.target]
               = mem.credit + Batch * models[mem.model]
      <3> DEFINE new == models[job.target]
                 old == models[mem.model]
      <3>1. new \in Nat /\ old \in Nat /\ Batch \in Nat /\ mem.credit \in Int
        BY <2>4, <2>6, CampaignAssumption
      <3>2. Paid = Batch * (new - old)
        BY DEF Paid
      <3> HIDE DEF new, old
      <3>3. Batch * (new - old) = Batch * new - Batch * old
        BY <3>1
      <3>4. Batch * new \in Int /\ Batch * old \in Int
        BY <3>1
      <3>5. mem.credit - Paid + Batch * new = mem.credit + Batch * old
        BY <3>1, <3>2, <3>3, <3>4
      <3> QED
        BY <3>2, <3>3, <3>4, <3>5 DEF new, old
    <2>8. mem'.credit + Batch * models'[mem'.model] = EarnedOf(replays, mem'.shards)
      BY <1>1, <2>2, <2>4, <2>7
    <2>9. Balanced(mem', models', replays)
      <3>1. mem'.credit \in Int /\ mem'.sequence \in Nat /\ mem'.model \in 0 .. mem'.sequence
        BY <2>2, <2>4, <2>7
      <3> QED
        BY <2>8, <3>1, CampaignAssumption DEF Balanced
    <2> QED
      BY <1>1, <2>1, <2>9, WorkKeepsBooks DEF InMemory, Phase, BookInv, Countable
  <1>3. CASE job.target \notin DOMAIN models
    <2>1. CASE job.rc = 0
      BY <1>1, <1>3, <2>1, QuietKeepsBooks DEF AfterTrain
    <2>2. CASE job.rc # 0
      BY <1>1, <1>3, <2>2, DownKeepsBooks DEF AfterTrain, Leaves
    <2> QED
      BY <2>1, <2>2
  <1> QED
    BY <1>2, <1>3

LEMMA ImportKeepsBooks == ASSUME IInv, DataInv, BookInv, Import PROVE BookInv'
  <1>1. /\ pc = "collected" /\ job.label = "selfplay" /\ pc' = "packed"
        /\ UNCHANGED <<disk, job, models, replays, child>> /\ job.target \in DOMAIN replays
        /\ IsState(mem) /\ ~Running /\ ~Running'
        /\ mem' = [mem EXCEPT !.shards = Append(mem.shards, job.target),
                              !.positions = mem.positions + Len(replays[job.target]),
                              !.credit = mem.credit + 4 * TrainingGames(job.target)]
    BY DEF Import, Passed, AfterPacking, IInv, TypeInv, OneDevicePhase, Running
  <1>2. /\ mem'.credit = mem.credit + 4 * GamesOf(replays, job.target)
        /\ mem'.sequence = mem.sequence /\ mem'.model = mem.model
        /\ mem'.shards = Append(mem.shards, job.target)
    BY <1>1 DEF IsState, StateFields, TrainingGames, GamesOf
  <1>3. /\ mem.shards = disk.shards /\ disk.shards \in Seq(Nat) /\ job.target \in Nat
        /\ \A i \in DOMAIN disk.shards : disk.shards[i] \in DOMAIN replays
    BY <1>1 DEF DataInv, AtWork, Stored, Importing, Aims, Unnamed, Kept, Shards
  <1>4. /\ Balanced(mem, models, replays) /\ mem.model # NONE /\ mem.sequence = disk.sequence
        /\ mem.model = disk.model
    BY <1>1 DEF BookInv, InMemory, Numbered, Phase
  <1>5. /\ GamesOf(replays, job.target) \in Nat
        /\ \A i \in DOMAIN mem.shards : GamesOf(replays, mem.shards[i]) \in Nat
    BY <1>1, <1>3, GamesAreCounted DEF BookInv, Countable
  <1>6. /\ EarnedOf(replays, mem.shards) \in Nat
        /\ EarnedOf(replays, mem'.shards)
             = EarnedOf(replays, mem.shards) + 4 * GamesOf(replays, job.target)
    BY <1>2, <1>3, <1>5, EarnedMore
  <1>7. Balanced(mem', models', replays')
    <2>1. /\ mem.credit \in Int /\ mem.sequence \in Nat /\ mem.model \in 0 .. mem.sequence
          /\ mem.credit + Batch * models[mem.model] = EarnedOf(replays, mem.shards)
      BY <1>4 DEF Balanced
    <2>2. models[mem.model] \in Nat
      BY <1>1, <1>4 DEF DataInv, AtWork, BookInv, Countable
    <2>3. Batch * models[mem.model] \in Int
      BY <2>2, CampaignAssumption
    <2>4. mem'.credit \in Int
          /\ mem'.credit + Batch * models[mem.model] = EarnedOf(replays, mem'.shards)
      <3> DEFINE cost == Batch * models[mem.model]
                 more == GamesOf(replays, job.target)
      <3>1. cost \in Int /\ more \in Nat
        BY <1>5, <2>3
      <3> HIDE DEF cost, more
      <3>2. /\ mem'.credit = mem.credit + 4 * more
            /\ EarnedOf(replays, mem'.shards) = EarnedOf(replays, mem.shards) + 4 * more
            /\ mem.credit + cost = EarnedOf(replays, mem.shards)
        BY <1>2, <1>6, <2>1 DEF cost, more
      <3>3. mem'.credit \in Int /\ mem'.credit + cost = EarnedOf(replays, mem'.shards)
        BY <1>6, <2>1, <3>1, <3>2
      <3> QED
        BY <3>3 DEF cost
    <2> QED
      BY <1>1, <1>2, <1>4, <2>1, <2>4 DEF Balanced
  <1>8. Numbered'
    BY <1>1, <1>2, <1>4 DEF Numbered, Phase
  <1> QED
    BY <1>1, <1>2, <1>4, <1>7, <1>8 DEF BookInv, Countable, InMemory

LEMMA CommitKeepsBooks == ASSUME IInv, BookInv, WriteManifest \/ Commit PROVE BookInv'
  <1>1. /\ UNCHANGED <<mem, models, replays, child>> /\ Importing /\ pc # "down" /\ pc' # "down"
        /\ ~Running /\ ~Running'
        /\ (disk' = disk /\ pc' = "manifested") \/ (disk' = mem /\ pc' = "main")
    <2>1. CASE WriteManifest
      BY <2>1 DEF WriteManifest, Importing, IInv, OneDevicePhase, Running
    <2>2. CASE Commit
      BY <2>2 DEF Commit, Importing, IInv, OneDevicePhase, Running
    <2> QED
      BY <2>1, <2>2
  <1>2. Balanced(mem, models, replays) /\ Balanced(disk', models', replays')
    BY <1>1 DEF BookInv, InMemory
  <1>3. InMemory'
    BY <1>1, <1>2 DEF BookInv, InMemory, Importing
  <1>4. Numbered'
    BY <1>1 DEF BookInv, Numbered, Phase, Importing
  <1> QED
    BY <1>1, <1>2, <1>3, <1>4 DEF BookInv, Countable

\* The leased process: a replay that is published is not yet named, a checkpoint
\* is numbered later than the recorded one.
LEMMA ProcessKeepsBooks ==
  ASSUME BookInv, DataInv, pc \in {"down", "waiting"}, pc' = pc,
         UNCHANGED <<disk, mem, job>>, Countable',
         disk.model # NONE => models'[disk.model] = models[disk.model],
         \A x \in Shards : replays'[x] = replays[x],
         Running' /\ child'.label = "train" => Running /\ child' = child
  PROVE  BookInv'
  <1>1. ~Importing
    BY DEF Importing
  <1>2. disk.sequence \in Nat /\ Balanced(disk, models, replays)
    BY DEF BookInv, Balanced
  <1>3. Balanced(disk', models', replays')
    <2>1. \A i \in DOMAIN disk.shards : disk.shards[i] \in Shards
      BY DEF Shards
    <2> QED
      BY <1>2, <2>1, BalanceStays
  <1>4. InMemory'
    <2>1. SUFFICES ASSUME pc # "down" PROVE Balanced(mem', models', replays')
      BY DEF BookInv, InMemory
    <2>2. mem.shards = disk.shards /\ Balanced(mem, models, replays) /\ mem.sequence \in Nat
          /\ mem.model = disk.model
      BY <1>1, <2>1 DEF DataInv, AtWork, BookInv, InMemory, Balanced
    <2>3. \A i \in DOMAIN disk.shards : disk.shards[i] \in Shards
      BY DEF Shards
    <2> QED
      BY <2>2, <2>3, BalanceStays
  <1>5. Numbered'
    BY <1>1 DEF BookInv, Numbered, AheadOf, Phase, Importing
  <1> QED
    BY <1>3, <1>4, <1>5 DEF BookInv

LEMMA SelfplayKeepsBooks ==
  ASSUME IInv, DataInv, WholeInv, BookInv, SelfplayRuns \/ SelfplayIsStopped
  PROVE  BookInv'
  <1>1. /\ Running /\ child.label = "selfplay" /\ child' = child
        /\ UNCHANGED <<disk, mem, pc, job, models>>
        /\ SelfplayStep \/ UNCHANGED replays
    BY DEF SelfplayRuns, SelfplayIsStopped, ChildOnly
  <1>2. /\ pc \in {"down", "waiting"} /\ ProcessInv /\ Unnamed(child.target)
        /\ sp.seed = child.target
    BY <1>1 DEF IInv, OneDevicePhase, WholeInv, DataInv, Aims
  <1>3. sp.replay \in Seq(Entries)
    BY <1>2 DEF ProcessInv, SpType
  <1>4. replays' = replays \/ replays' = Published(replays, child.target, sp.replay)
    BY <1>1, <1>2 DEF SelfplayStep, RenameReplay
  <1>5. /\ \A x \in DOMAIN replays' : replays'[x] \in Seq(Entries)
        /\ \A x \in DOMAIN replays : x # child.target => replays'[x] = replays[x]
    <2>1. CASE replays' = replays
      BY <2>1 DEF BookInv, Countable
    <2>2. CASE replays' = Published(replays, child.target, sp.replay)
      BY <1>3, <2>2 DEF Published, BookInv, Countable
    <2> QED
      BY <1>4, <2>1, <2>2
  <1>6. Countable'
    BY <1>1, <1>5 DEF Countable, BookInv
  <1>7. \A x \in Shards : x \in DOMAIN replays /\ x # child.target
    BY <1>2 DEF DataInv, Stored, Kept, Unnamed
  <1> QED
    BY <1>1, <1>2, <1>5, <1>6, <1>7, ProcessKeepsBooks

LEMMA ExitKeepsBooks ==
  ASSUME IInv, DataInv, BookInv, TrainerExits \/ OtherExits \/ SelfplayExits \/ Kill
  PROVE  BookInv'
  <1>1. /\ Running /\ UNCHANGED <<disk, mem, pc, job, replays>> /\ \E rc : Exit(rc)
    BY DEF TrainerExits, OtherExits, SelfplayExits, Kill, Exits, ChildOnly
  <1>2. ~Running' /\ pc \in {"down", "waiting"}
    BY <1>1, HaltedTyped, ChildKept DEF Exit, Running, IInv, TypeInv, OneDevicePhase
  <1>3. \/ models' = models
        \/ /\ child.label = "train"
           /\ \E done \in 0 .. child.steps :
                 models' = Published(models, child.target, child.base + done)
    BY DEF TrainerExits, OtherExits, SelfplayExits, Kill
  <1>4. /\ \A m \in DOMAIN models' : models'[m] \in Nat
        /\ disk.model # NONE => models'[disk.model] = models[disk.model]
    <2>1. CASE models' = models
      BY <2>1 DEF BookInv, Countable
    <2>2. ASSUME child.label = "train", NEW done \in 0 .. child.steps,
                 models' = Published(models, child.target, child.base + done)
          PROVE  /\ \A m \in DOMAIN models' : models'[m] \in Nat
                 /\ disk.model # NONE => models'[disk.model] = models[disk.model]
      <3>1. AheadOf(child.target) /\ child.base \in Nat /\ \A m \in DOMAIN models : models[m] \in Nat
        BY <1>1, <2>2 DEF BookInv, Numbered, Countable
      <3>2. child.base + done \in Nat
        BY <2>2, <3>1
      <3>3. disk.model # child.target /\ (disk.model # NONE => disk.model \in DOMAIN models)
        <4>1. disk.model \in 0 .. disk.sequence /\ disk.sequence \in Nat
          BY <3>1 DEF AheadOf, BookInv, Balanced
        <4> QED
          BY <3>1, <4>1 DEF AheadOf, DataInv, Stored
      <3>4. \A m \in DOMAIN models' : (m \in DOMAIN models /\ models'[m] = models[m])
                                      \/ models'[m] = child.base + done
        BY <2>2 DEF Published
      <3> QED
        BY <2>2, <3>1, <3>2, <3>3, <3>4 DEF Published
    <2> QED
      BY <1>3, <2>1, <2>2
  <1>5. Countable'
    BY <1>1, <1>4 DEF BookInv, Countable
  <1> QED
    BY <1>1, <1>2, <1>4, <1>5, ProcessKeepsBooks

LEMMA OpenKeepsBooks == ASSUME IInv, BookInv, Open PROVE BookInv'
  <1>1. pc' = "save" /\ UNCHANGED <<disk, models, replays>>
    BY DEF Open
  <1>2. ~Running'
    BY <1>1, OpenKeeps DEF IInv, OneDevicePhase
  <1>3. /\ mem'.credit = disk.credit /\ mem'.shards = disk.shards /\ mem'.model = disk.model
        /\ mem'.sequence = disk.sequence /\ disk.sequence \in Nat
    BY DEF Open, Resumed, IInv, TypeInv, IsState, StateFields, BookInv, Balanced
  <1>4. Balanced(disk, models, replays) /\ Balanced(mem', models, replays)
    BY <1>3, BalanceStays DEF BookInv
  <1>5. InMemory'
    BY <1>1, <1>3, <1>4 DEF InMemory
  <1> QED
    BY <1>1, <1>2, <1>4, <1>5, WorkKeepsBooks DEF Phase, BookInv, Countable

LEMMA LaunchKeepsBooks == ASSUME IInv, DataInv, BookInv, Launch PROVE BookInv'
  <1>1. /\ pc = "debited" /\ pc' = "waiting" /\ UNCHANGED <<disk, mem, job, models, replays>>
        /\ child'.label = job.label /\ child'.target = job.target
        /\ child'.base = IF mem.model = NONE THEN 0 ELSE models[mem.model]
    BY DEF Launch
  <1>2. mem.model # NONE => models[mem.model] \in Nat
    BY <1>1 DEF DataInv, AtWork, BookInv, Countable
  <1>3. InMemory'
    BY <1>1 DEF BookInv, InMemory
  <1>4. Numbered'
    BY <1>1, <1>2 DEF BookInv, Numbered, AheadOf, Phase, Importing
  <1> QED
    BY <1>1, <1>3, <1>4 DEF BookInv, Countable

LEMMA TickKeepsBooks == ASSUME BookInv, Tick PROVE BookInv'
  <1>1. UNCHANGED <<disk, mem, pc, job, child, models, replays>>
    BY DEF Tick
  <1> QED
    BY <1>1 DEF BookInv, Countable, InMemory, Numbered, AheadOf, Phase, Importing, Running

LEMMA CollectKeepsBooks == ASSUME IInv, BookInv, Collect PROVE BookInv'
  <1>1. /\ pc = "waiting" /\ pc' \in {"collected", "leaving"} /\ disk' = mem'
        /\ UNCHANGED <<models, replays>> /\ ~Running'
    BY HaltedTyped DEF Collect, Running
  <1>2. /\ mem'.credit = mem.credit /\ mem'.shards = mem.shards /\ mem'.model = mem.model
        /\ mem'.sequence = mem.sequence /\ job'.label = job.label /\ job'.target = job.target
    BY <1>1 DEF Collect, IInv, TypeInv, IsState, StateFields, IsJob, JobFields
  <1>3. /\ Balanced(mem, models, replays) /\ mem.sequence = disk.sequence /\ mem.sequence \in Nat
        /\ mem.model = disk.model
    BY <1>1 DEF BookInv, InMemory, Balanced
  <1>4. Balanced(mem', models', replays)
    BY <1>1, <1>2, <1>3, BalanceStays
  <1>5. InMemory'
    BY <1>1, <1>4 DEF InMemory
  <1>6. Phase("train")' => AheadOf(job.target)'
    BY <1>1, <1>2, <1>3 DEF BookInv, Numbered, Phase, AheadOf
  <1>7. Phase("selfplay")' => mem'.model # NONE
    BY <1>1, <1>2 DEF BookInv, Numbered, Phase
  <1> QED
    BY <1>1, <1>4, <1>5, <1>6, <1>7, WorkKeepsBooks DEF BookInv, Countable

LEMMA CrashKeepsBooks == ASSUME BookInv, Crash PROVE BookInv'
  <1>1. /\ pc' = "down" /\ UNCHANGED <<disk, models, replays>>
        /\ Running' => Running /\ child' = child
    BY HaltedTyped DEF Crash, Leaves, Running
  <1> QED
    BY <1>1, DownKeepsBooks

LEMMA NextKeepsBooks == IInv /\ DataInv /\ WholeInv /\ BookInv /\ [Next]_vars => BookInv'
  <1> SUFFICES ASSUME IInv, DataInv, WholeInv, BookInv, [Next]_vars PROVE BookInv'
    OBVIOUS
  <1>1. CASE UNCHANGED vars
    BY <1>1 DEF vars, campaignVars, BookInv, Countable, InMemory, Numbered, AheadOf, Phase,
                Importing, Running
  <1>2. CASE Preflight \/ Train \/ Validate \/ Selfplay
    BY <1>2, DebitKeepsBooks DEF Preflight, Train, Validate, Selfplay, InLoop
  <1>3. CASE SelfplayRuns \/ SelfplayIsStopped
    BY <1>3, SelfplayKeepsBooks
  <1>4. CASE \/ Save \/ TakeSeed \/ Finish \/ Leave
             \/ AfterPreflight \/ AfterValidate \/ ImportFails
    BY <1>4, MainKeepsBooks
  <1> QED
    BY <1>1, <1>2, <1>3, <1>4, ExitKeepsBooks, InitModelKeepsBooks, AfterTrainKeepsBooks,
       ImportKeepsBooks, CommitKeepsBooks, OpenKeepsBooks, LaunchKeepsBooks, TickKeepsBooks,
       CollectKeepsBooks, CrashKeepsBooks DEF Next

LEMMA BookInvariance == Spec => []BookInv
  BY BooksInit, NextKeepsBooks, Invariance, DataInvariance, WholeInvariance, PTL DEF Spec

\* Through any crashes, and trainers that stop early, late or not at all, the
\* state file owes no update and has made none twice: credit and steps together
\* are what the shards it names have earned.
THEOREM CreditBalances == Spec => []CreditIsBalanced
  <1>1. BookInv => CreditIsBalanced
    <2> SUFFICES ASSUME BookInv PROVE CreditIsBalanced
      OBVIOUS
    <2>1. Earned(disk.shards) = EarnedOf(replays, disk.shards)
      BY DEF Earned, EarnedOf, TrainingGames, GamesOf
    <2> QED
      BY <2>1 DEF BookInv, Balanced, CreditIsBalanced
  <1> QED
    BY <1>1, BookInvariance, PTL
=============================================================================
