----------------------------- MODULE Campaign -----------------------------
(***************************************************************************)
(* The supervisor of a training campaign, tools/dl_campaign.py, with the   *)
(* processes it leases device time to.  Everything it must remember is in  *)
(* one state file, replaced atomically by save(); it may die between any   *)
(* two steps, while the process it started runs on under GNU timeout, and  *)
(* is started again by hand.  The self-play process is DlSelfplay; the     *)
(* trainer, the validator and the preflight test belong to another         *)
(* repository and are modelled by what the supervisor expects of them.     *)
(***************************************************************************)
EXTENDS DlSelfplay, SequencesExt

CONSTANTS Budget,        \* hours * 3600
          PhaseSeconds,
          Batch, MinPositions, WindowLimit,
          Validation,    \* the game ids with game % 20 = 0
          LaunchDelay,   \* seconds from the debit to the process, less than 2
          MaxCrashes, MaxSequence,  \* bounds of the model
          NONE

ASSUME CampaignAssumption ==
  /\ Budget \in Nat /\ PhaseSeconds \in Nat /\ PhaseSeconds >= 3
  /\ Batch \in Nat \ {0} /\ LaunchDelay \in 0..1 /\ NONE \notin Nat

VARIABLES now,       \* seconds since the last debit
          disk,      \* state.json; before the first save, what that will hold
          mem,       \* the supervisor's state, NONE while it is not running
          pc,        \* where it is
          job,       \* the phase under way, as the supervisor knows it
          child,     \* the leased process
          models,    \* checkpoints: file -> optimizer step
          window,    \* window.gnr
          manifests, \* replay manifests: seed -> what their hash names
          used,      \* device seconds consumed so far
          crashes
campaignVars == <<now, disk, mem, pc, job, child, models, window, manifests,
                  used, crashes>>
vars == <<campaignVars, sp, replays, traces>>
----------------------------------------------------------------------------
Least(a, b) == IF a < b THEN a ELSE b
Minus(a, b) == IF a < b THEN 0 ELSE a - b

Fresh == [spent |-> 0, lease |-> NONE, sequence |-> 0, model |-> NONE,
          shards |-> <<>>, positions |-> 0, credit |-> 0, seed |-> 1,
          preflight |-> FALSE, validated |-> NONE]

\* pack_window: the most recent records of the shards.
Records(shards) == FlattenSeq([i \in DOMAIN shards |-> replays[shards[i]]])
Pack(shards) ==
  LET all == Records(shards)
  IN  SubSeq(all, Minus(Len(all), WindowLimit) + 1, Len(all))

TrainingGames(seed) ==
  Cardinality({i \in DOMAIN replays[seed] : replays[seed][i].id \notin Validation})

Running == child.status = "running"
Halted == [label |-> NONE, status |-> "none", start |-> 0, limit |-> 0, rc |-> 0,
           target |-> 0, steps |-> 0, base |-> 0]
NoJob == [label |-> NONE, lease |-> 0, target |-> 0, steps |-> 0,
          rc |-> 0]

Init ==
  /\ now = 0 /\ disk = Fresh /\ mem = NONE /\ pc = "down" /\ job = NoJob
  /\ child = Halted /\ models = [m \in {} |-> 0] /\ window = <<>>
  /\ manifests = [m \in {} |-> 0] /\ used = 0 /\ crashes = 0
  /\ sp = Nothing /\ replays = [s \in {} |-> 0] /\ traces = [s \in {} |-> 0]

\* The supervisor ends: by break, an exception, or because it was killed.
Leaves == pc' = "down" /\ mem' = NONE /\ job' = NoJob

(* Campaign.__init__: refused while a recorded lease may run, and when the  *)
(* checkpoint or a shard is not the recorded one.                           *)
Verified ==
  /\ disk.model # NONE => disk.model \in DOMAIN models
  /\ \A i \in DOMAIN disk.shards :
       LET seed == disk.shards[i]
       IN  seed \in DOMAIN manifests /\ seed \in DOMAIN replays
           /\ manifests[seed] = replays[seed]
Resumed == [disk EXCEPT !.lease = NONE]
Open ==
  /\ pc = "down"
  /\ disk.lease # NONE => now >= disk.lease
  /\ Verified
  /\ mem' = Resumed
  /\ window' = IF disk.shards # <<>> THEN Pack(disk.shards) ELSE window
  /\ pc' = "save" /\ now' = 0
  /\ UNCHANGED <<disk, job, child, models, manifests, used, crashes,
                 sp, replays, traces>>

\* save(), where nothing else happens between it and the top of the loop.
Save ==
  /\ pc = "save" /\ disk' = mem /\ pc' = "main" /\ job' = NoJob
  /\ UNCHANGED <<now, mem, child, models, window, manifests, used, crashes,
                 sp, replays, traces>>

Remaining == Budget - mem.spent

(* phase(): debit the lease and save, before the process exists.  The clock *)
(* is read for the expiry before the save; it is only ever compared within  *)
(* one lease, so it starts again at the debit.                              *)
ExpiryAtKill(lease) == lease
Expiry(lease) == lease + 2
ChargedAtTheEnd(lease) == mem.spent
Charged(lease) == mem.spent + lease
Debit(label, target, steps, state) ==
  LET lease == Least(PhaseSeconds, Remaining)
  IN  IF lease < 3
      THEN Leaves /\ UNCHANGED <<now, disk>>
      ELSE /\ mem.sequence < MaxSequence
           /\ mem' = [state EXCEPT !.sequence = @ + 1, !.spent = Charged(lease),
                                   !.lease = Expiry(lease)]
           /\ disk' = mem' /\ now' = 0
           /\ pc' = "debited"
           /\ job' = [label |-> label, lease |-> lease,
                      target |-> target, steps |-> steps, rc |-> 0]

Unleased == UNCHANGED <<child, models, window, manifests, used, crashes,
                        sp, replays, traces>>
Preflight ==
  /\ pc = "main" /\ ~mem.preflight
  /\ Debit("preflight", 0, 0, mem)
  /\ Unleased

\* gn_tool init writes the first checkpoint; file 0 stands for it.
InitModel ==
  /\ pc = "main" /\ mem.preflight /\ mem.model = NONE
  /\ models' = Published(models, 0, 0)
  /\ mem' = [mem EXCEPT !.model = 0]
  /\ pc' = "save"
  /\ UNCHANGED <<now, disk, job, child, window, manifests, used, crashes,
                 sp, replays, traces>>

InLoop == pc = "main" /\ mem.preflight /\ mem.model # NONE
Affords == Remaining >= 3
Trains == mem.positions >= MinPositions /\ mem.credit >= Batch
Validates == mem.shards # <<>> /\ mem.validated # models[mem.model]

Finish ==
  /\ InLoop /\ ~Affords
  /\ Leaves
  /\ UNCHANGED <<now, disk>> /\ Unleased

\* The next checkpoint is named after the sequence number the phase will have.
Train ==
  /\ InLoop /\ Affords /\ Trains
  /\ Debit("train", mem.sequence + 1, Least(mem.credit \div Batch, 16), mem)
  /\ Unleased

Validate ==
  /\ InLoop /\ Affords /\ ~Trains /\ Validates
  /\ Debit("validate", 0, 0, mem)
  /\ Unleased

\* The seed is spent and saved before the games are played with it.
SeedReused == mem
SeedTaken == [mem EXCEPT !.seed = @ + 1]
TakeSeed ==
  /\ InLoop /\ Affords /\ ~Trains /\ ~Validates
  /\ mem' = SeedTaken /\ disk' = mem' /\ pc' = "seeded"
  /\ job' = [NoJob EXCEPT !.target = mem.seed]
  /\ UNCHANGED now /\ Unleased
Selfplay ==
  /\ pc = "seeded"
  /\ Debit("selfplay", job.target, 0, mem)
  /\ Unleased
----------------------------------------------------------------------------
(* The leased process, under timeout --signal=TERM --kill-after=1s: asked   *)
(* to stop a second before the end of its lease, killed at the end.         *)
Launch ==
  /\ pc = "debited"
  /\ child' = [label |-> job.label, status |-> "running", start |-> now,
               limit |-> now + job.lease, rc |-> 0, target |-> job.target,
               steps |-> job.steps,
               base |-> IF mem.model = NONE THEN 0 ELSE models[mem.model]]
  /\ sp' \in IF job.label = "selfplay" THEN Begun(job.target) ELSE {Nothing}
  /\ pc' = "waiting"
  /\ UNCHANGED <<now, disk, mem, job, models, window, manifests, used, crashes,
                 replays, traces>>

ChildOnly == UNCHANGED <<now, disk, mem, pc, job, window, manifests, used, crashes>>
TimedOut == now >= child.limit - 1
Exit(rc) ==  \* noticed by the supervisor that waits, if it still lives
  child' = IF pc = "waiting" THEN [child EXCEPT !.status = "exited", !.rc = rc]
                             ELSE Halted
Exits(rc) == Exit(IF TimedOut THEN 124 ELSE rc)

\* gn_tool train: a checkpoint some steps on, complete or stopped early, or none.
TrainerExits ==
  /\ Running /\ child.label = "train"
  /\ \/ \E done \in 0..child.steps :
          models' = Published(models, child.target, child.base + done) /\ Exits(0)
     \/ Exits(1) /\ UNCHANGED models
  /\ ChildOnly /\ UNCHANGED <<sp, replays, traces>>

OtherExits ==
  /\ Running /\ child.label \in {"preflight", "validate"}
  /\ \E rc \in {0, 1} : Exits(rc)
  /\ ChildOnly /\ UNCHANGED <<models, sp, replays, traces>>

SelfplayRuns ==
  /\ Running /\ child.label = "selfplay"
  /\ SelfplayStep
  /\ ChildOnly /\ UNCHANGED <<child, models>>
SelfplayIsStopped ==
  /\ Running /\ child.label = "selfplay" /\ TimedOut /\ ~sp.stopped
  /\ Stop
  /\ ChildOnly /\ UNCHANGED <<child, models, replays, traces>>
SelfplayExits ==
  /\ Running /\ child.label = "selfplay" /\ Returned
  /\ Exits(ReturnCode) /\ sp' = Nothing
  /\ ChildOnly /\ UNCHANGED <<models, replays, traces>>

Kill ==
  /\ Running /\ now = child.limit
  /\ Exit(137) /\ sp' = Nothing
  /\ ChildOnly /\ UNCHANGED <<models, replays, traces>>

(* A second passes: never past the kill, nor past the launch delay; with    *)
(* nothing running, only while somebody waits for a lease to expire.        *)
Tick ==
  /\ Running => now < child.limit
  /\ pc = "debited" => now < LaunchDelay
  /\ \/ Running \/ pc = "debited"
     \/ pc = "down" /\ disk.lease # NONE /\ now < disk.lease
  /\ now' = now + 1
  /\ used' = used + (IF Running THEN 1 ELSE 0)
  /\ UNCHANGED <<disk, mem, pc, job, child, models, window, manifests, crashes,
                 sp, replays, traces>>
----------------------------------------------------------------------------
\* phase() again: what the process did not use is refunded.
Refunded == mem.spent - Minus(job.lease, now - child.start)
Collect ==
  /\ pc = "waiting" /\ child.status = "exited"
  /\ mem' = [mem EXCEPT !.spent = Refunded, !.lease = NONE]
  /\ disk' = mem'
  /\ pc' = IF child.rc \in {0, 124, 137} THEN "collected" ELSE "leaving"
  /\ job' = [job EXCEPT !.rc = child.rc]
  /\ child' = Halted /\ now' = 0
  /\ UNCHANGED <<models, window, manifests, used, crashes,
                 sp, replays, traces>>
Leave ==
  /\ pc = "leaving" /\ Leaves
  /\ UNCHANGED <<now, disk>> /\ Unleased

Passed(label) == pc = "collected" /\ job.label = label
AfterPreflight ==
  /\ Passed("preflight")
  /\ IF job.rc = 0
     THEN mem' = [mem EXCEPT !.preflight = TRUE] /\ pc' = "save" /\ UNCHANGED job
     ELSE Leaves
  /\ UNCHANGED <<now, disk>> /\ Unleased
AfterValidate ==
  /\ Passed("validate")
  /\ IF job.rc = 0
     THEN /\ mem' = [mem EXCEPT !.validated = models[mem.model]]
          /\ pc' = "save" /\ UNCHANGED job
     ELSE Leaves
  /\ UNCHANGED <<now, disk>> /\ Unleased

\* A checkpoint pays for exactly the steps it is ahead.
PaidAsAsked == Batch * job.steps
Paid == Batch * (models[job.target] - models[mem.model])
AfterTrain ==
  /\ Passed("train")
  /\ IF job.target \in DOMAIN models
     THEN /\ mem' = [mem EXCEPT !.credit = @ - Paid, !.model = job.target]
          /\ disk' = mem'
          /\ pc' = (IF job.rc = 0 THEN "main" ELSE "leaving") /\ job' = NoJob
     ELSE /\ IF job.rc = 0 THEN pc' = "main" /\ job' = NoJob /\ UNCHANGED mem
                           ELSE Leaves
          /\ UNCHANGED disk
  /\ UNCHANGED now /\ Unleased

(* A published shard is imported: the window is packed again, the manifest  *)
(* written, and only then the state that names the shard is saved.          *)
ImportFails ==
  /\ Passed("selfplay")
  /\ job.target \in DOMAIN replays => replays[job.target] = <<>>
  /\ Leaves
  /\ UNCHANGED <<now, disk>> /\ Unleased
WindowAfter == Pack(Append(mem.shards, job.target))
CommitsFirst == "manifested"
AfterPacking == "packed"
Import ==
  /\ Passed("selfplay")
  /\ job.target \in DOMAIN replays /\ replays[job.target] # <<>>
  /\ mem' = [mem EXCEPT !.shards = Append(@, job.target),
                        !.positions = @ + Len(replays[job.target]),
                        !.credit = @ + 4 * TrainingGames(job.target)]
  /\ window' = WindowAfter
  /\ pc' = AfterPacking
  /\ UNCHANGED <<now, disk, job, child, models, manifests, used, crashes,
                 sp, replays, traces>>
WriteManifest ==
  /\ pc = "packed" /\ job.target \in DOMAIN traces
  /\ manifests' = Published(manifests, job.target, replays[job.target])
  /\ pc' = "manifested"
  /\ UNCHANGED <<now, disk, mem, job, child, models, window, used, crashes,
                 sp, replays, traces>>
Commit ==
  /\ pc = "manifested" /\ disk' = mem /\ pc' = "main" /\ job' = NoJob
  /\ UNCHANGED <<now, mem, child, models, window, manifests, used, crashes,
                 sp, replays, traces>>

\* The supervisor dies anywhere; what it started runs on.
Crash ==
  /\ pc # "down" /\ crashes < MaxCrashes
  /\ crashes' = crashes + 1
  /\ Leaves
  /\ child' = IF Running THEN child ELSE Halted
  /\ UNCHANGED <<now, disk, models, window, manifests, used,
                 sp, replays, traces>>

Next == \/ Open \/ Save \/ Preflight \/ InitModel \/ Finish
        \/ Train \/ Validate \/ TakeSeed \/ Selfplay
        \/ Launch \/ TrainerExits \/ OtherExits
        \/ SelfplayRuns \/ SelfplayIsStopped \/ SelfplayExits \/ Kill \/ Tick
        \/ Collect \/ Leave \/ AfterPreflight \/ AfterValidate \/ AfterTrain
        \/ ImportFails \/ Import \/ WriteManifest \/ Commit \/ Crash

Spec == Init /\ [][Next]_vars
----------------------------------------------------------------------------
(* Crashes cannot buy device time: what the processes consumed, and what    *)
(* the running one may still consume, is in the spent_seconds of the state  *)
(* file at every moment, and that never exceeds the campaign's hours        *)
(* ("debit before launching; a crash cannot erase usage").                  *)
BudgetCoversUse ==
  /\ used + (IF Running THEN child.limit - now ELSE 0) <= disk.spent
  /\ disk.spent <= Budget

(* A supervisor that is at work, resumed after a crash or not, never has an *)
(* earlier process still on the device: the recorded expiry outlasts it.    *)
OneDevicePhase == pc \notin {"down", "waiting"} => ~Running

Total(a) == LET sum[n \in 0..Len(a)] == IF n = 0 THEN 0 ELSE sum[n - 1] + a[n]
            IN  sum[Len(a)]
Earned(shards) == 4 * Total([i \in DOMAIN shards |-> TrainingGames(shards[i])])

(* In the state file, the credit and the optimizer steps of the recorded    *)
(* checkpoint together are what the recorded shards earned, after any       *)
(* crash: no update is made twice on one credit, none is paid without one.  *)
CreditIsBalanced ==
  disk.model # NONE
    => disk.credit + Batch * models[disk.model] = Earned(disk.shards)

(* "Never reuse a seed/game id, including abandoned work": the seed that    *)
(* comes next names no file yet, published or being written, and no shard   *)
(* is imported twice.                                                       *)
GameIdsAreFresh ==
  /\ \A seed \in DOMAIN replays \union DOMAIN traces : seed < disk.seed
  /\ Running /\ child.label = "selfplay" => child.target < disk.seed
  /\ \A i, j \in DOMAIN disk.shards : disk.shards[i] = disk.shards[j] => i = j

(* Whatever a crash left behind, the next start finds the checkpoint and    *)
(* the shards that the state file names as their hashes were recorded.      *)
ResumeIsAccepted == Verified

(* A published shard holds whole games of its own seed, each once, and the  *)
(* trace beside it lists the same games.                                    *)
ShardsAreWhole ==
  \A seed \in DOMAIN replays :
    /\ seed \in DOMAIN traces /\ traces[seed] = replays[seed]
    /\ \A i \in DOMAIN replays[seed] :
         /\ replays[seed][i].whole /\ replays[seed][i].id[1] = seed
         /\ \A j \in DOMAIN replays[seed] :
              replays[seed][i].id = replays[seed][j].id => i = j
============================================================================
