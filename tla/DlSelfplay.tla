---------------------------- MODULE DlSelfplay ----------------------------
(***************************************************************************)
(* The self-play process of the policy-value network, tools/dl_selfplay.c: *)
(* threads take game numbers from one counter, play, and append finished   *)
(* games to a replay file and a trace under one mutex.  Both files carry a *)
(* temporary name until every thread is joined.  A game's samples stand    *)
(* for one entry, which a write error may leave incomplete.                *)
(***************************************************************************)
EXTENDS Naturals, Sequences

CONSTANTS Threads, Games

VARIABLES sp,      \* the process: counter, flags, threads, temporary files
          replays, \* published replay files, by seed
          traces   \* published traces, by seed

Published(f, seed, value) ==
  [s \in DOMAIN f \union {seed} |-> IF s = seed THEN value ELSE f[s]]

\* The process begins; a thread that cannot be created fails the run.
Begun(seed) ==
  {[phase |-> "play", seed |-> seed, next |-> 0, failed |-> Started # Threads,
    stopped |-> FALSE, replay |-> <<>>, trace |-> <<>>,
    game |-> [t \in Threads |-> Games],
    at |-> [t \in Threads |-> IF t \in Started THEN "free" ELSE "over"]] :
   Started \in SUBSET Threads}
Nothing == [phase |-> "none"]

Canceled == sp.stopped \/ sp.failed

\* The handler of SIGTERM and SIGINT.
Stop == sp' = [sp EXCEPT !.stopped = TRUE]

\* worker: leave when canceled, or take the next game number.
Take(t) ==
  /\ sp.phase = "play" /\ sp.at[t] = "free"
  /\ IF Canceled THEN sp' = [sp EXCEPT !.at[t] = "over"]
     ELSE sp' = [sp EXCEPT !.next = @ + 1,
                           !.game[t] = sp.next,
                           !.at[t] = IF sp.next < Games THEN "play" ELSE "over"]

\* play: a canceled game records nothing; its thread looks at the flags again.
Abandon(t) ==
  /\ sp.phase = "play" /\ sp.at[t] = "play" /\ Canceled
  /\ sp' = [sp EXCEPT !.at[t] = "free"]

\* play: the search or the evaluator fails.
Break(t) ==
  /\ sp.phase = "play" /\ sp.at[t] = "play" /\ ~Canceled
  /\ sp' = [sp EXCEPT !.at[t] = "over", !.failed = TRUE]

\* play: the game is over and not canceled; both files get it under the mutex.
Ends(t) ==
  /\ sp.phase = "play" /\ sp.at[t] = "play" /\ ~Canceled
  /\ sp' = [sp EXCEPT !.at[t] = "record"]
Entry(t, whole) == [id |-> <<sp.seed, sp.game[t]>>, whole |-> whole]
Record(t) ==
  /\ sp.phase = "play" /\ sp.at[t] = "record"
  /\ \/ sp' = [sp EXCEPT !.at[t] = "free",
                         !.replay = Append(@, Entry(t, TRUE)),
                         !.trace = Append(@, Entry(t, TRUE))]
     \/ sp' = [sp EXCEPT !.at[t] = "over", !.failed = TRUE,
                         !.replay = Append(@, Entry(t, FALSE)),
                         !.trace = Append(@, Entry(t, FALSE))]

\* main: the threads joined, a failed run is discarded; else the files are
\* flushed and synced, which may fail as well.
PublishesAnyway == {"sync"}
AfterJoin == IF sp.failed THEN {"discard"} ELSE {"sync", "discard"}
Join ==
  /\ sp.phase = "play" /\ \A t \in Threads : sp.at[t] = "over"
  /\ \E phase \in AfterJoin : sp' = [sp EXCEPT !.phase = phase]

\* The two renames, the trace first; either may fail.
RenameTrace ==
  /\ sp.phase = "sync"
  /\ \/ /\ traces' = Published(traces, sp.seed, sp.trace)
        /\ sp' = [sp EXCEPT !.phase = "traced"]
     \/ sp' = [sp EXCEPT !.phase = "discard"] /\ UNCHANGED traces
RenameReplay ==
  /\ sp.phase = "traced"
  /\ \/ /\ replays' = Published(replays, sp.seed, sp.replay)
        /\ sp' = [sp EXCEPT !.phase = "published"]
     \/ sp' = [sp EXCEPT !.phase = "discard"] /\ UNCHANGED replays

\* main's return code, once it is there to give.
Returned == sp.phase \in {"discard", "published"}
ReturnCode == IF sp.phase = "published" THEN 0 ELSE 1

SelfplayStep ==
  \/ /\ \/ \E t \in Threads : Take(t) \/ Abandon(t) \/ Break(t) \/ Ends(t) \/ Record(t)
        \/ Join
     /\ UNCHANGED <<replays, traces>>
  \/ RenameTrace /\ UNCHANGED replays
  \/ RenameReplay /\ UNCHANGED traces
============================================================================
