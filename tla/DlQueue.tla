------------------------------ MODULE DlQueue ------------------------------
(***************************************************************************)
(* The batched evaluator of src/dl_eval.c.  Search threads call evaluate,  *)
(* which puts its requests, records on its own heap block, at the end of a *)
(* linked list and waits; one inference thread takes up to a batch from    *)
(* the head, runs the network outside the lock, and marks the requests     *)
(* done.  Everybody sleeps on one condition variable.  shogi_dl_close      *)
(* stops the thread and frees the model.                                   *)
(*                                                                         *)
(* A critical section is one action, except where it loops over the list.  *)
(* What the network computes is left out: a batch succeeds or fails.       *)
(***************************************************************************)
EXTENDS Naturals, Sequences, Functions

CONSTANTS
    Callers,        \* the threads that call evaluate
    MaxCount,       \* the most positions a call may ask about (256)
    BatchSize,      \* m->batch
    Thread, Nobody, NULL

ASSUME DlQueueAssumption ==
    /\ MaxCount \in Nat \ {0} /\ BatchSize \in Nat \ {0}
    /\ Thread \notin Callers /\ Nobody \notin Callers \cup {Thread}
    /\ NULL \notin Callers \X (1..MaxCount)

Requests == Callers \X (1..MaxCount)

VARIABLES
    mutex,              \* who holds the mutex
    asleep,             \* who waits on the condition variable
    phase,              \* each caller
    count, placed,      \* how many requests its call has, and has put
    told,               \* what its last call returned
    next, done, ok,     \* their fields
    head, tail, queued, stop,
    at, batch, verdict, \* the inference thread, requests[], its local ok
    owner,              \* the thread that opened the model and closes it
    order               \* history variable: the list as one would draw it

callers == <<phase, count, placed, told>>
fields == <<next, done, ok>>
list == <<head, tail, queued, order>>
inference == <<at, batch, verdict>>
vars == <<mutex, asleep, callers, fields, list, inference, stop, owner>>

Init ==
    /\ mutex = Nobody /\ asleep = {}
    /\ phase = [c \in Callers |-> "out"] /\ told = [c \in Callers |-> "none"]
    /\ count = [c \in Callers |-> 0] /\ placed = [c \in Callers |-> 0]
    /\ done = {} /\ ok = {}
    /\ next = [r \in Requests |-> NULL]
    /\ head = NULL /\ tail = NULL /\ queued = 0 /\ order = <<>>
    /\ stop = FALSE /\ at = "looking" /\ batch = <<>> /\ verdict = TRUE
    /\ owner = "open"

\* The requests whose memory is allocated, and a caller's.
live == {r \in Requests : r[2] <= count[r[1]]}
Ours(c) == {c} \X (1..count[c])
InBatch == Range(batch)
InList == Range(order)

-----------------------------------------------------------------------------
(***************************************************************************)
(* evaluate, in a search thread.                                           *)
(***************************************************************************)
\* No positions, too many, no memory, or a model that is being closed.
Refused(c) ==
    /\ phase[c] = "out" /\ owner # "closed"
    /\ told' = [told EXCEPT ![c] = "false"]
    /\ UNCHANGED <<mutex, asleep, phase, count, placed, fields, list, inference, stop, owner>>

\* The requests are allocated, zeroed, and the lock is taken.
Enter(c, n) ==
    /\ phase[c] = "out" /\ owner # "closed" /\ mutex = Nobody /\ ~stop
    /\ mutex' = c
    /\ phase' = [phase EXCEPT ![c] = "placing"]
    /\ told' = [told EXCEPT ![c] = "none"]
    /\ count' = [count EXCEPT ![c] = n]
    /\ next' = [r \in Requests |-> IF r[1] = c THEN NULL ELSE next[r]]
    /\ UNCHANGED <<asleep, placed, done, ok, list, inference, stop, owner>>

\* One request is put at the end of the list.
Place(c) ==
    /\ phase[c] = "placing" /\ placed[c] < count[c]
    /\ LET r == <<c, placed[c] + 1>> IN
       /\ IF tail # NULL THEN next' = [next EXCEPT ![tail] = r] /\ UNCHANGED head
                         ELSE head' = r /\ UNCHANGED next
       /\ tail' = r
       /\ order' = Append(order, r)
    /\ queued' = queued + 1
    /\ placed' = [placed EXCEPT ![c] = @ + 1]
    /\ UNCHANGED <<mutex, asleep, phase, count, told, done, ok, inference, stop, owner>>

\* Bug: nobody is told of the new requests.
Bug_AnnounceToNobody(c) ==
    /\ phase[c] = "placing" /\ placed[c] = count[c]
    /\ phase' = [phase EXCEPT ![c] = "waiting"]
    /\ asleep' = asleep \cup {c} /\ mutex' = Nobody
    /\ UNCHANGED <<count, placed, told, fields, list, inference, stop, owner>>

\* All are put: everybody is woken, and the caller, none of whose requests
\* can be done yet, goes to sleep.
Announce(c) ==
    /\ phase[c] = "placing" /\ placed[c] = count[c]
    /\ phase' = [phase EXCEPT ![c] = "waiting"]
    /\ asleep' = {c} /\ mutex' = Nobody
    /\ UNCHANGED <<count, placed, told, fields, list, inference, stop, owner>>

\* Bug: one answered request is enough.
Bug_ReturnAtFirst(c) ==
    /\ phase[c] = "waiting" /\ c \notin asleep /\ mutex = Nobody /\ owner # "closed"
    /\ Ours(c) \cap done # {}
    /\ told' = [told EXCEPT ![c] = IF Ours(c) \subseteq ok THEN "true" ELSE "false"]
    /\ phase' = [phase EXCEPT ![c] = "out"]
    /\ count' = [count EXCEPT ![c] = 0] /\ placed' = [placed EXCEPT ![c] = 0]
    /\ done' = done \ Ours(c) /\ ok' = ok \ Ours(c)
    /\ UNCHANGED <<mutex, asleep, next, list, inference, stop, owner>>

\* Awake and all done: the requests are freed and the call returns.
Return(c) ==
    /\ phase[c] = "waiting" /\ c \notin asleep /\ mutex = Nobody /\ owner # "closed"
    /\ Ours(c) \subseteq done
    /\ told' = [told EXCEPT ![c] = IF Ours(c) \subseteq ok THEN "true" ELSE "false"]
    /\ phase' = [phase EXCEPT ![c] = "out"]
    /\ count' = [count EXCEPT ![c] = 0] /\ placed' = [placed EXCEPT ![c] = 0]
    /\ done' = done \ Ours(c) /\ ok' = ok \ Ours(c)
    /\ UNCHANGED <<mutex, asleep, next, list, inference, stop, owner>>

\* Awake, but not all done: back to sleep.
WaitAgain(c) ==
    /\ phase[c] = "waiting" /\ c \notin asleep /\ mutex = Nobody /\ owner # "closed"
    /\ ~(Ours(c) \subseteq done)
    /\ asleep' = asleep \cup {c}
    /\ UNCHANGED <<mutex, callers, fields, list, inference, stop, owner>>

Caller(c) == Place(c) \/ Announce(c) \/ Return(c) \/ WaitAgain(c)

-----------------------------------------------------------------------------
(***************************************************************************)
(* inference_main.                                                         *)
(***************************************************************************)

\* The thread has the lock, or gets it on waking up.
Awake == Thread \notin asleep /\ mutex \in {Nobody, Thread}

\* Nothing to do yet.
Idle ==
    /\ at = "looking" /\ Awake /\ head = NULL /\ ~stop
    /\ asleep' = asleep \cup {Thread} /\ mutex' = Nobody
    /\ UNCHANGED <<callers, fields, list, inference, stop, owner>>

\* Stopped, and nothing left to do.
Exit ==
    /\ at = "looking" /\ Awake /\ head = NULL /\ stop
    /\ at' = "exited" /\ mutex' = Nobody
    /\ UNCHANGED <<asleep, callers, fields, list, batch, verdict, stop, owner>>

\* There is work: the wait for a full batch begins.
Find ==
    /\ at = "looking" /\ Awake /\ head # NULL
    /\ at' = "filling" /\ mutex' = Thread
    /\ UNCHANGED <<asleep, callers, fields, list, batch, verdict, stop, owner>>

Short == queued < BatchSize /\ ~stop

\* The batch is short: sleep until woken, or for the millisecond.
Fill ==
    /\ at = "filling" /\ Awake /\ Short
    /\ asleep' = asleep \cup {Thread} /\ mutex' = Nobody
    /\ UNCHANGED <<callers, fields, list, inference, stop, owner>>

\* It is full, or the model stops, or the millisecond is over.
Filled ==
    /\ at = "filling"
    /\ \/ Awake /\ ~Short
       \/ Thread \in asleep /\ mutex = Nobody
    /\ asleep' = asleep \ {Thread} /\ mutex' = Thread
    /\ at' = "taking"
    /\ UNCHANGED <<callers, fields, list, batch, verdict, stop, owner>>

\* One request is taken from the head.
Take ==
    /\ at = "taking" /\ head # NULL /\ Len(batch) < BatchSize
    /\ batch' = Append(batch, head)
    /\ head' = next[head]
    /\ queued' = queued - 1
    /\ order' = Tail(order)
    /\ UNCHANGED <<mutex, asleep, callers, fields, tail, at, verdict, stop, owner>>

\* The batch is complete; the lock is given up.
Taken ==
    /\ at = "taking" /\ ~(head # NULL /\ Len(batch) < BatchSize)
    /\ tail' = IF head = NULL THEN NULL ELSE tail
    /\ mutex' = Nobody /\ at' = "inferring"
    /\ UNCHANGED <<asleep, callers, fields, head, queued, order, batch, verdict, stop, owner>>

\* The network runs, and the logits go to the callers' buffers.  It may fail,
\* or a move may have no code, which fails the whole batch.
Infer ==
    /\ at = "inferring"
    /\ verdict' \in BOOLEAN
    /\ at' = "publishing"
    /\ UNCHANGED <<mutex, asleep, callers, fields, list, batch, stop, owner>>

\* Bug: a failing batch is dropped.
Bug_PublishSuccessOnly ==
    /\ at = "publishing" /\ mutex = Nobody
    /\ done' = IF verdict THEN done \cup InBatch ELSE done
    /\ ok' = IF verdict THEN ok \cup InBatch ELSE ok
    /\ batch' = <<>> /\ asleep' = {}
    /\ mutex' = Thread /\ at' = "looking"
    /\ UNCHANGED <<callers, next, list, verdict, stop, owner>>

\* Bug: the callers are not woken.
Bug_PublishQuietly ==
    /\ at = "publishing" /\ mutex = Nobody
    /\ done' = done \cup InBatch
    /\ ok' = IF verdict THEN ok \cup InBatch ELSE ok
    /\ batch' = <<>>
    /\ mutex' = Thread /\ at' = "looking"
    /\ UNCHANGED <<asleep, callers, next, list, verdict, stop, owner>>

\* The whole batch is marked with the one verdict and everybody woken; the
\* lock is kept for the next look at the list.
Publish ==
    /\ at = "publishing" /\ mutex = Nobody
    /\ done' = done \cup InBatch
    /\ ok' = IF verdict THEN ok \cup InBatch ELSE ok
    /\ batch' = <<>> /\ asleep' = {}
    /\ mutex' = Thread /\ at' = "looking"
    /\ UNCHANGED <<callers, next, list, verdict, stop, owner>>

Inference == Idle \/ Exit \/ Find \/ Fill \/ Filled \/ Take \/ Taken \/ Infer \/ Publish

-----------------------------------------------------------------------------
(***************************************************************************)
(* shogi_dl_close, and what pthreads may do.                               *)
(***************************************************************************)

\* The thread is told.  Calls may be inside: self-play joins its threads
\* first, but nothing here asks for it.
Close ==
    /\ owner = "open" /\ mutex = Nobody
    /\ stop' = TRUE /\ asleep' = {}
    /\ owner' = "closing"
    /\ UNCHANGED <<mutex, callers, fields, list, inference>>

\* The thread is joined and the model freed.
Free ==
    /\ owner = "closing" /\ at = "exited"
    /\ owner' = "closed"
    /\ UNCHANGED <<mutex, asleep, callers, fields, list, inference, stop>>

\* A wait returns without cause.
SpuriousWake ==
    /\ \E x \in asleep : asleep' = asleep \ {x}
    /\ UNCHANGED <<mutex, callers, fields, list, inference, stop, owner>>

Next ==
    \/ \E c \in Callers : Refused(c) \/ Caller(c) \/ \E n \in 1..MaxCount : Enter(c, n)
    \/ Inference \/ Close \/ Free \/ SpuriousWake

Spec == Init /\ [][Next]_vars

\* A thread inside a call, the inference thread and a call of close run on;
\* the mutex is not refused to one of them for ever, hence strong fairness;
\* the millisecond passes, however often the thread is woken.  Nobody needs
\* to call, and nobody is owed a wake-up without cause.
Fairness ==
    /\ \A c \in Callers : WF_vars(Place(c)) /\ WF_vars(Announce(c)) /\ SF_vars(Return(c))
    /\ SF_vars(Inference) /\ SF_vars(Filled) /\ WF_vars(Free)

FairSpec == Spec /\ Fairness

-----------------------------------------------------------------------------
TypeOK ==
    /\ mutex \in Callers \cup {Thread, Nobody} /\ asleep \subseteq Callers \cup {Thread}
    /\ phase \in [Callers -> {"out", "placing", "waiting"}]
    /\ count \in [Callers -> 0..MaxCount] /\ placed \in [Callers -> 0..MaxCount]
    /\ told \in [Callers -> {"none", "true", "false"}]
    /\ done \subseteq Requests /\ ok \subseteq Requests
    /\ next \in [Requests -> Requests \cup {NULL}]
    /\ head \in Requests \cup {NULL} /\ tail \in Requests \cup {NULL}
    /\ queued \in Nat /\ stop \in BOOLEAN /\ verdict \in BOOLEAN
    /\ at \in {"looking", "filling", "taking", "inferring", "publishing", "exited"}
    /\ batch \in Seq(Requests) /\ order \in Seq(Requests)
    /\ owner \in {"open", "closing", "closed"}

\* The pointers and the count are those of the list as drawn; a list that has
\* been emptied has no tail once its taker gives up the lock, so the next
\* request is not hung on one that has been freed.
ListIsDrawn ==
    /\ queued = Len(order)
    /\ order = <<>> => head = NULL /\ (at # "taking" => tail = NULL)
    /\ order # <<>> =>
          /\ head = order[1] /\ tail = order[Len(order)]
          /\ \A i \in 1..Len(order) :
                next[order[i]] = IF i = Len(order) THEN NULL ELSE order[i + 1]

\* The thread touches no request whose call has returned.
MemoryIsLive == InList \cup InBatch \subseteq live

\* A request that was put is queued, in the batch or done, in exactly one of
\* the three, and once.
Placed == {r \in Requests : r[2] <= placed[r[1]]}
NothingForgotten ==
    /\ Placed = InList \cup InBatch \cup done
    /\ InList \cap InBatch = {} /\ (InList \cup InBatch) \cap done = {}
    /\ IsInjective(order) /\ IsInjective(batch)

\* No wake-up is lost: no caller sleeps whose requests are all done, and while
\* nobody holds the lock the thread does not sleep on work or on a stop.
NoWakeUpIsLost ==
    /\ \A c \in Callers \cap asleep : ~(Ours(c) \subseteq done)
    /\ Thread \in asleep /\ at = "looking" /\ mutex = Nobody => head = NULL /\ ~stop

\* A stopped thread answers every request it was sent before it exits.
DrainsBeforeExit == at = "exited" => stop /\ live \subseteq done

\* The queue keeps the contract of DlService: no answer before all requests
\* of a call are settled, and true only for requests that were evaluated.
Service == INSTANCE DlService WITH asked <- live, settled <- done, good <- ok
KeepsService == Service!Spec

\* Every call returns, while the model is open or being closed.
EveryCallReturns == \A c \in Callers : phase[c] # "out" ~> phase[c] = "out" \/ owner = "closed"

-----------------------------------------------------------------------------
(***************************************************************************)
(* The inductive invariant behind the safety properties.                   *)
(***************************************************************************)
\* Where a caller is: it holds the lock while it places its requests, none of
\* which is linked or answered before its turn.
CallerInv ==
    \A c \in Callers :
        /\ placed[c] =< count[c]
        /\ phase[c] = "out" <=> count[c] = 0
        /\ phase[c] = "waiting" => placed[c] = count[c]
        /\ phase[c] = "placing" <=> mutex = c
        /\ phase[c] = "placing" =>
              \A i \in 1..MaxCount : <<c, i>> \notin done /\ (i > placed[c] => next[<<c, i>>] = NULL)
        /\ c \in asleep => phase[c] = "waiting"

\* Where the thread is.
ThreadInv ==
    /\ at = "taking" => mutex = Thread
    /\ mutex = Thread => at \in {"looking", "filling", "taking"} /\ Thread \notin asleep
    /\ Thread \in asleep => at \in {"looking", "filling"}
    /\ at \in {"looking", "filling", "exited"} => batch = <<>>
    /\ at = "filling" => order # <<>>
    /\ at = "taking" => order # <<>> \/ batch # <<>>
    /\ at \in {"inferring", "publishing"} => batch # <<>>
    /\ at = "exited" => stop /\ order = <<>>

\* Where the owner is; once it closes, no call begins.
OwnerInv ==
    /\ stop <=> owner # "open"
    /\ stop => \A c \in Callers : phase[c] # "placing"
    /\ owner = "closed" => at = "exited"

IInv ==
    /\ TypeOK /\ ok \subseteq done
    /\ ListIsDrawn /\ NothingForgotten /\ NoWakeUpIsLost
    /\ CallerInv /\ ThreadInv /\ OwnerInv

=============================================================================
