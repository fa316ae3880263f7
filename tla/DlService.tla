----------------------------- MODULE DlService -----------------------------
(***************************************************************************)
(* What the callers of the batched evaluator of src/dl_eval.c may rely on: *)
(* a call asks a number of requests at once; requests of any calls are     *)
(* settled together, in batches, all with the same success; a call returns *)
(* once all its requests are settled, and returns true only if every one   *)
(* of them was settled successfully.                                       *)
(***************************************************************************)
EXTENDS Naturals

CONSTANTS
    Callers,    \* the threads that call evaluate
    MaxCount    \* the most positions a call may ask about

VARIABLES
    asked,      \* the requests <<caller, index>> of the calls in progress
    settled,    \* those that have an answer
    good,       \* those whose answer is an evaluation
    told        \* what the last call of each caller returned

svars == <<asked, settled, good, told>>

Init == asked = {} /\ settled = {} /\ good = {} /\ told = [c \in Callers |-> "none"]

Ours(c) == {c} \X (1..MaxCount)

\* A call begins.
Ask(c, n) ==
    /\ asked \cap Ours(c) = {}
    /\ asked' = asked \cup ({c} \X (1..n))
    /\ told' = [told EXCEPT ![c] = "none"]
    /\ UNCHANGED <<settled, good>>

\* A call is turned away.
Refuse(c) ==
    /\ asked \cap Ours(c) = {}
    /\ told' = [told EXCEPT ![c] = "false"]
    /\ UNCHANGED <<asked, settled, good>>

\* A batch is settled.
Settle(batch, ok) ==
    /\ batch # {} /\ batch \subseteq asked \ settled
    /\ settled' = settled \cup batch
    /\ good' = IF ok THEN good \cup batch ELSE good
    /\ UNCHANGED <<asked, told>>

\* A call returns.
Answer(c) ==
    /\ asked \cap Ours(c) # {} /\ asked \cap Ours(c) \subseteq settled
    /\ told' = [told EXCEPT ![c] = IF asked \cap Ours(c) \subseteq good THEN "true" ELSE "false"]
    /\ asked' = asked \ Ours(c) /\ settled' = settled \ Ours(c) /\ good' = good \ Ours(c)

Next ==
    \/ \E c \in Callers : Refuse(c) \/ Answer(c) \/ \E n \in 1..MaxCount : Ask(c, n)
    \/ \E batch \in SUBSET asked, ok \in BOOLEAN : Settle(batch, ok)

Spec == Init /\ [][Next]_svars
=============================================================================
