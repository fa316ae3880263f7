---------------------------- MODULE MC_SearchJob ----------------------------
(***************************************************************************)
(* Model checking of SearchJob.                                            *)
(***************************************************************************)
EXTENDS SearchJob

\* go nodes N, go infinite, go movetime, go ponder movetime, go ponder nodes N.
KindsOfLimits ==
    {[nodes |-> 3, infinite |-> FALSE, ponder |-> FALSE, timed |-> FALSE],
     [nodes |-> 0, infinite |-> TRUE,  ponder |-> FALSE, timed |-> FALSE],
     [nodes |-> 0, infinite |-> FALSE, ponder |-> FALSE, timed |-> TRUE],
     [nodes |-> 0, infinite |-> FALSE, ponder |-> TRUE,  timed |-> TRUE],
     [nodes |-> 3, infinite |-> FALSE, ponder |-> TRUE,  timed |-> FALSE]}

\* Every kind of limit with both kinds of worker, on a root with moves; and
\* every kind of root.
MCRequests ==
    [limits : KindsOfLimits, root : {[moves |-> TRUE, declares |-> FALSE, verdict |-> "ongoing"]},
     neural : BOOLEAN, with_context : {TRUE}, threads : {MaxThreads}]
    \cup
    [limits : {[nodes |-> 3, infinite |-> FALSE, ponder |-> FALSE, timed |-> FALSE]},
     root : Roots, neural : {FALSE}, with_context : {FALSE}, threads : {1}]

=============================================================================
