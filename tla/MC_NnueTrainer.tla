--------------------------- MODULE MC_NnueTrainer ---------------------------
(***************************************************************************)
(* Small corpora for NnueTrainer.                                          *)
(***************************************************************************)
EXTENDS NnueTrainer

Rec(id, b, n) == [id |-> id, row |-> <<b, n>>]
Job(batch, optimizer, shards) ==
    [batch |-> batch, optimizer |-> optimizer, shards |-> [r \in Ranks |-> shards[r + 1]]]

\* The whole bucket moves up by one, more in later epochs.
Rotated(s, epoch, b) ==
    [i \in DOMAIN s |-> s[((i + epoch + b) % Len(s)) + 1]]

\* Shards of unequal length, one of them empty; buckets of one and of several
\* records; rows used in every step and rows used once; a step without records
\* (Pair), and one that is too much for the rank with two small buckets (the
\* last job).
Mixed == <<<<Rec(1, 0, 0), Rec(2, 1, 0), Rec(3, 0, 0), Rec(4, 0, 1), Rec(5, 0, 0)>>, <<>>>>
Even == <<<<Rec(1, 0, 0), Rec(2, 1, 0), Rec(3, 0, 1)>>, <<Rec(4, 1, 0), Rec(5, 1, 1), Rec(6, 0, 0)>>>>
Spread == <<<<Rec(1, 0, 0)>>, <<Rec(2, 1, 0), Rec(3, 2, 0), Rec(4, 2, 0)>>>>
Pair == <<<<Rec(1, 0, 0)>>, <<Rec(2, 1, 0)>>>>
Kingless == <<<<Rec(1, 0, 0)>>, <<Rec(2, 3, 0)>>>>
Empty == <<<<>>, <<>>>>
MC_OptionSets ==
    {Job(2, "momentum", Mixed), Job(3, "nesterov", Mixed), Job(3, "muon", Even),
     Job(1, "nesterov", Pair), Job(2, "muon", Spread),
     Job(2, "momentum", Kingless), Job(2, "momentum", Empty), Job(1, "momentum", Spread)}

\* One rank, which owns every bucket.
Alone3 == <<<<Rec(1, 0, 0), Rec(2, 1, 0), Rec(3, 2, 0)>>>>
MC_OneNode == {Job(2, "momentum", Alone3)}
=============================================================================
