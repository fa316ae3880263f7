----------------------------- MODULE GameGraph -----------------------------
(***************************************************************************)
(* The game as the searches of src/search.c see it: positions, the legal   *)
(* moves from each (named by the position they lead to), and the verdict   *)
(* on a line, the sequence of positions since the start of the game.  What *)
(* the positions are and which moves are legal is the matter of ShogiRules *)
(* and ShogiMake; here they are the nodes and edges of a small graph.      *)
(***************************************************************************)
EXTENDS Integers, Sequences, FiniteSets, FiniteSetsExt, SequencesExt

CONSTANTS
    Positions,      \* the nodes of the graph; a position knows its side to move
    Successors,     \* [Positions -> Seq(Positions)]: legal moves, in generation order
    InCheck,        \* the positions whose mover is in check
    Repeat          \* SHOGI_REPETITION_COUNT

ASSUME GameAssumption ==
    /\ Repeat \in Nat \ {0, 1}
    /\ Successors \in [Positions -> Seq(Positions)]
    /\ InCheck \subseteq Positions

Meetings(line) == {i \in DOMAIN line : line[i] = line[Len(line)]}
Repeated(line) == Cardinality(Meetings(line)) >= Repeat

\* The moves since the earliest of the last Repeat meetings, and whether all
\* those of one side gave check: parity 0 is the side that moved last.
Chain(line) ==
    LET first == CHOOSE i \in Meetings(line) :
                    Cardinality({j \in Meetings(line) : j >= i}) = Repeat
    IN  (first + 1) .. Len(line)
AlwaysChecked(line, parity) ==
    LET turns == {i \in Chain(line) : (Len(line) - i) % 2 = parity}
    IN  turns # {} /\ \A i \in turns : line[i] \in InCheck

Finished(line) == Repeated(line) \/ Successors[line[Len(line)]] = <<>>

\* The result for the side to move at the end of a finished line.
Verdict(line) ==
    IF ~Repeated(line) THEN "lost"
    ELSE IF AlwaysChecked(line, 0) THEN "won"
    ELSE IF AlwaysChecked(line, 1) THEN "lost" ELSE "draw"
=============================================================================
