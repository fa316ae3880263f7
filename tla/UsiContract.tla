---------------------------- MODULE UsiContract ----------------------------
(***************************************************************************)
(* What a GUI may rely on when it numbers the go commands the engine has   *)
(* accepted: at most one of them is open, always the latest; a bestmove    *)
(* closes the open one; a go that was given up for a later command is      *)
(* never answered afterwards.                                              *)
(***************************************************************************)
EXTENDS Naturals

VARIABLES
    goes,       \* the go commands taken up so far; the latest has this number
    open,       \* the number of the open go, 0 when there is none
    answered    \* the number of the last go that got its bestmove, 0 at first

cvars == <<goes, open, answered>>

Init == goes = 0 /\ open = 0 /\ answered = 0

\* A go is taken up; what was open is given up.
Go == goes' = goes + 1 /\ open' = goes + 1 /\ UNCHANGED answered

\* A go is answered on the spot, because it cannot be searched.
Refuse == goes' = goes + 1 /\ open' = 0 /\ answered' = goes + 1

\* The open go gets its one bestmove.
Answer == open # 0 /\ answered' = open /\ open' = 0 /\ UNCHANGED goes

\* Another command takes its place.
GiveUp == open # 0 /\ open' = 0 /\ UNCHANGED <<goes, answered>>

Next == Go \/ Refuse \/ Answer \/ GiveUp

Spec == Init /\ [][Next]_cvars

=============================================================================
