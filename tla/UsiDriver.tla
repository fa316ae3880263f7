----------------------------- MODULE UsiDriver -----------------------------
(***************************************************************************)
(* The command loop of src/main.c: main, process_line, finish_job and      *)
(* read_command_line.  The GUI writes lines into a pipe.  The engine asks  *)
(* poll about the pipe but takes its lines with fgets from the stdio       *)
(* buffer, which a read fills with all that the pipe holds.                *)
(*                                                                         *)
(* The search job is the one of SearchJob, seen from outside: it runs, it  *)
(* may be done, search_request_stop and search_join end it.                *)
(***************************************************************************)
EXTENDS Naturals, Sequences

CONSTANTS
    Positions,  \* the positions a GUI may set
    StartPos,   \* the position of usinewgame and of a fresh engine
    MaxLines,   \* how many lines the GUI sends
    Bursts      \* whether it writes a line before the last one was read

ASSUME UsiDriverAssumption ==
    /\ StartPos \in Positions
    /\ MaxLines \in Nat
    /\ Bursts \in BOOLEAN

\* The lines by what they make the engine do.  "query" stands for usi,
\* isready, setoption, status, d, sfen, hash, eval and evalmoves, which all
\* give up a running search; "noise" for an unknown or an overlong line.  A
\* line carries the position the GUI believes in when it sends it.
Plain == {"stop", "ponderhit", "go malformed", "position invalid", "query",
          "usinewgame", "noise", "quit"}
Line == [cmd : Plain \cup {"position"}, pos : Positions]
        \cup [cmd : {"go"}, pos : Positions,
              bounded : BOOLEAN, infinite : BOOLEAN, ponder : BOOLEAN]

VARIABLES
    pipe, closed,       \* what the GUI has written; whether it closed its end
    sent, gui_position, \* the GUI's own state
    buffer,             \* lines in the stdio buffer
    input_eof, exited,  \* the main loop
    job,                \* the search job, or NoJob
    position,           \* application->position
    goes, answered      \* the go lines processed; the last one answered

gui == <<closed, sent, gui_position>>
input == <<pipe, buffer>>
vars == <<pipe, buffer, gui, input_eof, exited, job, position, goes, answered>>

\* A job that search_is_done says is done, that search_is_pondering says is
\* pondering, and so on; asked is the position the GUI meant.
Job == [id : Nat, bounded : BOOLEAN, infinite : BOOLEAN, pondering : BOOLEAN,
        done : BOOLEAN, position : Positions, asked : Positions]
NoJob == [id |-> 0]

Init ==
    /\ pipe = <<>> /\ closed = FALSE /\ sent = 0 /\ gui_position = StartPos
    /\ buffer = <<>> /\ input_eof = FALSE /\ exited = FALSE
    /\ job = NoJob /\ position = StartPos /\ goes = 0 /\ answered = 0

-----------------------------------------------------------------------------

(***************************************************************************)
(* The GUI.                                                                *)
(***************************************************************************)

\* It sends any line at any time, and keeps in mind the position that the
\* last valid position or usinewgame set.
Send(line) ==
    /\ ~closed /\ sent < MaxLines
    /\ Bursts \/ (pipe = <<>> /\ buffer = <<>>)
    /\ line.pos = IF line.cmd \in {"position", "usinewgame"} THEN line.pos ELSE gui_position
    /\ line.cmd = "usinewgame" => line.pos = StartPos
    /\ pipe' = Append(pipe, line)
    /\ sent' = sent + 1
    /\ gui_position' = line.pos
    /\ UNCHANGED <<buffer, closed, input_eof, exited, job, position, goes, answered>>

\* It closes its end of the pipe.
Close ==
    /\ ~closed
    /\ closed' = TRUE
    /\ UNCHANGED <<pipe, buffer, sent, gui_position, input_eof, exited, job, position, goes, answered>>

-----------------------------------------------------------------------------

(***************************************************************************)
(* The search, behind search_is_done.                                      *)
(***************************************************************************)

\* A search ends by itself at a node or depth limit, or when its root has no
\* move; otherwise by its deadline, which it has unless it is infinite or
\* pondering.
EndsByItself == job.bounded \/ (~job.infinite /\ ~job.pondering)

SearchEnds ==
    /\ job # NoJob /\ ~job.done /\ EndsByItself
    /\ job' = [job EXCEPT !.done = TRUE]
    /\ UNCHANGED <<input, gui, input_eof, exited, position, goes, answered>>

-----------------------------------------------------------------------------

(***************************************************************************)
(* The engine's main thread.                                               *)
(***************************************************************************)

\* finish_job: stop, join, destroy; emit says whether a bestmove is printed.
FinishJob(emit) ==
    /\ job' = NoJob
    /\ answered' = IF emit /\ job # NoJob THEN job.id ELSE answered

\* process_line of a go: what ran is given up, whatever follows.
ProcessGo(line) ==
    /\ goes' = goes + 1
    /\ IF line.cmd = "go malformed"
       THEN job' = NoJob /\ answered' = goes + 1
       ELSE \/ /\ job' = [id |-> goes + 1, bounded |-> line.bounded,
                          infinite |-> line.infinite, pondering |-> line.ponder,
                          done |-> FALSE, position |-> position, asked |-> line.pos]
               /\ UNCHANGED answered
            \/ job' = NoJob /\ answered' = goes + 1     \* search_start fails
    /\ UNCHANGED <<position, exited>>

\* Bug: the new position is built in place, so an invalid line leaves half
\* of it behind; any position may come out.
Bug_ProcessInPlace(line) ==
    /\ line.cmd \in {"position", "position invalid", "usinewgame"}
    /\ FinishJob(FALSE)
    /\ IF line.cmd = "position invalid" THEN position' \in Positions ELSE position' = line.pos
    /\ UNCHANGED <<goes, exited>>

\* process_line of the lines that set the position: only a valid one does.
ProcessPosition(line) ==
    /\ line.cmd \in {"position", "position invalid", "usinewgame"}
    /\ FinishJob(FALSE)
    /\ position' = IF line.cmd = "position invalid" THEN position ELSE line.pos
    /\ UNCHANGED <<goes, exited>>

\* search_ponderhit
ProcessPonderHit(line) ==
    /\ line.cmd = "ponderhit"
    /\ job' = IF job = NoJob THEN job ELSE [job EXCEPT !.pondering = FALSE]
    /\ UNCHANGED <<position, goes, answered, exited>>

\* Bug: a stop that comes too late is answered all the same.
Bug_StopAlwaysAnswers(line) ==
    /\ line.cmd = "stop"
    /\ job' = NoJob /\ answered' = goes
    /\ UNCHANGED <<position, goes, exited>>

\* process_line of a stop: the only line that asks for a bestmove.
ProcessStop(line) ==
    /\ line.cmd = "stop"
    /\ FinishJob(TRUE)
    /\ UNCHANGED <<position, goes, exited>>

\* process_line of the rest.
ProcessOther(line) ==
    \/ /\ line.cmd \in {"query", "quit"}
       /\ FinishJob(FALSE)
       /\ exited' = (line.cmd = "quit")
       /\ UNCHANGED <<position, goes>>
    \/ /\ line.cmd = "noise"
       /\ UNCHANGED <<job, position, goes, answered, exited>>

ProcessLine(line) ==
    \/ line.cmd \in {"go", "go malformed"} /\ ProcessGo(line)
    \/ ProcessPosition(line) \/ ProcessPonderHit(line) \/ ProcessStop(line) \/ ProcessOther(line)

\* read_command_line when there is a line to be had: fgets fills its buffer
\* with all the pipe holds only when it has run empty.
Lines == buffer \o pipe

ReadAndProcess ==
    /\ Lines # <<>>
    /\ IF buffer # <<>> THEN buffer' = Tail(buffer) /\ UNCHANGED pipe
                        ELSE buffer' = Tail(pipe) /\ pipe' = <<>>
    /\ ProcessLine(Head(Lines))
    /\ UNCHANGED <<gui, input_eof>>

\* Without a job the loop blocks in fgets; at the end of the input it ends.
IdleRound ==
    /\ ~exited /\ job = NoJob
    /\ \/ ~input_eof /\ ReadAndProcess
       \/ /\ input_eof \/ (closed /\ Lines = <<>>)
          /\ exited' = TRUE
          /\ UNCHANGED <<input, gui, input_eof, job, position, goes, answered>>

\* A job that is done is answered before anything is read.
ReportDone ==
    /\ ~exited /\ job # NoJob /\ job.done
    /\ FinishJob(TRUE)
    /\ UNCHANGED <<input, gui, input_eof, exited, position, goes>>

\* While the job runs a line is read when poll finds the pipe readable.  (The
\* job may get done between the test and the poll.)
SearchingRead ==
    /\ ~exited /\ job # NoJob /\ ~input_eof /\ (pipe # <<>> \/ closed)
    /\ ReadAndProcess

\* The end of the input: a search that would wait for a stop is ended with
\* its bestmove, another one runs on to its end.
SearchingEof ==
    /\ ~exited /\ job # NoJob /\ ~input_eof /\ closed /\ Lines = <<>>
    /\ input_eof' = TRUE
    /\ IF job.infinite \/ job.pondering THEN FinishJob(TRUE) ELSE UNCHANGED <<job, answered>>
    /\ UNCHANGED <<input, gui, exited, position, goes>>

\* poll fails other than by an interrupt.
PollFails ==
    /\ ~exited /\ job # NoJob
    /\ FinishJob(TRUE)
    /\ exited' = TRUE
    /\ UNCHANGED <<input, gui, input_eof, position, goes>>

MainLoop == IdleRound \/ ReportDone \/ SearchingRead \/ SearchingEof

Next ==
    \/ \E line \in Line : Send(line)
    \/ Close \/ SearchEnds \/ MainLoop \/ PollFails

Spec == Init /\ [][Next]_vars

\* The main loop keeps turning, and a search that ends by itself does end.
\* The GUI need not send or close anything.
Fairness ==
    /\ WF_vars(IdleRound) /\ WF_vars(ReportDone)
    /\ WF_vars(SearchingRead) /\ WF_vars(SearchingEof)
    /\ WF_vars(SearchEnds)

FairSpec == Spec /\ Fairness

-----------------------------------------------------------------------------

TypeOK ==
    /\ pipe \in Seq(Line) /\ buffer \in Seq(Line)
    /\ closed \in BOOLEAN /\ sent \in 0 .. MaxLines /\ gui_position \in Positions
    /\ input_eof \in BOOLEAN /\ exited \in BOOLEAN
    /\ job \in Job \cup {NoJob}
    /\ position \in Positions
    /\ goes \in Nat /\ answered \in Nat

\* The engine searches the position the GUI had in mind when it sent the go,
\* whatever valid, invalid and late lines came before, and never keeps a
\* search of a position that has been replaced.
SearchedAsAsked ==
    job # NoJob => job.position = job.asked /\ job.position = position

\* A bestmove answers the latest go and answers it once.
AnswersLatestGo ==
    job # NoJob => job.id = goes /\ answered < goes

\* What both rest on: each line in flight carries the position that the
\* lines before it set, the last one the position of the GUI.
Setting == {"position", "usinewgame"}
GuiKnowsPosition ==
    /\ \A i \in 1 .. Len(Lines) :
          Lines[i].cmd \notin Setting =>
              Lines[i].pos = IF i = 1 THEN position ELSE Lines[i - 1].pos
    /\ gui_position = IF Lines = <<>> THEN position ELSE Lines[Len(Lines)].pos

\* and no go is answered that was not taken up.
AnsweredWasTakenUp == answered =< goes

IInv == TypeOK /\ SearchedAsAsked /\ AnswersLatestGo /\ GuiKnowsPosition /\ AnsweredWasTakenUp

\* The engine keeps the contract of UsiContract.
Contract == INSTANCE UsiContract WITH open <- job.id
KeepsContract == Contract!Spec

\* A stop that has been sent ends the search that runs.
StopWaits == \E i \in 1 .. Len(Lines) : Lines[i].cmd = "stop"
StopIsObeyed == (StopWaits /\ job # NoJob) ~> (job = NoJob)

=============================================================================
