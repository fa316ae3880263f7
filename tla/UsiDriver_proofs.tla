-------------------------- MODULE UsiDriver_proofs --------------------------
(***************************************************************************)
(* The command loop searches what it was asked, answers the latest go, and *)
(* implements UsiContract, for every set of positions and any number of    *)
(* lines.                                                                  *)
(***************************************************************************)
EXTENDS UsiDriver, SequenceTheorems, TLAPS

USE UsiDriverAssumption

\* What a line is made of.
LEMMA LineFields ==
    ASSUME NEW line \in Line
    PROVE  /\ line.pos \in Positions
           /\ line.cmd = "go" => /\ line.bounded \in BOOLEAN
                                 /\ line.infinite \in BOOLEAN
                                 /\ line.ponder \in BOOLEAN
BY DEF Line, Plain

\* Reading takes the first of the lines in flight, wherever it is.
LEMMA ReadTakesTheFirst ==
    ASSUME TypeOK, ReadAndProcess
    PROVE  /\ Lines \in Seq(Line) /\ Lines # <<>> /\ Head(Lines) \in Line
           /\ Lines' = Tail(Lines)
           /\ pipe' \in Seq(Line) /\ buffer' \in Seq(Line)
<1>1. /\ pipe \in Seq(Line) /\ buffer \in Seq(Line)
      /\ Lines \in Seq(Line) /\ Lines # <<>>
  BY ConcatProperties DEF TypeOK, Lines, ReadAndProcess
<1>2. Head(Lines) \in Line
  BY <1>1, HeadTailProperties
<1>3. CASE buffer # <<>>
  <2>1. buffer' = Tail(buffer) /\ pipe' = pipe
    BY <1>3 DEF ReadAndProcess
  <2>2. Tail(buffer) \in Seq(Line) /\ Len(buffer) \in Nat \ {0}
    BY <1>1, <1>3, HeadTailProperties, EmptySeq
  <2>3. Tail(buffer) \o pipe \in Seq(Line) /\ Tail(buffer \o pipe) \in Seq(Line)
    BY <1>1, <2>2, ConcatProperties, HeadTailProperties DEF Lines
  <2>4. Len(Tail(buffer) \o pipe) = Len(Tail(buffer \o pipe))
    <3>1. Len(Tail(buffer) \o pipe) = Len(buffer) - 1 + Len(pipe)
      BY <1>1, <1>3, <2>2, ConcatProperties, HeadTailProperties
    <3>2. Len(Tail(buffer \o pipe)) = Len(buffer) + Len(pipe) - 1
      BY <1>1, ConcatProperties, HeadTailProperties DEF Lines
    <3>. QED BY <1>1, <2>2, <3>1, <3>2, LenProperties
  <2>5. \A i \in 1 .. Len(Tail(buffer) \o pipe) :
           (Tail(buffer) \o pipe)[i] = Tail(buffer \o pipe)[i]
    BY <1>1, <1>3, <2>2, <2>3, <2>4 DEF Lines
  <2>. QED BY <1>1, <1>2, <2>1, <2>2, <2>3, <2>4, <2>5, SeqEqual DEF Lines
<1>4. CASE buffer = <<>>
  <2>1. buffer' = Tail(pipe) /\ pipe' = <<>> /\ Lines = pipe
    BY <1>1, <1>4, ConcatEmptySeq DEF ReadAndProcess, Lines
  <2>2. Tail(pipe) \in Seq(Line) /\ <<>> \in Seq(Line)
    BY <1>1, <2>1, HeadTailProperties, EmptySeq
  <2>3. Lines' = Tail(pipe)
    BY <2>1, <2>2, ConcatEmptySeq DEF Lines
  <2>. QED BY <1>1, <1>2, <2>1, <2>2, <2>3
<1>. QED BY <1>3, <1>4

\* The bookkeeping of a line: types, the position it sets, the numbers.
LEMMA LineIsTakenUp ==
    ASSUME TypeOK, SearchedAsAsked, AnswersLatestGo, AnsweredWasTakenUp,
           NEW line \in Line, ProcessLine(line),
           line.cmd \notin Setting => line.pos = position
    PROVE  /\ job' \in Job \cup {NoJob} /\ position' \in Positions
           /\ goes' \in Nat /\ answered' \in Nat
           /\ exited' \in BOOLEAN
           /\ position' = IF line.cmd \in Setting THEN line.pos ELSE position
           /\ SearchedAsAsked' /\ AnswersLatestGo' /\ AnsweredWasTakenUp'
           /\ [Contract!Next]_(Contract!cvars)
<1>. DEFINE Kept == /\ job' \in Job \cup {NoJob} /\ position' \in Positions
                    /\ goes' \in Nat /\ answered' \in Nat /\ exited' \in BOOLEAN
            Placed == position' = IF line.cmd \in Setting THEN line.pos ELSE position
            Safe == SearchedAsAsked' /\ AnswersLatestGo' /\ AnsweredWasTakenUp'
            Steps == [Contract!Next]_(Contract!cvars)
<1>. USE DEF SearchedAsAsked, AnswersLatestGo, AnsweredWasTakenUp, Setting
<1>0. /\ job \in Job \cup {NoJob} /\ position \in Positions
      /\ goes \in Nat /\ answered \in Nat /\ exited \in BOOLEAN
      /\ job = NoJob \/ (job.id = goes /\ answered < goes)
      /\ NoJob.id = 0
      /\ line.pos \in Positions
  BY LineFields DEF TypeOK, NoJob
<1>1. ASSUME NEW emit \in BOOLEAN, FinishJob(emit), goes' = goes
      PROVE  /\ job' = NoJob /\ answered' \in Nat /\ answered' =< goes'
             /\ Steps
  BY <1>0, <1>1 DEF FinishJob, Contract!Next, Contract!cvars, Contract!Answer, Contract!GiveUp, NoJob
<1>2. CASE ProcessGo(line) /\ line.cmd \in {"go", "go malformed"}
  <2>1. CASE job' = NoJob /\ answered' = goes + 1
    <3>1. goes' = goes + 1 /\ position' = position /\ exited' = exited
      BY <1>2 DEF ProcessGo
    <3>2. Contract!Refuse
      BY <1>0, <2>1, <3>1 DEF Contract!Refuse
    <3>3. Kept /\ Safe
      BY <1>0, <2>1, <3>1
    <3>4. Placed
      BY <1>2, <3>1
    <3>5. Steps
      BY <3>2 DEF Contract!Next
    <3>. QED BY <3>3, <3>4, <3>5
  <2>2. CASE /\ line.cmd = "go" /\ UNCHANGED answered
             /\ job' = [id |-> goes + 1, bounded |-> line.bounded,
                        infinite |-> line.infinite, pondering |-> line.ponder,
                        done |-> FALSE, position |-> position, asked |-> line.pos]
    <3>1. job' \in Job /\ job'.id = goes + 1 /\ job'.position = position /\ job'.asked = line.pos
      BY <1>0, <2>2, LineFields DEF Job
    <3>2. goes' = goes + 1 /\ position' = position /\ exited' = exited
      BY <1>2 DEF ProcessGo
    <3>3. line.pos = position
      BY <2>2
    <3>. QED BY <1>0, <2>2, <3>1, <3>2, <3>3 DEF Contract!Next, Contract!Go, Contract!cvars
  <2>. QED BY <1>2, <2>1, <2>2 DEF ProcessGo
<1>3. CASE ProcessPosition(line)
  <2>1. FinishJob(FALSE) /\ goes' = goes /\ exited' = exited
    BY <1>3 DEF ProcessPosition
  <2>2. position' = IF line.cmd = "position invalid" THEN position ELSE line.pos
    BY <1>3 DEF ProcessPosition
  <2>3. Placed
    BY <1>3, <2>2 DEF ProcessPosition
  <2>. QED BY <1>0, <1>1, <2>1, <2>2, <2>3
<1>4. CASE ProcessPonderHit(line)
  <2>1. /\ line.cmd = "ponderhit"
        /\ UNCHANGED <<position, goes, answered, exited>>
        /\ job' = IF job = NoJob THEN job ELSE [job EXCEPT !.pondering = FALSE]
    BY <1>4 DEF ProcessPonderHit
  <2>2. CASE job = NoJob
    BY <1>0, <2>1, <2>2 DEF Contract!cvars
  <2>3. CASE job # NoJob
    <3>1. job \in Job
      BY <1>0, <2>3
    <3>2. /\ job' \in Job /\ job'.id = job.id
          /\ job'.position = job.position /\ job'.asked = job.asked
      BY <2>1, <2>3, <3>1 DEF Job
    <3>. QED BY <1>0, <2>1, <2>3, <3>2 DEF Contract!cvars
  <2>. QED BY <2>2, <2>3
<1>5. CASE ProcessStop(line)
  <2>1. FinishJob(TRUE) /\ UNCHANGED <<position, goes, exited>> /\ line.cmd = "stop"
    BY <1>5 DEF ProcessStop
  <2>. QED BY <1>0, <1>1, <2>1
<1>6. CASE ProcessOther(line)
  <2>1. CASE line.cmd = "noise" /\ UNCHANGED <<job, position, goes, answered, exited>>
    BY <1>0, <2>1 DEF Contract!cvars
  <2>2. CASE /\ line.cmd \in {"query", "quit"} /\ FinishJob(FALSE)
             /\ exited' = (line.cmd = "quit") /\ UNCHANGED <<position, goes>>
    BY <1>0, <1>1, <2>2
  <2>. QED BY <1>6, <2>1, <2>2 DEF ProcessOther
<1>. QED BY <1>2, <1>3, <1>4, <1>5, <1>6 DEF ProcessLine

\* A line that is read keeps the invariant and the contract.
LEMMA ReadAndProcessKeeps ==
    ASSUME IInv, ReadAndProcess
    PROVE  IInv' /\ [Contract!Next]_(Contract!cvars)
<1>. DEFINE line == Head(Lines)
<1>1. /\ Lines \in Seq(Line) /\ Lines # <<>> /\ line \in Line
      /\ Lines' = Tail(Lines) /\ pipe' \in Seq(Line) /\ buffer' \in Seq(Line)
      /\ UNCHANGED <<gui, input_eof>> /\ ProcessLine(line)
  BY ReadTakesTheFirst DEF IInv, ReadAndProcess
<1>2. /\ Len(Lines) \in Nat \ {0} /\ line = Lines[1]
      /\ Tail(Lines) \in Seq(Line) /\ Len(Tail(Lines)) = Len(Lines) - 1
      /\ \A i \in 1 .. Len(Tail(Lines)) : Tail(Lines)[i] = Lines[i + 1]
  BY <1>1, HeadTailProperties, EmptySeq
<1>3. line.cmd \notin Setting => line.pos = position
  BY <1>2 DEF IInv, GuiKnowsPosition
<1>4. /\ job' \in Job \cup {NoJob} /\ position' \in Positions
      /\ goes' \in Nat /\ answered' \in Nat /\ exited' \in BOOLEAN
      /\ position' = IF line.cmd \in Setting THEN line.pos ELSE position
      /\ SearchedAsAsked' /\ AnswersLatestGo' /\ AnsweredWasTakenUp'
      /\ [Contract!Next]_(Contract!cvars)
  <2>. HIDE DEF line
  <2>. QED BY <1>1, <1>3, LineIsTakenUp DEF IInv
<1>5. TypeOK'
  BY <1>1, <1>4 DEF IInv, TypeOK, gui
<1>6. GuiKnowsPosition'
  <2>1. position' = line.pos
    BY <1>3, <1>4
  <2>2. gui_position' = gui_position
    BY <1>1 DEF gui
  <2>3. ASSUME NEW i \in 1 .. Len(Lines'), Lines'[i].cmd \notin Setting
        PROVE  Lines'[i].pos = IF i = 1 THEN position' ELSE Lines'[i - 1].pos
    <3>1. Lines'[i] = Lines[i + 1] /\ i + 1 \in 1 .. Len(Lines) /\ i + 1 # 1
      BY <1>1, <1>2, <2>3
    <3>2. Lines'[i].pos = Lines[(i + 1) - 1].pos
      BY <2>3, <3>1 DEF IInv, GuiKnowsPosition
    <3>3. CASE i = 1
      BY <1>2, <2>1, <3>2, <3>3
    <3>4. CASE i # 1
      <4>1. i - 1 \in 1 .. Len(Tail(Lines))
        BY <1>1, <2>3, <3>4, <1>2
      <4>. QED BY <1>1, <1>2, <3>2, <3>4, <4>1
    <3>. QED BY <3>3, <3>4
  <2>4. gui_position' = IF Lines' = <<>> THEN position' ELSE Lines'[Len(Lines')].pos
    <3>1. gui_position = Lines[Len(Lines)].pos
      BY <1>1 DEF IInv, GuiKnowsPosition
    <3>2. CASE Lines' = <<>>
      <4>1. Len(Lines) = 1
        <5>1. Len(Tail(Lines)) = 0
          BY <1>1, <3>2, EmptySeq
        <5>2. Len(Lines) - 1 = 0 /\ Len(Lines) \in Nat
          BY <1>2, <5>1
        <5>. QED BY <5>2
      <4>. QED BY <1>2, <2>1, <2>2, <3>1, <3>2, <4>1
    <3>3. CASE Lines' # <<>>
      <4>1. Len(Lines') \in 1 .. Len(Tail(Lines)) /\ Len(Lines') = Len(Lines) - 1
        BY <1>1, <1>2, <3>3, EmptySeq
      <4>2. Lines'[Len(Lines')] = Lines[Len(Lines)]
        BY <1>1, <1>2, <4>1
      <4>. QED BY <2>2, <3>1, <3>3, <4>2
    <3>. QED BY <3>2, <3>3
  <2>. QED BY <2>3, <2>4 DEF GuiKnowsPosition
<1>. QED BY <1>4, <1>5, <1>6 DEF IInv

\* A line of the GUI goes to the end of the lines in flight.
LEMMA SendKeeps ==
    ASSUME IInv, NEW line \in Line, Send(line)
    PROVE  IInv' /\ UNCHANGED Contract!cvars
<1>1. /\ pipe \in Seq(Line) /\ buffer \in Seq(Line) /\ Lines \in Seq(Line)
      /\ pipe' = Append(pipe, line) /\ buffer' = buffer /\ pipe' \in Seq(Line)
      /\ Len(Lines) \in Nat
  BY ConcatProperties, AppendProperties, LenProperties DEF IInv, TypeOK, Send, Lines
<1>2. Lines' = Append(Lines, line)
  <2>1. /\ <<line>> \in Seq(Line) /\ pipe' = pipe \o <<line>>
        /\ Append(Lines, line) = Lines \o <<line>>
    BY <1>1, AppendIsConcat
  <2>. QED BY <1>1, <2>1, ConcatAssociative DEF Lines
<1>3. /\ Len(Lines') = Len(Lines) + 1 /\ Lines' # <<>>
      /\ Lines'[Len(Lines) + 1] = line
      /\ \A i \in 1 .. Len(Lines) : Lines'[i] = Lines[i]
  BY <1>1, <1>2, AppendProperties
<1>4. /\ UNCHANGED <<closed, input_eof, exited, job, position, goes, answered>>
      /\ gui_position' = line.pos /\ line.pos \in Positions
      /\ sent' \in 0 .. MaxLines
      /\ line.cmd \notin Setting => line.pos = gui_position
  BY LineFields DEF IInv, TypeOK, Send, Setting
<1>5. TypeOK'
  BY <1>1, <1>4 DEF IInv, TypeOK
<1>6. SearchedAsAsked' /\ AnswersLatestGo' /\ AnsweredWasTakenUp' /\ UNCHANGED Contract!cvars
  BY <1>4 DEF IInv, SearchedAsAsked, AnswersLatestGo, AnsweredWasTakenUp, Contract!cvars
<1>7. GuiKnowsPosition'
  <2>1. ASSUME NEW i \in 1 .. Len(Lines'), Lines'[i].cmd \notin Setting
        PROVE  Lines'[i].pos = IF i = 1 THEN position' ELSE Lines'[i - 1].pos
    <3>1. CASE i \in 1 .. Len(Lines)
      <4>1. Lines'[i] = Lines[i] /\ (i # 1 => Lines'[i - 1] = Lines[i - 1])
        <5>1. i # 1 => i - 1 \in 1 .. Len(Lines)
          BY <1>1, <3>1
        <5>. QED BY <1>3, <3>1, <5>1
      <4>. QED BY <1>4, <2>1, <3>1, <4>1 DEF IInv, GuiKnowsPosition
    <3>2. CASE i = Len(Lines) + 1
      <4>1. Lines'[i].pos = gui_position
        BY <1>3, <1>4, <2>1, <3>2
      <4>2. CASE Lines = <<>>
        BY <1>4, <3>2, <4>1, <4>2, EmptySeq DEF IInv, GuiKnowsPosition
      <4>3. CASE Lines # <<>>
        <5>1. Len(Lines) \in 1 .. Len(Lines) /\ i # 1 /\ i - 1 = Len(Lines)
          BY <1>1, <3>2, <4>3, EmptySeq
        <5>. QED BY <1>3, <4>1, <4>3, <5>1 DEF IInv, GuiKnowsPosition
      <4>. QED BY <4>2, <4>3
    <3>. QED BY <1>1, <1>3, <3>1, <3>2
  <2>. QED BY <1>3, <1>4, <2>1 DEF GuiKnowsPosition
<1>. QED BY <1>5, <1>6, <1>7 DEF IInv

\* A step that touches neither the lines nor the position.
LEMMA QuietStepKeeps ==
    ASSUME IInv, UNCHANGED <<pipe, buffer, sent, gui_position, position, goes>>,
           closed' \in BOOLEAN, input_eof' \in BOOLEAN, exited' \in BOOLEAN,
           \/ UNCHANGED <<job, answered>>
           \/ job # NoJob /\ ~job.done /\ job' = [job EXCEPT !.done = TRUE] /\ answered' = answered
           \/ FinishJob(TRUE)
    PROVE  IInv' /\ [Contract!Next]_(Contract!cvars)
<1>1. /\ job \in Job \cup {NoJob} /\ goes \in Nat /\ answered \in Nat /\ answered =< goes
      /\ job # NoJob => job.id = goes /\ answered < goes
                        /\ job.position = job.asked /\ job.position = position
      /\ NoJob.id = 0
  BY DEF IInv, TypeOK, SearchedAsAsked, AnswersLatestGo, AnsweredWasTakenUp, NoJob
<1>2. GuiKnowsPosition'
  <2>1. Lines' = Lines
    BY DEF Lines
  <2>. QED BY <2>1 DEF IInv, GuiKnowsPosition
<1>3. /\ job' \in Job \cup {NoJob} /\ answered' \in Nat
      /\ SearchedAsAsked' /\ AnswersLatestGo' /\ AnsweredWasTakenUp'
      /\ [Contract!Next]_(Contract!cvars)
  <2>. USE DEF SearchedAsAsked, AnswersLatestGo, AnsweredWasTakenUp
  <2>1. CASE UNCHANGED <<job, answered>>
    BY <1>1, <2>1 DEF Contract!cvars
  <2>2. CASE job # NoJob /\ ~job.done /\ job' = [job EXCEPT !.done = TRUE] /\ answered' = answered
    <3>1. job \in Job
      BY <1>1, <2>2
    <3>2. /\ job' \in Job /\ job'.id = job.id
          /\ job'.position = job.position /\ job'.asked = job.asked
      BY <2>2, <3>1 DEF Job
    <3>. QED BY <1>1, <2>2, <3>2 DEF Contract!cvars
  <2>3. CASE FinishJob(TRUE)
    BY <1>1, <2>3 DEF FinishJob, Contract!Next, Contract!cvars, Contract!Answer
  <2>. QED BY <2>1, <2>2, <2>3
<1>4. TypeOK'
  BY <1>3 DEF IInv, TypeOK
<1>. QED BY <1>2, <1>3, <1>4 DEF IInv

LEMMA InitEstablishes ==
    Init => IInv /\ Contract!Init
<1>1. <<>> \in Seq(Line) /\ Len(<<>>) = 0 /\ <<>> \o <<>> = <<>>
  BY EmptySeq, ConcatEmptySeq
<1>2. ASSUME Init PROVE IInv /\ Contract!Init
  <2>1. Lines = <<>>
    BY <1>1, <1>2 DEF Init, Lines
  <2>2. TypeOK
    <3>1. /\ pipe \in Seq(Line) /\ buffer \in Seq(Line)
          /\ job \in Job \cup {NoJob}
      BY <1>1, <1>2 DEF Init
    <3>2. /\ sent \in 0 .. MaxLines /\ gui_position \in Positions /\ position \in Positions
          /\ goes \in Nat /\ answered \in Nat
      BY <1>2 DEF Init, UsiDriverAssumption
    <3>3. closed \in BOOLEAN /\ input_eof \in BOOLEAN /\ exited \in BOOLEAN
      BY <1>2 DEF Init
    <3>. QED BY <3>1, <3>2, <3>3 DEF TypeOK
  <2>3. SearchedAsAsked /\ AnswersLatestGo /\ AnsweredWasTakenUp
    BY <1>2 DEF Init, SearchedAsAsked, AnswersLatestGo, AnsweredWasTakenUp
  <2>4. GuiKnowsPosition
    BY <1>1, <1>2, <2>1 DEF Init, GuiKnowsPosition
  <2>5. Contract!Init
    BY <1>2 DEF Init, NoJob, Contract!Init
  <2>. QED BY <2>2, <2>3, <2>4, <2>5 DEF IInv
<1>. QED BY <1>2

LEMMA StepPreserves ==
    IInv /\ [Next]_vars => IInv' /\ [Contract!Next]_(Contract!cvars)
<1>. SUFFICES ASSUME IInv, [Next]_vars
              PROVE  IInv' /\ [Contract!Next]_(Contract!cvars)
  OBVIOUS
<1>0. closed \in BOOLEAN /\ input_eof \in BOOLEAN /\ exited \in BOOLEAN
  BY DEF IInv, TypeOK
<1>1. ASSUME NEW line \in Line, Send(line) PROVE IInv' /\ [Contract!Next]_(Contract!cvars)
  BY <1>1, SendKeeps
<1>2. CASE Close
  BY <1>0, <1>2, QuietStepKeeps DEF Close
<1>3. CASE SearchEnds
  BY <1>0, <1>3, QuietStepKeeps DEF SearchEnds, input, gui
<1>4. CASE IdleRound
  <2>1. CASE ReadAndProcess
    BY <2>1, ReadAndProcessKeeps
  <2>2. CASE exited' = TRUE /\ UNCHANGED <<input, gui, input_eof, job, position, goes, answered>>
    BY <1>0, <2>2, QuietStepKeeps DEF input, gui
  <2>. QED BY <1>4, <2>1, <2>2 DEF IdleRound
<1>5. CASE ReportDone
  BY <1>0, <1>5, QuietStepKeeps DEF ReportDone, input, gui
<1>6. CASE SearchingRead
  BY <1>6, ReadAndProcessKeeps DEF SearchingRead
<1>7. CASE SearchingEof
  BY <1>0, <1>7, QuietStepKeeps DEF SearchingEof, input, gui
<1>8. CASE PollFails
  BY <1>0, <1>8, QuietStepKeeps DEF PollFails, input, gui
<1>9. CASE UNCHANGED vars
  BY <1>0, <1>9, QuietStepKeeps DEF vars, gui
<1>. QED BY <1>1, <1>2, <1>3, <1>4, <1>5, <1>6, <1>7, <1>8, <1>9 DEF Next, MainLoop

\* The inductive invariant holds in every reachable state of the command loop.
THEOREM Invariance == Spec => []IInv
<1>1. Init => IInv
  BY InitEstablishes
<1>2. IInv /\ [Next]_vars => IInv'
  BY StepPreserves
<1>. QED BY <1>1, <1>2, PTL DEF Spec

\* finish_job and set_position_command: a search that runs searches the
\* position that the GUI meant with its go, and no other is current.
THEOREM SearchesWhatWasAsked == Spec => []SearchedAsAsked
<1>1. IInv => SearchedAsAsked
  BY DEF IInv
<1>. QED BY <1>1, Invariance, PTL

\* process_line: the search that runs belongs to the latest go, which has no
\* bestmove yet.
THEOREM LatestGoIsSearched == Spec => []AnswersLatestGo
<1>1. IInv => AnswersLatestGo
  BY DEF IInv
<1>. QED BY <1>1, Invariance, PTL

\* The command loop implements the contract: every go gets one bestmove at
\* the most, and none after it was given up.
THEOREM DriverImplementsContract == Spec => KeepsContract
<1>1. Init => Contract!Init
  BY InitEstablishes
<1>2. IInv /\ [Next]_vars => [Contract!Next]_(Contract!cvars)
  BY StepPreserves
<1>. QED BY <1>1, <1>2, Invariance, PTL DEF Spec, KeepsContract, Contract!Spec

=============================================================================
