------------------------------ MODULE WebGame ------------------------------
(***************************************************************************)
(* The browser game: web/web_api.c (one position with its undo and redo    *)
(* stacks), web/app.js (the page), web/engine-worker.js (the engine in a   *)
(* worker of its own) and the life of the WebGPU evaluators                *)
(* (web/nnue-webgpu.js).                                                   *)
(*                                                                         *)
(* The page is single-threaded: a handler runs to its end or to its next   *)
(* await, so one action is one handler, or one stretch of an asynchronous  *)
(* one.  Between two of them the user may do anything the page allows.     *)
(* A position stands for its SFEN, which names the board, the hands, the   *)
(* side to move and the move number; a move is its USI name, and the       *)
(* verdict is taken as a function of the position.                         *)
(***************************************************************************)
EXTENDS Integers, Sequences, SequencesExt

CONSTANTS Positions, Moves,
          Legal,      \* the legal moves of a position, in generation order
          After,      \* After[<<p, m>>]: the position m leads to
          Side,       \* the side to move, 0 or 1
          EngineSides,  \* what the engine-side control offers: NONE, 0, 1
          Over,       \* the positions whose game has a result
          Start, Loadable,
          Pairs,      \* index pairs that only differ in promotion
          MaxUndo,    \* WEB_MAX_UNDO
          Models,     \* the evaluators the user may load
          NONE

ASSUME WebAssumption ==
  /\ Start \in Positions /\ Loadable \subseteq Positions
  /\ Legal \in [Positions -> Seq(Moves)]
  /\ \A p \in Positions : \A i \in DOMAIN Legal[p] :
       After[<<p, Legal[p][i]>>] \in Positions
  /\ MaxUndo \in Nat \ {0}

Requests == [position : Positions, evaluator : Models, latest : BOOLEAN]
ASSUME NoneAssumption == NONE \notin Requests

VARIABLES game,    \* the web API's statics
          shown,   \* the moves the click handlers of the last render hold
          dialog,  \* pendingPromotion: the candidates of the open dialog
          engine,  \* engineBusy, engineSearchSfen and the engine's side
          worker,  \* the engine worker's request or answer under way
          nnue,    \* the asynchronous "NNUE move" handler
          eval,    \* gpuNnue, nnueScore and the evaluation queue
          loads    \* model loads under way, with the evaluator they replace
vars == <<game, shown, dialog, engine, worker, nnue, eval, loads>>
----------------------------------------------------------------------------
(* web_api.c.  undo holds ShogiUndo records, redo the moves to play again.  *)
NewGame(p) == [board |-> p, root |-> p, undo |-> <<>>, redo |-> <<>>,
               cache |-> NONE]

\* web_prepare_legal_moves: the cached list, made when there is none.
Cached(g) == IF g.cache = NONE THEN [g EXCEPT !.cache = Legal[g.board]] ELSE g
MovesOf(g) == Cached(g).cache

IsLegal(p, m) == \E i \in DOMAIN Legal[p] : Legal[p][i] = m

Made(g, m) ==
  [g EXCEPT !.board = After[<<g.board, m>>],
            !.undo = Append(@, [move |-> m, before |-> g.board]),
            !.cache = NONE]

\* web_play_move, by index into the cached list.
Plays(g, i) == /\ i \in DOMAIN MovesOf(g)
               /\ Len(g.undo) < MaxUndo
               /\ IsLegal(g.board, MovesOf(g)[i])
PlayedKeepingRedo(g, i) ==
  IF Plays(g, i) THEN Made(Cached(g), MovesOf(g)[i]) ELSE Cached(g)
Played(g, i) ==
  IF Plays(g, i) THEN [Made(Cached(g), MovesOf(g)[i]) EXCEPT !.redo = <<>>]
                 ELSE Cached(g)

\* web_play_usi: the index of the move that has this name.
PlayedUsi(g, m) ==
  LET at == {i \in DOMAIN MovesOf(g) : MovesOf(g)[i] = m}
  IN  IF at = {} THEN Cached(g) ELSE Played(g, CHOOSE i \in at : TRUE)

\* web_undo and web_redo; each answers the game it leaves.
TakenBack(g) ==
  [g EXCEPT !.board = Last(g.undo).before,
            !.undo = Front(@),
            !.redo = IF Len(@) < MaxUndo THEN Append(@, Last(g.undo).move) ELSE @]
UndoneKeepingCache(g) == IF g.undo = <<>> THEN g ELSE TakenBack(g)
Undone(g) == IF g.undo = <<>> THEN g ELSE [TakenBack(g) EXCEPT !.cache = NONE]
Redone(g) ==
  IF g.redo = <<>> \/ Len(g.undo) >= MaxUndo \/ ~IsLegal(g.board, Last(g.redo))
  THEN g
  ELSE [Made(g, Last(g.redo)) EXCEPT !.redo = Front(@)]

\* web_timeline_move: the line played, then what redo would play.
Timeline(g) == [i \in DOMAIN g.undo |-> g.undo[i].move] \o Reverse(g.redo)

\* goToPly's two loops: as many undos or redos as the ply is away.
Stepped(g, back) == IF back THEN Undone(g) ELSE Redone(g)
Walked(g, back, n) ==
  LET walk[k \in 0 .. n] == IF k = 0 THEN g ELSE Stepped(walk[k - 1], back)
  IN  walk[n]
JumpedTo(g, ply) ==
  IF ply < Len(g.undo) THEN Walked(g, TRUE, Len(g.undo) - ply)
                       ELSE Walked(g, FALSE, ply - Len(g.undo))
----------------------------------------------------------------------------
(* requestEvaluation and flushEvaluation.  A request is latest while no     *)
(* other was made since: request.serial === evaluationSerial.               *)
Requested(e, p) ==
  LET outdated == [e EXCEPT !.flying = IF @ = NONE THEN NONE
                                       ELSE [@ EXCEPT !.latest = FALSE]]
      request == [position |-> p, evaluator |-> e.evaluator, latest |-> TRUE]
  IN  IF e.evaluator = NONE
      THEN [outdated EXCEPT !.pending = IF @ = NONE THEN NONE
                                        ELSE [@ EXCEPT !.latest = FALSE]]
      ELSE IF e.flying = NONE THEN [outdated EXCEPT !.flying = request]
      ELSE [outdated EXCEPT !.pending = request]

\* The queue goes on with the request that waits, if any.
FlushedOnce(e) == [e EXCEPT !.flying = NONE]
Flushed(e) == [e EXCEPT !.flying = e.pending, !.pending = NONE]

Current(e) == e.flying.latest /\ e.flying.evaluator = e.evaluator

Scored(e) ==
  IF Current(e)
  THEN [e EXCEPT !.score = [position |-> e.flying.position, by |-> e.evaluator]]
  ELSE e

\* evaluate rejects: a current evaluator is given up, an old one ignored.
Failed(e) ==
  IF Current(e)
  THEN [e EXCEPT !.evaluator = NONE, !.score = NONE, !.released = @ \union {e.evaluator}]
  ELSE e
----------------------------------------------------------------------------
(* render(): the handlers of the new squares hold the moves of the board,   *)
(* and an evaluation is asked for.  Both say what the step leaves behind.   *)
Rendered(e) ==
  /\ shown' = MovesOf(game')
  /\ eval' = Requested(e, game'.board)

HasResult(g) == g.board \in Over
EngineTurn(g, side) == ~HasResult(g) /\ side = Side[g.board]
EngineOwnsTurn == engine.busy \/ EngineTurn(game, engine.side)

\* startEngineMove, once its guards hold, and maybeStartEngineMove.
Searching(e) == [e EXCEPT !.busy = TRUE, !.sfen = game'.board]
Post == worker' = [phase |-> "request", position |-> game'.board, move |-> NONE]

\* Render, then start the engine if the turn is its own (which renders again).
RenderAndMaybeStart(e, w) ==
  IF ~e.busy /\ EngineTurn(game', e.side)
  THEN engine' = Searching(e) /\ Post /\ Rendered(Requested(eval, game'.board))
  ELSE engine' = e /\ worker' = w /\ Rendered(eval)

\* An open dialog is modal: the rest of the page takes no clicks.
PageTakesClicks == dialog = <<>>

Idle == [phase |-> "idle", position |-> NONE, move |-> NONE]
Init ==
  /\ game = Cached(NewGame(Start))
  /\ shown = Legal[Start]
  /\ dialog = <<>>
  /\ engine = [busy |-> FALSE, sfen |-> NONE, side |-> NONE]
  /\ worker = Idle
  /\ nnue = NONE
  /\ eval = [evaluator |-> NONE, score |-> NONE, flying |-> NONE,
             pending |-> NONE, released |-> {}]
  /\ loads = [m \in {} |-> NONE]

(* clickSquare on a destination: one candidate is played, two open the      *)
(* promotion dialog.  The candidate comes from the moves of the last        *)
(* render, and is played by its index.                                      *)
ClickMove ==
  /\ PageTakesClicks /\ ~EngineOwnsTurn
  /\ \E i \in DOMAIN shown :
       /\ \A pair \in Pairs[game.board] : i \notin pair
       /\ game' = Cached(Played(game, i))
  /\ RenderAndMaybeStart(engine, worker)
  /\ UNCHANGED <<dialog, nnue, loads>>

OpenPromotion ==
  /\ PageTakesClicks /\ ~EngineOwnsTurn
  /\ \E pair \in Pairs[game.board] :
       /\ pair \subseteq DOMAIN shown
       /\ dialog' = SetToSeq({[index |-> i, move |-> shown[i]] : i \in pair})
  /\ UNCHANGED <<game, shown, engine, worker, nnue, eval, loads>>

\* The dialog's own buttons; playMove is not guarded by engineOwnsTurn.
ChoosePromotion ==
  /\ \E k \in DOMAIN dialog : game' = Cached(Played(game, dialog[k].index))
  /\ dialog' = <<>>
  /\ RenderAndMaybeStart(engine, worker)
  /\ UNCHANGED <<nnue, loads>>

DismissPromotion ==
  /\ dialog # <<>> /\ dialog' = <<>>
  /\ UNCHANGED <<game, shown, engine, worker, nnue, eval, loads>>

(* Ctrl-Z and Ctrl-Shift-Z are heard by the document, modal dialog or not;  *)
(* the buttons do the same.  Neither starts the engine.                     *)
RenderIfMoved(g) ==
  /\ g # game
  /\ game' = Cached(g)
  /\ Rendered(eval)
  /\ UNCHANGED <<dialog, engine, worker, nnue, loads>>
Undo == game.undo # <<>> /\ RenderIfMoved(Undone(game))
Redo == game.redo # <<>> /\ RenderIfMoved(Redone(game))

GoToPly ==
  /\ PageTakesClicks
  /\ \E ply \in 1..Len(Timeline(game)) : game' = Cached(JumpedTo(game, ply))
  /\ Rendered(eval)
  /\ UNCHANGED <<dialog, engine, worker, nnue, loads>>

\* Reset and SFEN import.
Restart ==
  /\ PageTakesClicks
  /\ \E p \in Loadable \union {Start} : game' = Cached(NewGame(p))
  /\ RenderAndMaybeStart(engine, worker)
  /\ UNCHANGED <<dialog, nnue, loads>>

ChooseEngineSide ==
  /\ PageTakesClicks
  /\ \E side \in EngineSides \ {engine.side} :
       /\ game' = Cached(game)
       /\ RenderAndMaybeStart([engine EXCEPT !.side = side], worker)
  /\ UNCHANGED <<dialog, nnue, loads>>

EngineMove ==
  /\ PageTakesClicks /\ ~engine.busy /\ ~HasResult(game)
  /\ game' = Cached(game)
  /\ engine' = Searching(engine) /\ Post
  /\ Rendered(eval)
  /\ UNCHANGED <<dialog, nnue, loads>>

\* Terminating the worker drops what it was asked and what it had posted.
Cancel ==
  /\ PageTakesClicks /\ engine.busy
  /\ engine' = [engine EXCEPT !.busy = FALSE, !.sfen = NONE]
  /\ worker' = Idle
  /\ game' = Cached(game)
  /\ Rendered(eval)
  /\ UNCHANGED <<dialog, nnue, loads>>

(* engine-worker.js and web_engine_move in the worker's own instance: the   *)
(* request's position with no history, a move it played there, or none.     *)
WorkerAnswers ==
  /\ worker.phase = "request"
  /\ \E m \in {Legal[worker.position][i] : i \in DOMAIN Legal[worker.position]}
              \union {NONE} :
       worker' = [worker EXCEPT !.phase = "answer", !.move = m]
  /\ UNCHANGED <<game, shown, dialog, engine, nnue, eval, loads>>

StaleIgnored == FALSE
Stale == engine.sfen # game.board
Freed == [engine EXCEPT !.busy = FALSE, !.sfen = NONE]

\* worker.onmessage
OnMessage ==
  /\ worker.phase = "answer"
  /\ IF Stale
     THEN game' = Cached(game) /\ RenderAndMaybeStart(Freed, Idle)
     ELSE /\ game' = Cached(IF worker.move = NONE THEN game
                            ELSE PlayedUsi(game, worker.move))
          /\ engine' = Freed /\ worker' = Idle /\ Rendered(eval)
  /\ UNCHANGED <<dialog, nnue, loads>>

\* worker.onerror: the worker answered nothing.
OnError ==
  /\ worker.phase = "request"
  /\ engine' = Freed /\ worker' = Idle
  /\ game' = Cached(game) /\ Rendered(eval)
  /\ UNCHANGED <<dialog, nnue, loads>>
----------------------------------------------------------------------------
(* The "NNUE move" handler: one await per legal move, the board and the     *)
(* evaluator compared again before each and after the last.                 *)
NnueStart ==
  /\ PageTakesClicks /\ nnue = NONE /\ eval.evaluator # NONE /\ ~HasResult(game)
  /\ nnue' = [root |-> game.board, by |-> eval.evaluator, moves |-> MovesOf(game)]
  /\ game' = Cached(game)
  /\ Rendered(eval)
  /\ UNCHANGED <<dialog, engine, worker, loads>>

NnueStands == nnue.by = eval.evaluator /\ nnue.root = game.board

\* Its finally: the handler is over and the page rendered.
NnueEnds ==
  /\ nnue' = NONE /\ game' = Cached(game) /\ Rendered(eval)
  /\ UNCHANGED <<engine, worker>>
NnuePlays ==
  /\ \E i \in DOMAIN nnue.moves : game' = Cached(Played(game, i))
  /\ nnue' = NONE
  /\ IF game'.undo # game.undo THEN RenderAndMaybeStart(engine, worker)
     ELSE Rendered(eval) /\ UNCHANGED <<engine, worker>>
\* An evaluation resolves after the last move, before it (the handler waits
\* for the next), or rejects.
NnueResumes ==
  /\ nnue # NONE
  /\ IF NnueStands /\ nnue.moves # <<>> /\ nnue.by \notin eval.released
     THEN NnuePlays \/ NnueEnds
     ELSE NnueEnds
  /\ UNCHANGED <<dialog, loads>>

\* evaluate resolves, or rejects (it always does once the device is gone).
EvaluationResolves ==
  /\ eval.flying # NONE
  /\ \/ eval.flying.evaluator \notin eval.released /\ eval' = Flushed(Scored(eval))
     \/ eval' = Flushed(Failed(eval))
  /\ UNCHANGED <<game, shown, dialog, engine, worker, nnue, loads>>

\* A model file: the evaluator it replaces is noted before the first await.
LoadModel ==
  /\ PageTakesClicks
  /\ \E m \in Models \ (DOMAIN loads \union {eval.evaluator} \union eval.released) :
       loads' = [k \in DOMAIN loads \union {m} |->
                   IF k = m THEN eval.evaluator ELSE loads[k]]
  /\ UNCHANGED <<game, shown, dialog, engine, worker, nnue, eval>>

Without(m) == [k \in DOMAIN loads \ {m} |-> loads[k]]
Installed(e, m) ==
  Requested([e EXCEPT !.evaluator = m, !.score = NONE,
                      !.released = @ \union ({loads[m]} \ {NONE})], game.board)
ModelLoaded ==
  /\ \E m \in DOMAIN loads :
       /\ loads' = Without(m)
       /\ \/ eval' = Installed(eval, m)
          \/ eval' = [eval EXCEPT !.released = @ \union {m}]
  /\ UNCHANGED <<game, shown, dialog, engine, worker, nnue>>

Next == \/ ClickMove \/ OpenPromotion \/ ChoosePromotion \/ DismissPromotion
        \/ Undo \/ Redo \/ GoToPly \/ Restart
        \/ ChooseEngineSide \/ EngineMove \/ Cancel
        \/ WorkerAnswers \/ OnMessage \/ OnError
        \/ NnueStart \/ NnueResumes \/ EvaluationResolves
        \/ LoadModel \/ ModelLoaded

Spec == Init /\ [][Next]_vars
----------------------------------------------------------------------------
(* The history of web_api.c and the timeline of app.js are one game: the    *)
(* moves behind and ahead lead from the root, each legal where it is played,*)
(* through the recorded positions and the board, and never outgrow the      *)
(* stacks, so an undo loses no move and goToPly's second loop gets there.   *)
TimelineReplays ==
  LET line == Timeline(game)
  IN  /\ Len(line) <= MaxUndo
      /\ \E path \in [0 .. Len(line) -> Positions] :
           /\ path[0] = game.root /\ path[Len(game.undo)] = game.board
           /\ \A i \in DOMAIN line : /\ IsLegal(path[i - 1], line[i])
                                     /\ path[i] = After[<<path[i - 1], line[i]>>]
           /\ \A i \in DOMAIN game.undo : game.undo[i].before = path[i - 1]

(* Whatever handler ran last, the moves that the squares of the page hold,  *)
(* and the cached list their indices point into, are the legal moves of the *)
(* board: no click plays an index of another position.                      *)
ShownIsCurrent == shown = Legal[game.board] /\ game.cache = shown

(* An answer of the engine worker, or of the NNUE loop, that comes after    *)
(* the board was changed under it moves nothing; one that moves the board   *)
(* plays a move that was chosen for exactly this position.                  *)
AnswersInTime ==
  /\ worker.phase = "answer" /\ worker' # worker /\ game'.board # game.board
       => /\ game.board = worker.position
          /\ game'.board = After[<<game.board, worker.move>>]
  /\ nnue # NONE /\ nnue' = NONE /\ game'.board # game.board
       => game.board = nnue.root /\ nnue.by = eval.evaluator
LateAnswersMoveNothing == [][AnswersInTime]_vars

(* Once the evaluation queue is empty, the score beside the board is the    *)
(* loaded model's score of the position on the board.                       *)
QuietScoreIsCurrent ==
  eval.flying = NONE /\ eval.evaluator # NONE
    => eval.score = [position |-> game.board, by |-> eval.evaluator]
============================================================================
