--------------------------- MODULE WebGame_proofs ---------------------------
(***************************************************************************)
(* The browser game keeps its promises for every game, stack size and set  *)
(* of evaluators: the stacks are one line of legal moves through the board,*)
(* the page holds the legal moves of the board, late answers move nothing, *)
(* and a quiet evaluation queue leaves the score of the board.             *)
(*                                                                         *)
(* A game g lies on a line when its stacks are the two parts of the line   *)
(* and the positions it recorded are those of a path along it.  Undo and   *)
(* redo move along the same line, so loops of them do (LoopsMoveAlong, by  *)
(* induction on the number of rounds); a move makes a new one.             *)
(***************************************************************************)
EXTENDS WebGame, TLAPS, SequenceTheorems, FiniteSetTheorems, WellFoundedInduction

LEMMA LimitIsNat == MaxUndo \in Nat
  BY WebAssumption

GameFields == {"board", "root", "undo", "redo", "cache"}
Typed(g) ==
  /\ DOMAIN g = GameFields
  /\ g.board \in Positions
  /\ g.undo \in Seq([move : Moves, before : Positions])
  /\ g.redo \in Seq(Moves)
  /\ g.cache = NONE \/ g.cache = Legal[g.board]

\* path leads along line, from root.
Leads(path, line, root) ==
  /\ line \in Seq(Moves) /\ Len(line) <= MaxUndo
  /\ path \in [0 .. Len(line) -> Positions]
  /\ path[0] = root
  /\ \A i \in 1 .. Len(line) : /\ IsLegal(path[i - 1], line[i])
                              /\ path[i] = After[<<path[i - 1], line[i]>>]

\* g lies on the line: behind it what undo takes back, ahead what redo plays.
Along(g, line, path) ==
  /\ Len(g.undo) + Len(g.redo) = Len(line)
  /\ g.board = path[Len(g.undo)]
  /\ \A i \in 1 .. Len(g.undo) : g.undo[i].move = line[i] /\ g.undo[i].before = path[i - 1]
  /\ \A j \in 1 .. Len(g.redo) : g.redo[j] = line[Len(line) + 1 - j]

OnLine(g, line, path) == Typed(g) /\ Leads(path, line, g.root) /\ Along(g, line, path)
GameOK(g) == \E line, path : OnLine(g, line, path)

-----------------------------------------------------------------------------
\* The cache is filled with the legal moves of the board and nothing else.
LEMMA CachedKeeps ==
  ASSUME NEW g, Typed(g)
  PROVE  /\ MovesOf(g) = Legal[g.board]
         /\ Cached(g).cache = Legal[g.board]
         /\ Cached(g).board = g.board /\ Cached(g).root = g.root
         /\ Cached(g).undo = g.undo /\ Cached(g).redo = g.redo
         /\ Typed(Cached(g))
  <1>1. CASE g.cache = NONE
    BY <1>1 DEF Cached, MovesOf, Typed, GameFields
  <1>2. CASE g.cache # NONE
    BY <1>2 DEF Cached, MovesOf, Typed
  <1> QED
    BY <1>1, <1>2

LEMMA CachedOnLine ==
  ASSUME NEW g, NEW line, NEW path, OnLine(g, line, path)
  PROVE  OnLine(Cached(g), line, path)
  BY CachedKeeps DEF OnLine, Along

\* What the moves point into is a legal move of the board.
LEMMA LegalMove ==
  ASSUME NEW p \in Positions, NEW m, IsLegal(p, m)
  PROVE  m \in Moves /\ After[<<p, m>>] \in Positions
  BY WebAssumption DEF IsLegal

\* The lengths of the stacks.
LEMMA Lengths ==
  ASSUME NEW g, NEW line, NEW path, OnLine(g, line, path)
  PROVE  /\ g.undo \in Seq([move : Moves, before : Positions]) /\ g.redo \in Seq(Moves)
         /\ Len(g.undo) \in Nat /\ Len(g.redo) \in Nat /\ Len(line) \in Nat
         /\ Len(g.undo) + Len(g.redo) = Len(line) /\ Len(line) <= MaxUndo
         /\ g.undo = <<>> <=> Len(g.undo) = 0
         /\ g.redo = <<>> <=> Len(g.redo) = 0
  <1>1. g.undo \in Seq([move : Moves, before : Positions]) /\ g.redo \in Seq(Moves)
        /\ line \in Seq(Moves)
    BY DEF OnLine, Typed, Leads
  <1>2. (g.undo = <<>> <=> Len(g.undo) = 0) /\ (g.redo = <<>> <=> Len(g.redo) = 0)
    BY <1>1, EmptySeq
  <1>3. Len(g.undo) \in Nat /\ Len(g.redo) \in Nat /\ Len(line) \in Nat
    BY <1>1
  <1>4. Len(g.undo) + Len(g.redo) = Len(line) /\ Len(line) <= MaxUndo
    BY DEF OnLine, Leads, Along
  <1> QED
    BY <1>1, <1>2, <1>3, <1>4

-----------------------------------------------------------------------------
\* A new game lies on the empty line.
LEMMA NewGameOK ==
  ASSUME NEW p \in Positions
  PROVE  GameOK(NewGame(p)) /\ NewGame(p).board = p /\ Typed(NewGame(p))
  <1> DEFINE g == NewGame(p)
             path == [k \in 0 .. 0 |-> p]
  <1>1. Typed(g)
    BY DEF NewGame, Typed, GameFields
  <1>2. Leads(path, <<>>, g.root)
    BY LimitIsNat DEF NewGame, Leads
  <1>3. Along(g, <<>>, path)
    BY DEF NewGame, Along
  <1> QED
    BY <1>1, <1>2, <1>3 DEF GameOK, OnLine, NewGame

\* Undo and redo lie on the line they move along.
LEMMA UndoneOnLine ==
  ASSUME NEW g, NEW line, NEW path, OnLine(g, line, path)
  PROVE  /\ OnLine(Undone(g), line, path)
         /\ Undone(g).root = g.root
         /\ Len(Undone(g).undo) = IF Len(g.undo) = 0 THEN 0 ELSE Len(g.undo) - 1
  <1>1. CASE g.undo = <<>>
    BY <1>1, Lengths DEF Undone
  <1>2. CASE g.undo # <<>>
    <2> DEFINE n == Len(g.undo)
               k == Len(g.redo)
               l == Len(line)
               h == Undone(g)
    <2>0. /\ n \in Nat /\ k \in Nat /\ l \in Nat /\ MaxUndo \in Nat
          /\ n + k = l /\ l <= MaxUndo /\ n # 0
          /\ g.undo \in Seq([move : Moves, before : Positions])
          /\ g.redo \in Seq(Moves)
      BY <1>2, Lengths, LimitIsNat
    <2>a. n \in 1 .. n => g.undo[n] \in [move : Moves, before : Positions]
      BY <2>0, ElementOfSeq
    <2>b. \A i \in 1 .. n : g.undo[i].move = line[i] /\ g.undo[i].before = path[i - 1]
      BY DEF OnLine, Along
    <2>c. \A j \in 1 .. k : g.redo[j] = line[l + 1 - j]
      BY DEF OnLine, Along
    <2> HIDE DEF n, k, l, h
    <2>1. n > 0 /\ n - 1 \in Nat /\ n \in 1 .. n /\ k < MaxUndo
      BY <2>0
    <2>2. g.undo[n] \in [move : Moves, before : Positions]
          /\ g.undo[n].move = line[n] /\ g.undo[n].before = path[n - 1]
      BY <2>1, <2>a, <2>b
    <2>3. /\ DOMAIN h = GameFields
          /\ h.board = path[n - 1] /\ h.root = g.root /\ h.cache = NONE
          /\ h.undo = SubSeq(g.undo, 1, n - 1)
          /\ h.redo = Append(g.redo, line[n])
      BY <1>2, <2>1, <2>2 DEF h, n, k, Undone, TakenBack, OnLine, Typed, GameFields, Last, Front
    <2>4. /\ h.undo \in Seq([move : Moves, before : Positions])
          /\ Len(h.undo) = n - 1
          /\ \A i \in 1 .. n - 1 : h.undo[i] = g.undo[i]
      <3> DEFINE S == [move : Moves, before : Positions]
      <3>1. g.undo \in Seq(S) /\ 1 \in 1 .. Len(g.undo) + 1 /\ n - 1 \in 1 - 1 .. Len(g.undo)
        BY <2>0, <2>1 DEF n
      <3> HIDE DEF S
      <3>2. h.undo \in Seq(S) /\ Len(h.undo) = (n - 1) - 1 + 1
            /\ \A i \in 1 .. (n - 1) - 1 + 1 : h.undo[i] = g.undo[1 + i - 1]
        BY <3>1, <2>3, SubSeqProperties
      <3> QED
        BY <3>2, <2>1 DEF S
    <2>5. /\ h.redo \in Seq(Moves) /\ Len(h.redo) = k + 1
          /\ h.redo[k + 1] = line[n]
          /\ \A j \in 1 .. k : h.redo[j] = g.redo[j]
      <3>1. line[n] \in Moves
        BY <2>2
      <3> QED
        BY <2>0, <2>3, <3>1 DEF k
    <2>6. h.board \in Positions
      BY <2>2, <2>3
    <2>7. Typed(h)
      BY <2>3, <2>4, <2>5, <2>6 DEF Typed
    <2>8. Along(h, line, path)
      <3>1. (n - 1) + (k + 1) = l
        BY <2>0
      <3>2. Len(h.undo) + Len(h.redo) = Len(line) /\ h.board = path[Len(h.undo)]
        BY <2>3, <2>4, <2>5, <3>1 DEF l
      <3>3. \A i \in 1 .. n - 1 : h.undo[i].move = line[i] /\ h.undo[i].before = path[i - 1]
        <4>1. \A i \in 1 .. n - 1 : i \in 1 .. n
          BY <2>0
        <4> QED
          BY <4>1, <2>4, <2>b
      <3>4. ASSUME NEW j \in 1 .. k + 1 PROVE h.redo[j] = line[l + 1 - j]
        <4>1. CASE j = k + 1
          <5>1. l + 1 - j = n
            BY <4>1, <2>0
          <5> QED
            BY <4>1, <5>1, <2>5
        <4>2. CASE j # k + 1
          <5>1. j \in 1 .. k
            BY <4>2, <2>0
          <5> QED
            BY <5>1, <2>5, <2>c
        <4> QED
          BY <4>1, <4>2
      <3> QED
        BY <3>2, <3>3, <3>4, <2>4, <2>5 DEF Along, l
    <2>9. Len(h.undo) = IF n = 0 THEN 0 ELSE n - 1
      BY <2>0, <2>4
    <2> QED
      BY <2>3, <2>7, <2>8, <2>9 DEF OnLine, h, n
  <1> QED
    BY <1>1, <1>2

\* A legal move made on the board.
LEMMA MadeIs ==
  ASSUME NEW g, Typed(g), NEW m, IsLegal(g.board, m)
  PROVE  LET h == Made(g, m)
             n == Len(g.undo)
         IN  /\ DOMAIN h = GameFields
             /\ h.board = After[<<g.board, m>>] /\ h.board \in Positions
             /\ h.root = g.root /\ h.cache = NONE /\ h.redo = g.redo
             /\ h.undo \in Seq([move : Moves, before : Positions])
             /\ Len(h.undo) = n + 1
             /\ h.undo[n + 1] = [move |-> m, before |-> g.board]
             /\ \A i \in 1 .. n : h.undo[i] = g.undo[i]
  <1> DEFINE h == Made(g, m)
             n == Len(g.undo)
             u == [move |-> m, before |-> g.board]
  <1>1. m \in Moves /\ After[<<g.board, m>>] \in Positions
    BY LegalMove DEF Typed
  <1>2. u \in [move : Moves, before : Positions]
    BY <1>1 DEF Typed
  <1>3. /\ DOMAIN h = GameFields
        /\ h.board = After[<<g.board, m>>]
        /\ h.root = g.root /\ h.cache = NONE /\ h.redo = g.redo
        /\ h.undo = Append(g.undo, u)
    BY DEF Made, Typed, GameFields
  <1>4. g.undo \in Seq([move : Moves, before : Positions])
    BY DEF Typed
  <1> HIDE DEF h, u
  <1>5. /\ h.undo \in Seq([move : Moves, before : Positions])
        /\ Len(h.undo) = n + 1 /\ h.undo[n + 1] = u
        /\ \A i \in 1 .. n : h.undo[i] = g.undo[i]
    BY <1>2, <1>3, <1>4
  <1> QED
    BY <1>1, <1>3, <1>5 DEF h, u

LEMMA RedoneOnLine ==
  ASSUME NEW g, NEW line, NEW path, OnLine(g, line, path)
  PROVE  /\ OnLine(Redone(g), line, path)
         /\ Redone(g).root = g.root
         /\ Len(Redone(g).undo) = IF Len(g.redo) = 0 THEN Len(g.undo) ELSE Len(g.undo) + 1
  <1>1. CASE g.redo = <<>>
    BY <1>1, Lengths DEF Redone
  <1>2. CASE g.redo # <<>>
    <2> DEFINE n == Len(g.undo)
               k == Len(g.redo)
               l == Len(line)
               m == line[n + 1]
               made == Made(g, m)
               h == Redone(g)
    <2>0. /\ n \in Nat /\ k \in Nat /\ l \in Nat /\ MaxUndo \in Nat
          /\ n + k = l /\ l <= MaxUndo /\ k # 0
          /\ g.redo \in Seq(Moves)
      BY <1>2, Lengths, LimitIsNat
    <2>a. \A i \in 1 .. n : g.undo[i].move = line[i] /\ g.undo[i].before = path[i - 1]
      BY DEF OnLine, Along
    <2>b. \A j \in 1 .. k : g.redo[j] = line[l + 1 - j]
      BY DEF OnLine, Along
    <2>c. /\ \A i \in 1 .. l : IsLegal(path[i - 1], line[i]) /\ path[i] = After[<<path[i - 1], line[i]>>]
          /\ g.board = path[n]
      BY DEF OnLine, Leads, Along
    <2> HIDE DEF n, k, l, m, made, h
    <2>1. k > 0 /\ n < MaxUndo /\ n + 1 \in 1 .. l /\ k \in 1 .. k /\ l + 1 - k = n + 1
          /\ (n + 1) - 1 = n /\ ~(n >= MaxUndo)
      BY <2>0
    <2>2. Last(g.redo) = m
      BY <2>1, <2>b DEF Last, m, k
    <2>3. IsLegal(g.board, m) /\ path[n + 1] = After[<<g.board, m>>]
      BY <2>1, <2>c DEF m
    <2>4. /\ DOMAIN made = GameFields
          /\ made.board = After[<<g.board, m>>] /\ made.board \in Positions
          /\ made.root = g.root /\ made.cache = NONE /\ made.redo = g.redo
          /\ made.undo \in Seq([move : Moves, before : Positions])
          /\ Len(made.undo) = n + 1
          /\ made.undo[n + 1] = [move |-> m, before |-> g.board]
          /\ \A i \in 1 .. n : made.undo[i] = g.undo[i]
      BY <2>3, MadeIs DEF OnLine, made, n
    <2>5. h = [made EXCEPT !.redo = SubSeq(g.redo, 1, k - 1)]
      <3>1. ~(g.redo = <<>> \/ Len(g.undo) >= MaxUndo \/ ~IsLegal(g.board, Last(g.redo)))
        BY <1>2, <2>1, <2>2, <2>3 DEF n
      <3> QED
        BY <3>1, <2>2, <2>4 DEF Redone, Front, h, made, k
    <2>6. /\ DOMAIN h = GameFields
          /\ h.board = path[n + 1] /\ h.board \in Positions
          /\ h.root = g.root /\ h.cache = NONE
          /\ h.redo = SubSeq(g.redo, 1, k - 1)
          /\ h.undo = made.undo
      BY <2>3, <2>4, <2>5 DEF GameFields
    <2>7. /\ h.redo \in Seq(Moves) /\ Len(h.redo) = k - 1
          /\ \A j \in 1 .. k - 1 : h.redo[j] = g.redo[j]
      BY <2>0, <2>1, <2>6 DEF k
    <2>8. Typed(h)
      BY <2>4, <2>6, <2>7 DEF Typed
    <2>9. Along(h, line, path)
      <3>1. (n + 1) + (k - 1) = l
        BY <2>0
      <3>2. Len(h.undo) + Len(h.redo) = Len(line) /\ h.board = path[Len(h.undo)]
        BY <2>4, <2>6, <2>7, <3>1 DEF l
      <3>3. ASSUME NEW i \in 1 .. n + 1
            PROVE  h.undo[i].move = line[i] /\ h.undo[i].before = path[i - 1]
        <4>1. CASE i = n + 1
          BY <4>1, <2>1, <2>4, <2>6, <2>c DEF m
        <4>2. CASE i # n + 1
          <5>1. i \in 1 .. n
            BY <4>2, <2>0
          <5> QED
            BY <5>1, <2>4, <2>6, <2>a
        <4> QED
          BY <4>1, <4>2
      <3>4. \A j \in 1 .. k - 1 : h.redo[j] = line[l + 1 - j]
        <4>1. \A j \in 1 .. k - 1 : j \in 1 .. k
          BY <2>0
        <4> QED
          BY <4>1, <2>7, <2>b
      <3> QED
        BY <3>2, <3>3, <3>4, <2>4, <2>6, <2>7 DEF Along, l
    <2>10. Len(h.undo) = IF k = 0 THEN n ELSE n + 1
      BY <2>0, <2>4, <2>6
    <2> QED
      BY <2>4, <2>6, <2>8, <2>9, <2>10 DEF OnLine, h, n, k
  <1> QED
    BY <1>1, <1>2

-----------------------------------------------------------------------------
\* A move cuts off what was ahead and lies at the end of a line of its own.
LEMMA PlayedOK ==
  ASSUME NEW g, GameOK(g), NEW i
  PROVE  /\ GameOK(Played(g, i)) /\ Typed(g) /\ Typed(Played(g, i))
         /\ \/ Played(g, i).board = g.board
            \/ i \in DOMAIN Legal[g.board] /\ Played(g, i).board = After[<<g.board, Legal[g.board][i]>>]
  <1>1. PICK line, path : OnLine(g, line, path)
    BY DEF GameOK
  <1>2. Typed(g)
    BY <1>1 DEF OnLine
  <1>3. CASE ~Plays(g, i)
    <2>1. OnLine(Cached(g), line, path) /\ Cached(g).board = g.board
      BY <1>1, <1>2, CachedOnLine, CachedKeeps
    <2> QED
      BY <1>2, <1>3, <2>1 DEF Played, GameOK, OnLine
  <1>4. CASE Plays(g, i)
    <2> DEFINE c == Cached(g)
               m == MovesOf(g)[i]
               n == Len(g.undo)
               made == Made(c, m)
               h == [made EXCEPT !.redo = <<>>]
               newline == [x \in 1 .. n + 1 |-> IF x = n + 1 THEN m ELSE line[x]]
               newpath == [x \in 0 .. n + 1 |-> IF x = n + 1 THEN After[<<g.board, m>>] ELSE path[x]]
    <2>1. /\ Typed(c) /\ OnLine(c, line, path) /\ c.board = g.board /\ c.undo = g.undo /\ c.root = g.root
          /\ m = Legal[g.board][i] /\ i \in DOMAIN Legal[g.board] /\ IsLegal(c.board, m)
          /\ g.board \in Positions
      BY <1>1, <1>2, <1>4, CachedOnLine, CachedKeeps DEF Plays, Typed
    <2>2. Played(g, i) = h
      BY <1>4 DEF Played
    <2>3. /\ n \in Nat /\ n < MaxUndo /\ Len(line) \in Nat /\ n <= Len(line) /\ MaxUndo \in Nat
          /\ line \in Seq(Moves)
      <3> HIDE DEF n
      <3>1. n \in Nat /\ Len(g.redo) \in Nat /\ Len(line) \in Nat /\ n + Len(g.redo) = Len(line)
        BY <1>1, Lengths DEF n
      <3>2. n <= Len(line)
        BY <3>1
      <3> QED
        BY <1>1, <1>4, <3>1, <3>2, LimitIsNat DEF Plays, n, OnLine, Leads
    <2>4. m \in Moves /\ After[<<g.board, m>>] \in Positions
      BY <2>1, LegalMove
    <2>5. /\ DOMAIN made = GameFields
          /\ made.board = After[<<g.board, m>>]
          /\ made.root = g.root /\ made.cache = NONE
          /\ made.undo \in Seq([move : Moves, before : Positions])
          /\ Len(made.undo) = n + 1
          /\ made.undo[n + 1] = [move |-> m, before |-> g.board]
          /\ \A x \in 1 .. n : made.undo[x] = g.undo[x]
      <3> HIDE DEF c, m, n, made
      <3>1. c.undo = g.undo /\ Len(c.undo) = n
        BY <2>1 DEF n
      <3> QED
        <4>1. Typed(c) /\ IsLegal(c.board, m)
          BY <2>1
        <4>2. /\ DOMAIN made = GameFields
              /\ made.board = After[<<c.board, m>>]
              /\ made.root = c.root /\ made.cache = NONE
              /\ made.undo \in Seq([move : Moves, before : Positions])
              /\ Len(made.undo) = Len(c.undo) + 1
              /\ made.undo[Len(c.undo) + 1] = [move |-> m, before |-> c.board]
              /\ \A x \in 1 .. Len(c.undo) : made.undo[x] = c.undo[x]
          BY <4>1, MadeIs DEF made
        <4> QED
          BY <4>2, <2>1, <3>1
    <2>a. /\ \A x \in 1 .. n : g.undo[x].move = line[x] /\ g.undo[x].before = path[x - 1]
          /\ g.board = path[n]
          /\ path[0] = g.root
          /\ path \in [0 .. Len(line) -> Positions]
          /\ \A x \in 1 .. Len(line) : IsLegal(path[x - 1], line[x]) /\ path[x] = After[<<path[x - 1], line[x]>>]
          /\ \A x \in 1 .. Len(line) : line[x] \in Moves
      <3>1. line \in Seq(Moves)
        BY <2>3
      <3>2. \A x \in 1 .. Len(line) : line[x] \in Moves
        BY <3>1, ElementOfSeq
      <3> QED
        BY <1>1, <3>2 DEF OnLine, Along, Leads
    <2>b. /\ DOMAIN h = GameFields
          /\ h.board = After[<<g.board, m>>] /\ h.root = g.root /\ h.cache = NONE
          /\ h.undo = made.undo /\ h.redo = <<>>
      <3> HIDE DEF made, m, n
      <3> QED
        BY <2>5 DEF GameFields
    <2>c. newline \in Seq(Moves) /\ Len(newline) = n + 1 /\ newpath \in [0 .. n + 1 -> Positions]
      <3> HIDE DEF n, m
      <3>1. ASSUME NEW x \in 1 .. n + 1 PROVE (IF x = n + 1 THEN m ELSE line[x]) \in Moves
        <4>1. x # n + 1 => x \in 1 .. Len(line)
          BY <2>3
        <4> QED
          BY <4>1, <2>4, <2>a
      <3>2. n + 1 \in Nat
        BY <2>3
      <3>3. newline \in [1 .. n + 1 -> Moves]
        BY <3>1
      <3>4. newline \in Seq(Moves) /\ Len(newline) = n + 1
        BY <3>2, <3>3
      <3>5. ASSUME NEW x \in 0 .. n + 1
            PROVE  (IF x = n + 1 THEN After[<<g.board, m>>] ELSE path[x]) \in Positions
        <4>1. x # n + 1 => x \in 0 .. Len(line)
          BY <2>3
        <4> QED
          BY <4>1, <2>4, <2>a
      <3> QED
        BY <3>4, <3>5
    <2>d. /\ newline[n + 1] = m /\ \A x \in 1 .. n : newline[x] = line[x]
          /\ newpath[n + 1] = After[<<g.board, m>>] /\ \A x \in 0 .. n : newpath[x] = path[x]
      <3> HIDE DEF n, m
      <3>1. /\ n + 1 \in 1 .. n + 1 /\ n + 1 \in 0 .. n + 1
            /\ \A x \in 1 .. n : x \in 1 .. n + 1 /\ x # n + 1
            /\ \A x \in 0 .. n : x \in 0 .. n + 1 /\ x # n + 1
        BY <2>3
      <3> QED
        BY <3>1
    <2> HIDE DEF c, m, n, made, h, newline, newpath
    <2>6. Typed(h)
      BY <2>4, <2>5, <2>b DEF Typed
    <2>e. /\ n + 1 <= MaxUndo /\ 0 \in 0 .. n
          /\ \A x \in 1 .. n + 1 : x = n + 1 \/ (x \in 1 .. n /\ x \in 1 .. Len(line) /\ x \in 0 .. n)
          /\ \A x \in 1 .. n + 1 : x - 1 \in 0 .. n
          /\ (n + 1) - 1 = n /\ n + 1 \in 1 .. n + 1
      BY <2>3
    <2>7. Leads(newpath, newline, h.root)
      <3>1. newpath[0] = h.root
        BY <2>a, <2>b, <2>d, <2>e
      <3>2. ASSUME NEW x \in 1 .. n + 1
            PROVE  IsLegal(newpath[x - 1], newline[x]) /\ newpath[x] = After[<<newpath[x - 1], newline[x]>>]
        <4>1. newpath[x - 1] = path[x - 1]
          BY <2>d, <2>e
        <4>2. CASE x = n + 1
          <5>1. newpath[x - 1] = g.board /\ newline[x] = m /\ newpath[x] = After[<<g.board, m>>]
            BY <4>1, <4>2, <2>a, <2>d, <2>e
          <5> QED
            BY <5>1, <2>1
        <4>3. CASE x # n + 1
          <5>1. x \in 1 .. n /\ x \in 1 .. Len(line) /\ x \in 0 .. n
            BY <4>3, <2>e
          <5>2. newline[x] = line[x] /\ newpath[x] = path[x]
            BY <5>1, <2>d
          <5> QED
            BY <4>1, <5>1, <5>2, <2>a
        <4> QED
          BY <4>2, <4>3
      <3> QED
        BY <3>1, <3>2, <2>c, <2>e DEF Leads
    <2>8. Along(h, newline, newpath)
      <3>1. Len(h.undo) = n + 1 /\ Len(h.redo) = 0 /\ (n + 1) + 0 = n + 1
        BY <2>3, <2>5, <2>b
      <3>2. ASSUME NEW x \in 1 .. n + 1
            PROVE  h.undo[x].move = newline[x] /\ h.undo[x].before = newpath[x - 1]
        <4>1. newpath[x - 1] = path[x - 1]
          BY <2>d, <2>e
        <4>2. CASE x = n + 1
          BY <4>1, <4>2, <2>a, <2>b, <2>d, <2>e, <2>5
        <4>3. CASE x # n + 1
          <5>1. x \in 1 .. n
            BY <4>3, <2>e
          <5> QED
            BY <4>1, <5>1, <2>a, <2>b, <2>d, <2>5
        <4> QED
          BY <4>2, <4>3
      <3>3. h.board = newpath[n + 1]
        BY <2>b, <2>d
      <3> QED
        BY <3>1, <3>2, <3>3, <2>c DEF Along
    <2>9. GameOK(h)
      BY <2>6, <2>7, <2>8 DEF GameOK, OnLine
    <2> QED
      BY <1>2, <2>1, <2>2, <2>6, <2>9, <2>b
  <1> QED
    BY <1>3, <1>4

LEMMA PlayedUsiOK ==
  ASSUME NEW g, GameOK(g), NEW m
  PROVE  /\ GameOK(PlayedUsi(g, m)) /\ Typed(PlayedUsi(g, m))
         /\ PlayedUsi(g, m).board = g.board \/ PlayedUsi(g, m).board = After[<<g.board, m>>]
  <1>1. PICK line, path : OnLine(g, line, path)
    BY DEF GameOK
  <1>2. Typed(g)
    BY <1>1 DEF OnLine
  <1> DEFINE at == {i \in DOMAIN MovesOf(g) : MovesOf(g)[i] = m}
             i0 == CHOOSE i \in at : TRUE
  <1>3. CASE at = {}
    <2>1. OnLine(Cached(g), line, path) /\ Cached(g).board = g.board /\ PlayedUsi(g, m) = Cached(g)
      BY <1>1, <1>2, <1>3, CachedOnLine, CachedKeeps DEF PlayedUsi
    <2> QED
      BY <2>1 DEF GameOK, OnLine
  <1>4. CASE at # {}
    <2>1. PlayedUsi(g, m) = Played(g, i0) /\ i0 \in at
      BY <1>4 DEF PlayedUsi
    <2>2. MovesOf(g)[i0] = m /\ MovesOf(g) = Legal[g.board]
      BY <1>2, <2>1, CachedKeeps
    <2> HIDE DEF i0
    <2> QED
      BY <2>1, <2>2, PlayedOK
  <1> QED
    BY <1>3, <1>4

-----------------------------------------------------------------------------
(***************************************************************************)
(* Induction over the natural numbers for one set S: a least number outside*)
(* S would give a strictly smaller interval, by the well-foundedness of the*)
(* finite sets.                                                            *)
(***************************************************************************)
LEMMA IndSet ==
  ASSUME NEW S, 0 \in S, \A n \in Nat : n \in S => n + 1 \in S
  PROVE  Nat \subseteq S
  <1>1. SUFFICES ASSUME NEW k \in Nat, k \notin S PROVE FALSE
    OBVIOUS
  <1> DEFINE Bad == {n \in Nat : n \notin S}
             T == {1 .. n : n \in Bad}
  <1>2. T \subseteq FiniteSubsetsOf(Nat) /\ T # {}
    <2>1. \A n \in Nat : IsFiniteSet(1 .. n) /\ (1 .. n) \subseteq Nat
      BY FS_Interval
    <2> QED
      BY <1>1, <2>1 DEF FiniteSubsetsOf
  <1>3. PICK x \in T : \A y \in T : ~(<<y, x>> \in StrictSubsetOrdering(Nat))
    <2>1. IsWellFoundedOn(StrictSubsetOrdering(Nat), FiniteSubsetsOf(Nat))
      BY FS_StrictSubsetOrderingWellFounded
    <2> HIDE DEF T
    <2> QED
      BY <1>2, <2>1, WFMin
  <1>4. PICK n \in Bad : x = 1 .. n
    BY <1>3
  <1>5. n # 0 /\ n - 1 \in Nat
    BY <1>4
  <1>6. n - 1 \in Bad
    BY <1>5, <1>4
  <1>7. 1 .. (n - 1) \in T
    BY <1>6
  <1>8. <<1 .. (n - 1), 1 .. n>> \in StrictSubsetOrdering(Nat)
    BY <1>5, <1>4 DEF StrictSubsetOrdering
  <1> QED
    BY <1>3, <1>4, <1>7, <1>8

\* f[k] is the game after k rounds of the loop.
Walks(f, g, back, n) ==
  f = [k \in 0 .. n |-> IF k = 0 THEN g ELSE Stepped(f[k - 1], back)]

LEMMA WalkExists ==
  ASSUME NEW g, NEW back, NEW n \in Nat
  PROVE  \E f : Walks(f, g, back, n)
  <1> DEFINE S == {m \in Nat : \E f : Walks(f, g, back, m)}
  <1>1. 0 \in S
    <2> DEFINE f == [k \in 0 .. 0 |-> g]
    <2>1. f = [k \in 0 .. 0 |-> IF k = 0 THEN g ELSE Stepped(f[k - 1], back)]
      OBVIOUS
    <2> HIDE DEF f
    <2> QED
      BY <2>1 DEF Walks
  <1>2. ASSUME NEW m \in Nat, m \in S PROVE m + 1 \in S
    <2>1. PICK f : Walks(f, g, back, m)
      BY <1>2
    <2> DEFINE h == [k \in 0 .. m + 1 |-> IF k = m + 1 THEN Stepped(f[m], back) ELSE f[k]]
    <2>2. ASSUME NEW k \in 0 .. m + 1 PROVE h[k] = IF k = 0 THEN g ELSE Stepped(h[k - 1], back)
      <3>1. CASE k = m + 1
        <4>1. k # 0 /\ k - 1 = m /\ m \in 0 .. m + 1 /\ m # m + 1
          BY <3>1
        <4> QED
          BY <3>1, <4>1
      <3>2. CASE k # m + 1
        <4>1. k \in 0 .. m /\ (k # 0 => k - 1 \in 0 .. m + 1 /\ k - 1 # m + 1)
          BY <3>2
        <4>2. f[k] = IF k = 0 THEN g ELSE Stepped(f[k - 1], back)
          BY <2>1, <4>1 DEF Walks
        <4>3. h[k] = f[k] /\ (k # 0 => h[k - 1] = f[k - 1])
          BY <3>2, <4>1
        <4> HIDE DEF h
        <4> QED
          BY <4>2, <4>3
      <3> QED
        BY <3>1, <3>2
    <2>3. h = [k \in 0 .. m + 1 |-> h[k]]
      OBVIOUS
    <2> HIDE DEF h
    <2>4. Walks(h, g, back, m + 1)
      BY <2>2, <2>3 DEF Walks
    <2> QED
      BY <2>4
  <1> HIDE DEF S
  <1>3. Nat \subseteq S
    BY <1>1, <1>2, IndSet
  <1> QED
    BY <1>3 DEF S

\* The loops of goToPly stay on the line and move one ply in each round.
Ply(from, back, k) == IF back THEN from - k ELSE from + k

LEMMA WalkStaysOnLine ==
  ASSUME NEW g, NEW line, NEW path, OnLine(g, line, path),
         NEW back \in BOOLEAN, NEW n \in Nat,
         n <= IF back THEN Len(g.undo) ELSE Len(g.redo),
         NEW f, Walks(f, g, back, n)
  PROVE  OnLine(f[n], line, path) /\ f[n].root = g.root /\ Len(f[n].undo) = Ply(Len(g.undo), back, n)
  <1> DEFINE u == Len(g.undo)
             r == Len(g.redo)
             l == Len(line)
             Good(k) == OnLine(f[k], line, path) /\ f[k].root = g.root /\ Len(f[k].undo) = Ply(u, back, k)
             S == {k \in Nat : k <= n => Good(k)}
  <1>0. u \in Nat /\ r \in Nat /\ l \in Nat /\ u + r = l /\ (n <= IF back THEN u ELSE r)
    BY Lengths
  <1> HIDE DEF u, r, l
  <1>1. 0 \in S
    <2>1. 0 \in 0 .. n
      OBVIOUS
    <2>2. f[0] = g
      BY <2>1 DEF Walks
    <2>3. Ply(u, back, 0) = u
      BY <1>0 DEF Ply
    <2> QED
      BY <2>2, <2>3 DEF u
  <1>2. ASSUME NEW m \in Nat, m \in S PROVE m + 1 \in S
    <2> SUFFICES ASSUME m + 1 <= n PROVE Good(m + 1)
      OBVIOUS
    <2>1. Good(m)
      BY <1>2
    <2> DEFINE h == f[m]
    <2>2. f[m + 1] = Stepped(h, back)
      <3>1. m + 1 \in 0 .. n /\ m + 1 # 0 /\ (m + 1) - 1 = m
        OBVIOUS
      <3> QED
        BY <3>1 DEF Walks
    <2>3. OnLine(h, line, path) /\ h.root = g.root /\ Len(h.undo) = Ply(u, back, m)
      BY <2>1
    <2> HIDE DEF h
    <2>4. Len(h.undo) \in Nat /\ Len(h.redo) \in Nat /\ Len(h.undo) + Len(h.redo) = l
      BY <2>3, Lengths DEF l
    <2>5. CASE back
      <3>1. Ply(u, back, m) = u - m /\ Ply(u, back, m + 1) = (u - m) - 1 /\ u - m # 0
        BY <1>0, <2>5 DEF Ply
      <3>2. f[m + 1] = Undone(h)
        BY <2>2, <2>5 DEF Stepped
      <3> QED
        BY <2>3, <3>1, <3>2, UndoneOnLine
    <2>6. CASE ~back
      <3>1. Ply(u, back, m) = u + m /\ Ply(u, back, m + 1) = (u + m) + 1
        BY <1>0, <2>6 DEF Ply
      <3>2. Len(h.redo) # 0
        <4> DEFINE a == Len(h.undo)
                   b == Len(h.redo)
        <4>1. a \in Nat /\ b \in Nat /\ a + b = l /\ a = u + m
          BY <2>3, <2>4, <3>1
        <4> HIDE DEF a, b
        <4>2. b # 0
          BY <1>0, <2>6, <4>1
        <4> QED
          BY <4>2 DEF b
      <3>3. f[m + 1] = Redone(h)
        BY <2>2, <2>6 DEF Stepped
      <3> QED
        BY <2>3, <3>1, <3>2, <3>3, RedoneOnLine
    <2> QED
      BY <2>5, <2>6
  <1> HIDE DEF S
  <1>3. Nat \subseteq S
    BY <1>1, <1>2, IndSet
  <1>4. n \in S /\ n <= n
    BY <1>3
  <1> QED
    BY <1>4 DEF S, u

LEMMA LoopsMoveAlong ==
  ASSUME NEW g, NEW line, NEW path, OnLine(g, line, path),
         NEW back \in BOOLEAN, NEW n \in Nat,
         n <= IF back THEN Len(g.undo) ELSE Len(g.redo)
  PROVE  /\ OnLine(Walked(g, back, n), line, path)
         /\ Walked(g, back, n).root = g.root
         /\ Len(Walked(g, back, n).undo) = Ply(Len(g.undo), back, n)
  <1> DEFINE f == CHOOSE h : Walks(h, g, back, n)
  <1>1. Walks(f, g, back, n)
    BY WalkExists
  <1>2. Walked(g, back, n) = f[n]
    BY DEF Walked, Walks
  <1> HIDE DEF f
  <1> QED
    BY <1>1, <1>2, WalkStaysOnLine

LEMMA JumpOnLine ==
  ASSUME NEW g, NEW line, NEW path, OnLine(g, line, path), NEW ply \in 0 .. Len(line)
  PROVE  OnLine(JumpedTo(g, ply), line, path) /\ Len(JumpedTo(g, ply).undo) = ply
  <1> DEFINE u == Len(g.undo)
             r == Len(g.redo)
             l == Len(line)
  <1>1. u \in Nat /\ r \in Nat /\ l \in Nat /\ u + r = l /\ ply \in 0 .. l
    BY Lengths
  <1>2. CASE ply < u
    <2>1. JumpedTo(g, ply) = Walked(g, TRUE, u - ply)
      BY <1>2 DEF JumpedTo
    <2> HIDE DEF u, r, l
    <2>2. u - ply \in Nat /\ u - ply <= u /\ u - (u - ply) = ply
      BY <1>1, <1>2
    <2>3. u - ply <= IF TRUE THEN Len(g.undo) ELSE Len(g.redo)
      BY <2>2 DEF u
    <2>4. Ply(Len(g.undo), TRUE, u - ply) = ply
      BY <2>2 DEF Ply, u
    <2> QED
      BY <2>1, <2>2, <2>3, <2>4, LoopsMoveAlong
  <1>3. CASE ~(ply < u)
    <2>1. JumpedTo(g, ply) = Walked(g, FALSE, ply - u)
      BY <1>3 DEF JumpedTo
    <2> HIDE DEF u, r, l
    <2>2. ply - u \in Nat /\ ply - u <= r /\ u + (ply - u) = ply
      BY <1>1, <1>3
    <2>3. ply - u <= IF FALSE THEN Len(g.undo) ELSE Len(g.redo)
      BY <2>2 DEF r
    <2>4. Ply(Len(g.undo), FALSE, ply - u) = ply
      BY <2>2 DEF Ply, u
    <2> QED
      BY <2>1, <2>2, <2>3, <2>4, LoopsMoveAlong
  <1> QED
    BY <1>2, <1>3

\* The timeline the page shows is the line.
LEMMA TimelineIs ==
  ASSUME NEW g, NEW line, NEW path, OnLine(g, line, path)
  PROVE  Timeline(g) = line
  <1> DEFINE u == Len(g.undo)
             r == Len(g.redo)
             l == Len(line)
             first == [i \in DOMAIN g.undo |-> g.undo[i].move]
             second == Reverse(g.redo)
  <1>1. /\ u \in Nat /\ r \in Nat /\ l \in Nat /\ u + r = l
        /\ g.undo \in Seq([move : Moves, before : Positions]) /\ g.redo \in Seq(Moves)
        /\ line \in Seq(Moves)
    BY Lengths DEF OnLine, Leads
  <1>2. /\ \A i \in 1 .. u : g.undo[i].move = line[i] /\ g.undo[i] \in [move : Moves, before : Positions]
        /\ \A j \in 1 .. r : g.redo[j] = line[l + 1 - j] /\ g.redo[j] \in Moves
    BY <1>1, ElementOfSeq DEF OnLine, Along
  <1>3. first = [i \in 1 .. u |-> line[i]] /\ first \in Seq(Moves) /\ Len(first) = u
    <2>1. DOMAIN g.undo = 1 .. u
      BY <1>1
    <2>2. first = [i \in 1 .. u |-> line[i]] /\ first \in [1 .. u -> Moves]
      BY <1>2, <2>1
    <2> HIDE DEF first, u
    <2> QED
      BY <1>1, <2>2
  <1>4. second = [i \in 1 .. r |-> line[u + i]] /\ second \in Seq(Moves) /\ Len(second) = r
    <2>1. second = [i \in 1 .. r |-> g.redo[(r - i) + 1]]
      BY DEF Reverse
    <2> HIDE DEF second, u, r, l
    <2>2. \A i \in 1 .. r : (r - i) + 1 \in 1 .. r /\ l + 1 - ((r - i) + 1) = u + i
      BY <1>1
    <2>3. \A i \in 1 .. r : g.redo[(r - i) + 1] = line[u + i] /\ g.redo[(r - i) + 1] \in Moves
      BY <1>2, <2>2
    <2>4. second = [i \in 1 .. r |-> line[u + i]] /\ second \in [1 .. r -> Moves]
      BY <2>1, <2>3
    <2>5. r \in Nat
      BY <1>1
    <2>6. second \in Seq(Moves)
      BY <2>4, <2>5
    <2>7. Len(second) = r
      BY <2>4, <2>5
    <2> QED
      BY <2>4, <2>6, <2>7
  <1>5. Timeline(g) = first \o second
    BY DEF Timeline
  <1> HIDE DEF first, second, u, r
  <1>6. /\ first \o second \in Seq(Moves) /\ Len(first \o second) = u + r
        /\ \A i \in 1 .. u + r : (first \o second)[i] = IF i <= u THEN first[i] ELSE second[i - u]
    BY <1>1, <1>3, <1>4, ConcatProperties
  <1>7. ASSUME NEW i \in 1 .. l PROVE (first \o second)[i] = line[i]
    <2>1. CASE i <= u
      BY <1>1, <1>3, <1>6, <2>1 DEF l
    <2>2. CASE ~(i <= u)
      <3>1. i - u \in 1 .. r /\ u + (i - u) = i /\ i \in 1 .. u + r
        BY <1>1, <2>2
      <3> QED
        BY <1>4, <1>6, <2>2, <3>1
    <2> QED
      BY <2>1, <2>2
  <1>8. Len(first \o second) = Len(line)
    BY <1>1, <1>6 DEF l
  <1> QED
    BY <1>1, <1>5, <1>6, <1>7, <1>8, SeqEqual DEF l

-----------------------------------------------------------------------------
(***************************************************************************)
(* The evaluation queue.  Whatever waits or flies was asked for by some    *)
(* render; with an evaluator, the last request is of the position on the   *)
(* board and of that evaluator, and either waits, or flies with nothing    *)
(* behind it, or is answered.                                              *)
(***************************************************************************)
EvalFields == {"evaluator", "score", "flying", "pending", "released"}
QueueTyped(e) ==
  /\ DOMAIN e = EvalFields
  /\ e.evaluator \in Models \union {NONE}
  /\ e.flying = NONE \/ e.flying \in Requests
  /\ e.pending = NONE \/ e.pending \in Requests
  /\ e.flying = NONE => e.pending = NONE

Newest(e, r, p) == r \in Requests /\ r.latest /\ r.evaluator = e.evaluator /\ r.position = p
QueueFresh(e, p) ==
  e.evaluator # NONE =>
    \/ Newest(e, e.pending, p) /\ e.flying # NONE
    \/ e.pending = NONE /\ Newest(e, e.flying, p)
    \/ e.flying = NONE /\ e.score = [position |-> p, by |-> e.evaluator]
QueueOK(e, p) == QueueTyped(e) /\ QueueFresh(e, p)

LEMMA RequestIsNew == \A r \in Requests : r # NONE
  BY NoneAssumption

LEMMA OutdatedTyped ==
  ASSUME NEW r \in Requests
  PROVE  [r EXCEPT !.latest = FALSE] \in Requests
  BY DEF Requests

LEMMA RequestedOK ==
  ASSUME NEW e, QueueTyped(e), NEW p \in Positions
  PROVE  QueueOK(Requested(e, p), p)
  <1> DEFINE outdated == [e EXCEPT !.flying = IF @ = NONE THEN NONE
                                              ELSE [@ EXCEPT !.latest = FALSE]]
             request == [position |-> p, evaluator |-> e.evaluator, latest |-> TRUE]
             h == Requested(e, p)
  <1>1. /\ DOMAIN outdated = EvalFields /\ outdated.evaluator = e.evaluator
        /\ outdated.pending = e.pending
        /\ outdated.flying = IF e.flying = NONE THEN NONE ELSE [e.flying EXCEPT !.latest = FALSE]
    BY DEF QueueTyped, EvalFields
  <1>2. outdated.flying = NONE \/ outdated.flying \in Requests
    BY <1>1, OutdatedTyped DEF QueueTyped
  <1>3. outdated.flying = NONE <=> e.flying = NONE
    BY <1>1, OutdatedTyped, RequestIsNew DEF QueueTyped
  <1>4. CASE e.evaluator = NONE
    <2>1. h = [outdated EXCEPT !.pending = IF @ = NONE THEN NONE ELSE [@ EXCEPT !.latest = FALSE]]
      BY <1>4 DEF Requested
    <2> HIDE DEF outdated, h
    <2>2. /\ DOMAIN h = EvalFields /\ h.evaluator = NONE /\ h.flying = outdated.flying
          /\ h.pending = IF e.pending = NONE THEN NONE ELSE [e.pending EXCEPT !.latest = FALSE]
      BY <1>1, <1>4, <2>1 DEF EvalFields
    <2>3. h.pending = NONE \/ h.pending \in Requests
      BY <2>2, OutdatedTyped DEF QueueTyped
    <2>4. h.flying = NONE => h.pending = NONE
      BY <1>3, <2>2 DEF QueueTyped
    <2> QED
      BY <1>2, <2>2, <2>3, <2>4 DEF QueueOK, QueueTyped, QueueFresh, h
  <1>5. CASE e.evaluator # NONE
    <2>1. request \in Requests
      BY <1>5 DEF Requests, QueueTyped
    <2>2. request # NONE
      BY <2>1, RequestIsNew
    <2>3. request.latest /\ request.evaluator = e.evaluator /\ request.position = p
      OBVIOUS
    <2>4. CASE e.flying = NONE
      <3>1. h = [outdated EXCEPT !.flying = request]
        BY <1>5, <2>4 DEF Requested
      <3> HIDE DEF outdated, h, request
      <3>2. /\ DOMAIN h = EvalFields /\ h.evaluator = e.evaluator /\ h.flying = request
            /\ h.pending = NONE
        BY <1>1, <2>4, <3>1 DEF EvalFields, QueueTyped
      <3> QED
        BY <2>1, <2>2, <2>3, <3>2 DEF QueueOK, QueueTyped, QueueFresh, Newest, h
    <2>5. CASE e.flying # NONE
      <3>1. h = [outdated EXCEPT !.pending = request]
        BY <1>5, <2>5 DEF Requested
      <3> HIDE DEF outdated, h, request
      <3>2. /\ DOMAIN h = EvalFields /\ h.evaluator = e.evaluator /\ h.pending = request
            /\ h.flying = outdated.flying /\ h.flying # NONE
        BY <1>1, <1>3, <2>5, <3>1 DEF EvalFields
      <3> QED
        BY <1>2, <2>1, <2>2, <2>3, <3>2 DEF QueueOK, QueueTyped, QueueFresh, Newest, h
    <2> QED
      BY <2>4, <2>5
  <1> QED
    BY <1>4, <1>5

\* An answer, good or bad, lets the queue go on.
LEMMA FlushedOK ==
  ASSUME NEW e, NEW p, QueueOK(e, p), e.flying # NONE
  PROVE  QueueOK(Flushed(Scored(e)), p) /\ QueueOK(Flushed(Failed(e)), p)
  <1>0. QueueTyped(e) /\ e.flying \in Requests
    BY DEF QueueOK, QueueTyped
  <1>1. ASSUME NEW d, DOMAIN d = EvalFields, d.pending = e.pending
        PROVE  /\ DOMAIN Flushed(d) = EvalFields /\ Flushed(d).flying = e.pending
               /\ Flushed(d).pending = NONE /\ Flushed(d).evaluator = d.evaluator
               /\ Flushed(d).score = d.score
    BY <1>1 DEF Flushed, EvalFields
  <1>2. CASE Current(e)
    <2>1. /\ DOMAIN Scored(e) = EvalFields /\ Scored(e).pending = e.pending
          /\ Scored(e).evaluator = e.evaluator
          /\ Scored(e).score = [position |-> e.flying.position, by |-> e.evaluator]
      BY <1>0, <1>2 DEF Scored, QueueTyped, EvalFields
    <2>2. DOMAIN Failed(e) = EvalFields /\ Failed(e).pending = e.pending /\ Failed(e).evaluator = NONE
      BY <1>0, <1>2 DEF Failed, QueueTyped, EvalFields
    <2>3. QueueOK(Flushed(Failed(e)), p)
      BY <1>0, <1>1, <2>2 DEF QueueOK, QueueTyped, QueueFresh
    <2> DEFINE h == Flushed(Scored(e))
    <2>4. /\ DOMAIN h = EvalFields /\ h.flying = e.pending /\ h.pending = NONE /\ h.evaluator = e.evaluator
          /\ h.score = [position |-> e.flying.position, by |-> e.evaluator]
      BY <1>1, <2>1
    <2> HIDE DEF h
    <2>5. QueueTyped(h)
      BY <1>0, <2>4 DEF QueueTyped
    <2>6. QueueFresh(h, p)
      <3> SUFFICES ASSUME e.evaluator # NONE
                   PROVE  \/ h.pending = NONE /\ Newest(h, h.flying, p)
                          \/ h.flying = NONE /\ h.score = [position |-> p, by |-> h.evaluator]
        BY <2>4 DEF QueueFresh
      <3>1. CASE Newest(e, e.pending, p)
        BY <2>4, <3>1 DEF Newest
      <3>2. CASE e.pending = NONE /\ Newest(e, e.flying, p)
        BY <2>4, <3>2 DEF Newest
      <3> QED
        BY <3>1, <3>2 DEF QueueOK, QueueFresh
    <2> QED
      BY <2>3, <2>5, <2>6 DEF QueueOK, h
  <1>3. CASE ~Current(e)
    <2>1. Scored(e) = e /\ Failed(e) = e
      BY <1>3 DEF Scored, Failed
    <2> DEFINE h == Flushed(e)
    <2>2. /\ DOMAIN h = EvalFields /\ h.flying = e.pending /\ h.pending = NONE /\ h.evaluator = e.evaluator
          /\ h.score = e.score
      BY <1>0, <1>1 DEF QueueTyped
    <2> HIDE DEF h
    <2>3. QueueTyped(h)
      BY <1>0, <2>2 DEF QueueTyped
    <2>4. QueueFresh(h, p)
      <3> SUFFICES ASSUME e.evaluator # NONE
                   PROVE  h.pending = NONE /\ Newest(h, h.flying, p)
        BY <2>2 DEF QueueFresh
      <3>1. ~(e.pending = NONE /\ Newest(e, e.flying, p))
        BY <1>3 DEF Current, Newest
      <3>2. Newest(e, e.pending, p)
        BY <3>1 DEF QueueOK, QueueFresh
      <3> QED
        BY <2>2, <3>2 DEF Newest
    <2> QED
      BY <2>1, <2>3, <2>4 DEF QueueOK, h
  <1> QED
    BY <1>2, <1>3

-----------------------------------------------------------------------------
(***************************************************************************)
(* The inductive invariant.  What the engine worker holds is the request   *)
(* of the search the page waits for.                                       *)
(***************************************************************************)
Waits(e, w) ==
  /\ DOMAIN e = {"busy", "sfen", "side"} /\ e.busy \in BOOLEAN
  /\ DOMAIN w = {"phase", "position", "move"}
  /\ w.phase # "idle" => e.busy /\ e.sfen = w.position

PageOK(g, moves) == GameOK(g) /\ g.cache = Legal[g.board] /\ moves = Legal[g.board]

IInv ==
  /\ PageOK(game, shown)
  /\ Waits(engine, worker)
  /\ QueueOK(eval, game.board)
  /\ DOMAIN loads \subseteq Models

LEMMA GameTyped == \A g : GameOK(g) => Typed(g) /\ g.board \in Positions
  BY DEF GameOK, OnLine, Typed

LEMMA CachedOK ==
  ASSUME NEW g, GameOK(g)
  PROVE  /\ PageOK(Cached(g), Legal[g.board]) /\ Cached(g).board = g.board
         /\ MovesOf(Cached(g)) = Legal[g.board]
  <1>1. PICK line, path : OnLine(g, line, path)
    BY DEF GameOK
  <1>2. Typed(g) /\ Typed(Cached(g)) /\ OnLine(Cached(g), line, path)
    BY <1>1, CachedOnLine, CachedKeeps DEF OnLine
  <1> QED
    BY <1>2, CachedKeeps DEF PageOK, GameOK

\* A render of a game in order leaves the page and the queue in order.
LEMMA RenderKeeps ==
  ASSUME IInv, NEW g, GameOK(g), game' = Cached(g), NEW e, QueueTyped(e), Rendered(e)
  PROVE  /\ PageOK(game, shown)' /\ QueueOK(eval, game.board)' /\ game'.board = g.board
  <1>1. /\ PageOK(game', Legal[g.board]) /\ game'.board = g.board /\ MovesOf(game') = Legal[g.board]
        /\ game'.board \in Positions
    BY CachedOK, GameTyped
  <1>2. shown' = Legal[g.board] /\ eval' = Requested(e, game'.board)
    BY <1>1 DEF Rendered
  <1> QED
    BY <1>1, <1>2, RequestedOK

\* So does one that may start the engine; a start replaces no request.
LEMMA StartKeeps ==
  ASSUME IInv, NEW g, GameOK(g), game' = Cached(g), NEW e, NEW w, Waits(e, w),
         RenderAndMaybeStart(e, w)
  PROVE  /\ PageOK(game, shown)' /\ QueueOK(eval, game.board)' /\ game'.board = g.board
         /\ Waits(engine, worker)'
         /\ worker' = w \/ ~e.busy
  <1>0. game'.board \in Positions
    BY CachedOK, GameTyped
  <1>1. CASE ~e.busy /\ EngineTurn(game', e.side)
    <2>1. engine' = Searching(e) /\ Post /\ Rendered(Requested(eval, game'.board))
      BY <1>1 DEF RenderAndMaybeStart
    <2>2. QueueTyped(Requested(eval, game'.board))
      BY <1>0, RequestedOK DEF IInv, QueueOK
    <2>3. Waits(engine', worker')
      BY <2>1 DEF Searching, Post, Waits
    <2> QED
      BY <1>1, <2>1, <2>2, <2>3, RenderKeeps
  <1>2. CASE ~(~e.busy /\ EngineTurn(game', e.side))
    <2>1. engine' = e /\ worker' = w /\ Rendered(eval)
      BY <1>2 DEF RenderAndMaybeStart
    <2> QED
      BY <2>1, RenderKeeps DEF IInv, QueueOK
  <1> QED
    BY <1>1, <1>2

LEMMA FreedWaits ==
  ASSUME IInv
  PROVE  Waits(Freed, Idle) /\ \A side : Waits([engine EXCEPT !.side = side], worker)
  BY DEF IInv, Waits, Freed, Idle

LEMMA NewestGame == ASSUME IInv PROVE GameOK(game) /\ QueueTyped(eval) /\ Waits(engine, worker)
                                      /\ game.board \in Positions /\ Typed(game)
  BY GameTyped DEF IInv, PageOK, QueueOK

LEMMA InitHolds == Init => IInv
  <1> SUFFICES ASSUME Init PROVE IInv
    OBVIOUS
  <1> DEFINE g == NewGame(Start)
  <1>1. Start \in Positions
    BY WebAssumption
  <1>2. GameOK(g) /\ g.board = Start
    BY <1>1, NewGameOK
  <1> HIDE DEF g
  <1>3. PageOK(game, shown) /\ game.board = Start
    BY <1>2, CachedOK DEF Init, g
  <1>4. Waits(engine, worker)
    BY DEF Init, Waits, Idle
  <1>5. QueueOK(eval, game.board)
    BY DEF Init, QueueOK, QueueTyped, QueueFresh, EvalFields
  <1>6. DOMAIN loads \subseteq Models
    BY DEF Init
  <1> QED
    BY <1>3, <1>4, <1>5, <1>6 DEF IInv

\* The player's moves, his dialog, and the timeline.
LEMMA PlayerKeeps ==
  ASSUME IInv, ClickMove \/ OpenPromotion \/ ChoosePromotion \/ DismissPromotion
               \/ Undo \/ Redo \/ GoToPly
  PROVE  IInv' /\ AnswersInTime
  <1>0. GameOK(game) /\ QueueTyped(eval) /\ Waits(engine, worker) /\ Typed(game)
    BY NewestGame
  <1>1. CASE ClickMove \/ ChoosePromotion
    <2>1. PICK i : game' = Cached(Played(game, i))
      BY <1>1 DEF ClickMove, ChoosePromotion
    <2>2. RenderAndMaybeStart(engine, worker) /\ nnue' = nnue /\ loads' = loads
      BY <1>1 DEF ClickMove, ChoosePromotion
    <2>3. GameOK(Played(game, i))
      BY <1>0, PlayedOK
    <2>4. /\ PageOK(game, shown)' /\ QueueOK(eval, game.board)' /\ Waits(engine, worker)'
          /\ worker' = worker \/ ~engine.busy
      BY <1>0, <2>1, <2>2, <2>3, StartKeeps
    <2>5. IInv'
      BY <2>2, <2>4 DEF IInv
    <2>6. AnswersInTime
      BY <1>0, <2>2, <2>4 DEF AnswersInTime, Waits
    <2> QED
      BY <2>5, <2>6
  <1>2. CASE OpenPromotion \/ DismissPromotion
    <2>1. UNCHANGED <<game, shown, engine, worker, nnue, eval, loads>>
      BY <1>2 DEF OpenPromotion, DismissPromotion
    <2> QED
      BY <2>1 DEF IInv, AnswersInTime
  <1>3. CASE Undo \/ Redo \/ GoToPly
    <2>1. PICK g : GameOK(g) /\ game' = Cached(g)
      <3> SUFFICES \E g : GameOK(g) /\ game' = Cached(g)
        OBVIOUS
      <3>1. PICK line, path : OnLine(game, line, path)
        BY <1>0 DEF GameOK
      <3>2. CASE Undo
        BY <3>1, <3>2, UndoneOnLine DEF Undo, RenderIfMoved, GameOK
      <3>3. CASE Redo
        BY <3>1, <3>3, RedoneOnLine DEF Redo, RenderIfMoved, GameOK
      <3>4. CASE GoToPly
        <4>1. PICK ply \in 1 .. Len(Timeline(game)) : game' = Cached(JumpedTo(game, ply))
          BY <3>4 DEF GoToPly
        <4>2. Len(line) \in Nat /\ Timeline(game) = line
          BY <3>1, TimelineIs, Lengths
        <4>3. ply \in 0 .. Len(line)
          BY <4>1, <4>2
        <4> QED
          BY <3>1, <4>1, <4>3, JumpOnLine DEF GameOK
      <3> QED
        BY <1>3, <3>2, <3>3, <3>4
    <2>2. Rendered(eval) /\ UNCHANGED <<engine, worker, nnue, loads>>
      BY <1>3 DEF Undo, Redo, GoToPly, RenderIfMoved
    <2>3. PageOK(game, shown)' /\ QueueOK(eval, game.board)'
      BY <1>0, <2>1, <2>2, RenderKeeps
    <2> QED
      BY <1>0, <2>2, <2>3 DEF IInv, AnswersInTime
  <1> QED
    BY <1>1, <1>2, <1>3

\* The engine and its worker.
LEMMA EngineKeeps ==
  ASSUME IInv, Restart \/ ChooseEngineSide \/ EngineMove \/ Cancel
               \/ WorkerAnswers \/ OnMessage \/ OnError
  PROVE  IInv' /\ AnswersInTime
  <1>0. GameOK(game) /\ QueueTyped(eval) /\ Waits(engine, worker) /\ Typed(game)
    BY NewestGame
  <1>i. Waits(Freed, Idle) /\ \A side : Waits([engine EXCEPT !.side = side], worker)
    BY FreedWaits
  <1>1. CASE Restart
    <2>1. PICK p \in Positions : game' = Cached(NewGame(p))
      BY <1>1, WebAssumption DEF Restart
    <2>2. RenderAndMaybeStart(engine, worker) /\ nnue' = nnue /\ loads' = loads
      BY <1>1 DEF Restart
    <2>3. /\ PageOK(game, shown)' /\ QueueOK(eval, game.board)' /\ Waits(engine, worker)'
          /\ worker' = worker \/ ~engine.busy
      BY <1>0, <2>1, <2>2, NewGameOK, StartKeeps
    <2> QED
      BY <1>0, <2>2, <2>3 DEF IInv, AnswersInTime, Waits
  <1>2. CASE ChooseEngineSide
    <2>1. PICK side : game' = Cached(game) /\ RenderAndMaybeStart([engine EXCEPT !.side = side], worker)
      BY <1>2 DEF ChooseEngineSide
    <2>2. nnue' = nnue /\ loads' = loads
      BY <1>2 DEF ChooseEngineSide
    <2>3. /\ PageOK(game, shown)' /\ QueueOK(eval, game.board)' /\ Waits(engine, worker)'
          /\ game'.board = game.board
      BY <1>0, <1>i, <2>1, StartKeeps
    <2> QED
      BY <2>2, <2>3 DEF IInv, AnswersInTime
  <1>3. CASE EngineMove \/ Cancel \/ OnError
    <2>1. game' = Cached(game) /\ Rendered(eval) /\ nnue' = nnue /\ loads' = loads
      BY <1>3 DEF EngineMove, Cancel, OnError
    <2>2. PageOK(game, shown)' /\ QueueOK(eval, game.board)' /\ game'.board = game.board
      BY <1>0, <2>1, RenderKeeps
    <2>3. Waits(engine', worker')
      <3>1. CASE EngineMove
        <4>1. engine' = [engine EXCEPT !.busy = TRUE, !.sfen = game'.board]
              /\ worker' = [phase |-> "request", position |-> game'.board, move |-> NONE]
          BY <3>1 DEF EngineMove, Searching, Post
        <4> QED
          BY <1>0, <4>1 DEF Waits
      <3>2. CASE Cancel \/ OnError
        BY <1>i, <3>2 DEF Cancel, OnError, Freed
      <3> QED
        BY <1>3, <3>1, <3>2
    <2> QED
      BY <2>1, <2>2, <2>3 DEF IInv, AnswersInTime
  <1>4. CASE WorkerAnswers
    <2>1. UNCHANGED <<game, shown, engine, nnue, eval, loads>> /\ worker.phase = "request"
      BY <1>4 DEF WorkerAnswers
    <2>2. PICK m : worker' = [worker EXCEPT !.phase = "answer", !.move = m]
      BY <1>4 DEF WorkerAnswers
    <2>3. Waits(engine', worker')
      BY <1>0, <2>1, <2>2 DEF Waits
    <2> QED
      BY <2>1, <2>3 DEF IInv, AnswersInTime
  <1>5. CASE OnMessage
    <2>1. nnue' = nnue /\ loads' = loads /\ worker.phase = "answer"
      BY <1>5 DEF OnMessage
    <2>2. CASE Stale
      <3>1. game' = Cached(game) /\ RenderAndMaybeStart(Freed, Idle)
        BY <1>5, <2>2 DEF OnMessage
      <3>2. /\ PageOK(game, shown)' /\ QueueOK(eval, game.board)' /\ Waits(engine, worker)'
            /\ game'.board = game.board
        BY <1>0, <1>i, <3>1, StartKeeps
      <3> QED
        BY <2>1, <3>2 DEF IInv, AnswersInTime
    <2>3. CASE ~Stale
      <3> DEFINE g == IF worker.move = NONE THEN game ELSE PlayedUsi(game, worker.move)
      <3>1. game' = Cached(g) /\ engine' = Freed /\ worker' = Idle /\ Rendered(eval)
        BY <1>5, <2>3 DEF OnMessage
      <3>2. GameOK(g) /\ (g.board = game.board \/ g.board = After[<<game.board, worker.move>>])
        BY <1>0, PlayedUsiOK
      <3> HIDE DEF g
      <3>3. PageOK(game, shown)' /\ QueueOK(eval, game.board)' /\ game'.board = g.board
        BY <1>0, <3>1, <3>2, RenderKeeps
      <3>4. game.board = worker.position
        BY <1>0, <2>1, <2>3 DEF Stale, Waits
      <3> QED
        BY <1>i, <2>1, <3>1, <3>2, <3>3, <3>4 DEF IInv, AnswersInTime
    <2> QED
      BY <2>2, <2>3
  <1> QED
    BY <1>1, <1>2, <1>3, <1>4, <1>5

\* The evaluators.
LEMMA NnueKeeps ==
  ASSUME IInv, NnueStart \/ NnueResumes
  PROVE  IInv' /\ AnswersInTime
  <1>0. GameOK(game) /\ QueueTyped(eval) /\ Waits(engine, worker) /\ Typed(game)
    BY NewestGame
  <1>1. CASE NnueStart
    <2>1. game' = Cached(game) /\ Rendered(eval) /\ UNCHANGED <<engine, worker, loads>> /\ nnue = NONE
      BY <1>1 DEF NnueStart
    <2>2. PageOK(game, shown)' /\ QueueOK(eval, game.board)' /\ game'.board = game.board
      BY <1>0, <2>1, RenderKeeps
    <2> QED
      BY <1>0, <2>1, <2>2 DEF IInv, AnswersInTime
  <1>2. CASE NnueResumes
    <2>1. loads' = loads
      BY <1>2 DEF NnueResumes
    <2>2. CASE NnueEnds
      <3>1. game' = Cached(game) /\ Rendered(eval) /\ UNCHANGED <<engine, worker>>
        BY <2>2 DEF NnueEnds
      <3>2. PageOK(game, shown)' /\ QueueOK(eval, game.board)' /\ game'.board = game.board
        BY <1>0, <3>1, RenderKeeps
      <3> QED
        BY <1>0, <2>1, <3>1, <3>2 DEF IInv, AnswersInTime
    <2>3. CASE NnuePlays /\ NnueStands
      <3>1. PICK i : game' = Cached(Played(game, i))
        BY <2>3 DEF NnuePlays
      <3>2. GameOK(Played(game, i))
        BY <1>0, PlayedOK
      <3>3. /\ PageOK(game, shown)' /\ QueueOK(eval, game.board)' /\ Waits(engine, worker)'
            /\ worker' = worker \/ ~engine.busy
        <4>1. CASE RenderAndMaybeStart(engine, worker)
          BY <1>0, <3>1, <3>2, <4>1, StartKeeps
        <4>2. CASE Rendered(eval) /\ UNCHANGED <<engine, worker>>
          BY <1>0, <3>1, <3>2, <4>2, RenderKeeps
        <4> QED
          BY <2>3, <4>1, <4>2 DEF NnuePlays
      <3>4. IInv'
        BY <2>1, <3>3 DEF IInv
      <3>5. AnswersInTime
        BY <1>0, <2>3, <3>3 DEF AnswersInTime, Waits, NnueStands
      <3> QED
        BY <3>4, <3>5
    <2> QED
      BY <1>2, <2>2, <2>3 DEF NnueResumes
  <1> QED
    BY <1>1, <1>2

LEMMA EvaluatorsKeep ==
  ASSUME IInv, EvaluationResolves \/ LoadModel \/ ModelLoaded
  PROVE  IInv' /\ AnswersInTime
  <1>0. /\ GameOK(game) /\ QueueTyped(eval) /\ game.board \in Positions
        /\ QueueOK(eval, game.board) /\ DOMAIN loads \subseteq Models
    BY NewestGame DEF IInv
  <1>1. UNCHANGED <<game, shown, engine, worker, nnue>>
    BY DEF EvaluationResolves, LoadModel, ModelLoaded
  <1>2. AnswersInTime
    BY <1>1 DEF AnswersInTime
  <1>3. CASE EvaluationResolves
    <2>1. loads' = loads /\ eval.flying # NONE
          /\ (eval' = Flushed(Scored(eval)) \/ eval' = Flushed(Failed(eval)))
      BY <1>3 DEF EvaluationResolves
    <2> QED
      BY <1>0, <1>1, <1>2, <2>1, FlushedOK DEF IInv
  <1>4. CASE LoadModel
    <2>1. eval' = eval /\ DOMAIN loads' \subseteq Models
      BY <1>0, <1>4 DEF LoadModel
    <2> QED
      BY <1>0, <1>1, <1>2, <2>1 DEF IInv
  <1>5. CASE ModelLoaded
    <2>1. PICK m \in DOMAIN loads :
             /\ loads' = Without(m)
             /\ \/ eval' = Installed(eval, m)
                \/ eval' = [eval EXCEPT !.released = @ \union {m}]
      BY <1>5 DEF ModelLoaded
    <2>2. DOMAIN loads' \subseteq Models
      BY <1>0, <2>1 DEF Without
    <2>3. CASE eval' = Installed(eval, m)
      <3> DEFINE e == [eval EXCEPT !.evaluator = m, !.score = NONE,
                                   !.released = @ \union ({loads[m]} \ {NONE})]
      <3>1. QueueTyped(e)
        <4>1. /\ DOMAIN e = EvalFields /\ e.evaluator = m /\ e.flying = eval.flying
              /\ e.pending = eval.pending
          BY <1>0 DEF QueueTyped, EvalFields
        <4> HIDE DEF e
        <4> QED
          BY <1>0, <4>1 DEF QueueTyped
      <3>2. eval' = Requested(e, game.board)
        BY <2>3 DEF Installed
      <3> HIDE DEF e
      <3>3. QueueOK(eval', game.board)
        BY <1>0, <3>1, <3>2, RequestedOK
      <3> QED
        BY <1>0, <1>1, <1>2, <2>2, <3>3 DEF IInv
    <2>4. CASE eval' = [eval EXCEPT !.released = @ \union {m}]
      <3>1. /\ DOMAIN eval' = EvalFields /\ eval'.evaluator = eval.evaluator /\ eval'.score = eval.score
            /\ eval'.flying = eval.flying /\ eval'.pending = eval.pending
        BY <1>0, <2>4 DEF QueueTyped, EvalFields
      <3>2. QueueOK(eval', game.board)
        BY <1>0, <3>1 DEF QueueOK, QueueTyped, QueueFresh, Newest
      <3> QED
        BY <1>0, <1>1, <1>2, <2>2, <3>2 DEF IInv
    <2> QED
      BY <2>1, <2>3, <2>4
  <1> QED
    BY <1>3, <1>4, <1>5

LEMMA StepKeeps == IInv /\ [Next]_vars => IInv' /\ [AnswersInTime]_vars
  <1>1. ASSUME IInv, Next PROVE IInv' /\ AnswersInTime
    BY <1>1, PlayerKeeps, EngineKeeps, NnueKeeps, EvaluatorsKeep DEF Next
  <1>2. ASSUME IInv, UNCHANGED vars PROVE IInv'
    BY <1>2 DEF vars, IInv
  <1> QED
    BY <1>1, <1>2

LEMMA Invariance == Spec => []IInv
  BY InitHolds, StepKeeps, PTL DEF Spec

-----------------------------------------------------------------------------
\* Undo, redo, jumps in the timeline and moves of whomever keep one line of
\* legal moves through the board, for stacks of any size.
THEOREM TimelineAlwaysReplays == Spec => []TimelineReplays
  <1>1. IInv => TimelineReplays
    <2> SUFFICES ASSUME IInv PROVE TimelineReplays
      OBVIOUS
    <2>1. PICK line, path : OnLine(game, line, path)
      BY NewestGame DEF GameOK
    <2>2. Timeline(game) = line /\ DOMAIN line = 1 .. Len(line) /\ DOMAIN game.undo = 1 .. Len(game.undo)
      BY <2>1, TimelineIs, Lengths, LenProperties DEF OnLine, Leads
    <2>3. /\ Len(line) <= MaxUndo /\ path \in [0 .. Len(line) -> Positions]
          /\ path[0] = game.root /\ path[Len(game.undo)] = game.board
          /\ \A i \in 1 .. Len(line) : IsLegal(path[i - 1], line[i]) /\ path[i] = After[<<path[i - 1], line[i]>>]
          /\ \A i \in 1 .. Len(game.undo) : game.undo[i].before = path[i - 1]
      BY <2>1 DEF OnLine, Leads, Along
    <2> QED
      BY <2>2, <2>3 DEF TimelineReplays
  <1> QED
    BY <1>1, Invariance, PTL

\* goToPly's loops end at the ply that was clicked, on the same line: no undo
\* or redo on the way is refused, so neither loop can spin.
JumpsLand ==
  \A ply \in 1 .. Len(Timeline(game)) :
    /\ Len(JumpedTo(game, ply).undo) = ply
    /\ Timeline(JumpedTo(game, ply)) = Timeline(game)
THEOREM JumpsAlwaysLand == Spec => []JumpsLand
  <1>1. IInv => JumpsLand
    <2> SUFFICES ASSUME IInv, NEW ply \in 1 .. Len(Timeline(game))
                 PROVE  /\ Len(JumpedTo(game, ply).undo) = ply
                        /\ Timeline(JumpedTo(game, ply)) = Timeline(game)
      BY DEF JumpsLand
    <2>1. PICK line, path : OnLine(game, line, path)
      BY NewestGame DEF GameOK
    <2>2. Timeline(game) = line /\ Len(line) \in Nat
      BY <2>1, TimelineIs, Lengths
    <2>3. ply \in 0 .. Len(line)
      BY <2>2
    <2>4. OnLine(JumpedTo(game, ply), line, path) /\ Len(JumpedTo(game, ply).undo) = ply
      BY <2>1, <2>3, JumpOnLine
    <2> QED
      BY <2>2, <2>4, TimelineIs
  <1> QED
    BY <1>1, Invariance, PTL

\* The squares hold the legal moves of the board after every handler.
THEOREM ShownIsAlwaysCurrent == Spec => []ShownIsCurrent
  <1>1. IInv => ShownIsCurrent
    BY DEF IInv, PageOK, ShownIsCurrent
  <1> QED
    BY <1>1, Invariance, PTL

\* Whatever is replaced, rejected or outdated on the way, an empty queue
\* leaves the score of the board by the loaded evaluator.
THEOREM QuietScoreIsAlwaysCurrent == Spec => []QuietScoreIsCurrent
  <1>1. IInv => QuietScoreIsCurrent
    <2> SUFFICES ASSUME IInv, eval.flying = NONE, eval.evaluator # NONE
                 PROVE  eval.score = [position |-> game.board, by |-> eval.evaluator]
      BY DEF QuietScoreIsCurrent
    <2>1. eval.pending = NONE
      BY DEF IInv, QueueOK, QueueTyped
    <2>2. ~Newest(eval, eval.flying, game.board)
      BY RequestIsNew DEF Newest
    <2> QED
      BY <2>1, <2>2 DEF IInv, QueueOK, QueueFresh
  <1> QED
    BY <1>1, Invariance, PTL

\* An answer that comes too late moves nothing: an action property.
THEOREM LateAnswersNeverMove == Spec => LateAnswersMoveNothing
  <1>1. IInv /\ [Next]_vars => [AnswersInTime]_vars
    BY StepKeeps
  <1> QED
    BY <1>1, Invariance, PTL DEF Spec, LateAnswersMoveNothing
=============================================================================
