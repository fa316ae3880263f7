--------------------------- MODULE DlQueue_proofs ---------------------------
(***************************************************************************)
(* The request queue neither loses nor repeats a request, loses no wake-up *)
(* and implements DlService, for every number of callers, every size of a  *)
(* call and every size of a batch.                                         *)
(***************************************************************************)
EXTENDS DlQueue, SequenceTheorems, TLAPS

USE DlQueueAssumption

-----------------------------------------------------------------------------
(***************************************************************************)
(* Sequences without repetition.                                           *)
(***************************************************************************)
LEMMA AppendOnce ==
    ASSUME NEW S, NEW seq \in Seq(S), NEW r \in S, r \notin Range(seq), IsInjective(seq)
    PROVE  /\ Append(seq, r) \in Seq(S) /\ Len(Append(seq, r)) = Len(seq) + 1
           /\ Append(seq, r)[Len(seq) + 1] = r
           /\ \A i \in 1..Len(seq) : Append(seq, r)[i] = seq[i]
           /\ Range(Append(seq, r)) = Range(seq) \cup {r}
           /\ IsInjective(Append(seq, r))
<1>. DEFINE t == Append(seq, r)
<1>1. /\ t \in Seq(S) /\ Len(t) = Len(seq) + 1 /\ t[Len(seq) + 1] = r
      /\ \A i \in 1..Len(seq) : t[i] = seq[i]
      /\ DOMAIN t = 1..(Len(seq) + 1) /\ DOMAIN seq = 1..Len(seq) /\ Len(seq) \in Nat
  BY AppendProperties, LenProperties
<1>. HIDE DEF t
<1>2. Range(t) = Range(seq) \cup {r}
  <2>1. ASSUME NEW x \in Range(t) PROVE x \in Range(seq) \cup {r}
    <3>1. PICK i \in 1..(Len(seq) + 1) : x = t[i]
      BY <1>1 DEF Range
    <3>2. CASE i = Len(seq) + 1
      BY <1>1, <3>1, <3>2
    <3>3. CASE i \in 1..Len(seq)
      BY <1>1, <3>1, <3>3 DEF Range
    <3>. QED BY <1>1, <3>1, <3>2, <3>3
  <2>2. ASSUME NEW x \in Range(seq) PROVE x \in Range(t)
    BY <1>1 DEF Range
  <2>3. r \in Range(t)
    BY <1>1 DEF Range
  <2>. QED BY <2>1, <2>2, <2>3
<1>3. IsInjective(t)
  <2>1. SUFFICES ASSUME NEW i \in 1..(Len(seq) + 1), NEW j \in 1..(Len(seq) + 1), t[i] = t[j]
                 PROVE  i = j
    BY <1>1 DEF IsInjective
  <2>2. \A k \in 1..Len(seq) : t[k] # r
    BY <1>1 DEF Range
  <2>3. CASE i \in 1..Len(seq) /\ j \in 1..Len(seq)
    BY <1>1, <2>1, <2>3 DEF IsInjective
  <2>. QED BY <1>1, <2>1, <2>2, <2>3
<1>. QED BY <1>1, <1>2, <1>3 DEF t

LEMMA TailOnce ==
    ASSUME NEW S, NEW seq \in Seq(S), seq # <<>>, IsInjective(seq)
    PROVE  /\ Len(seq) \in Nat \ {0} /\ seq[1] \in S /\ seq[1] \in Range(seq)
           /\ Tail(seq) \in Seq(S) /\ Len(Tail(seq)) = Len(seq) - 1
           /\ \A i \in 1..Len(Tail(seq)) : Tail(seq)[i] = seq[i + 1]
           /\ Range(Tail(seq)) = Range(seq) \ {seq[1]}
           /\ IsInjective(Tail(seq))
<1>. DEFINE t == Tail(seq)
<1>1. /\ Len(seq) \in Nat \ {0} /\ DOMAIN seq = 1..Len(seq)
      /\ \A i \in 1..Len(seq) : seq[i] \in S
      /\ t \in Seq(S) /\ Len(t) = Len(seq) - 1 /\ DOMAIN t = 1..(Len(seq) - 1)
      /\ \A i \in 1..(Len(seq) - 1) : t[i] = seq[i + 1]
  BY HeadTailProperties, LenProperties, EmptySeq
<1>. HIDE DEF t
<1>2. Range(t) = Range(seq) \ {seq[1]}
  <2>1. ASSUME NEW x \in Range(t) PROVE x \in Range(seq) \ {seq[1]}
    <3>1. PICK i \in 1..(Len(seq) - 1) : x = seq[i + 1]
      BY <1>1 DEF Range
    <3>2. i + 1 \in DOMAIN seq /\ 1 \in DOMAIN seq /\ i + 1 # 1
      BY <1>1
    <3>. QED BY <3>1, <3>2 DEF Range, IsInjective
  <2>2. ASSUME NEW x \in Range(seq), x # seq[1] PROVE x \in Range(t)
    <3>1. PICK i \in 1..Len(seq) : x = seq[i]
      BY <1>1 DEF Range
    <3>2. i - 1 \in 1..(Len(seq) - 1) /\ seq[(i - 1) + 1] = x
      BY <1>1, <2>2, <3>1
    <3>3. t[i - 1] = x
      BY <1>1, <3>2
    <3>. QED BY <1>1, <3>2, <3>3 DEF Range
  <2>. QED BY <2>1, <2>2
<1>3. IsInjective(t)
  <2>1. SUFFICES ASSUME NEW i \in 1..(Len(seq) - 1), NEW j \in 1..(Len(seq) - 1), t[i] = t[j]
                 PROVE  i = j
    BY <1>1 DEF IsInjective
  <2>2. i + 1 \in DOMAIN seq /\ j + 1 \in DOMAIN seq /\ seq[i + 1] = seq[j + 1]
    BY <1>1, <2>1
  <2>3. i + 1 = j + 1
    BY <2>2 DEF IsInjective
  <2>. QED BY <2>3
<1>. QED
  <2>1. 1 \in 1..Len(seq)
    BY <1>1
  <2>. QED BY <1>1, <1>2, <1>3, <2>1 DEF t, Range

-----------------------------------------------------------------------------
(***************************************************************************)
(* Each step keeps the invariant.                                          *)
(***************************************************************************)
\* The head of the list tells whether it is empty.
LEMMA HeadOfList ==
    ASSUME TypeOK, ListIsDrawn
    PROVE  head = NULL <=> order = <<>>
<1>1. order # <<>> => order[1] \in Requests
  BY HeadTailProperties DEF TypeOK
<1>. QED BY <1>1 DEF ListIsDrawn, Requests

LEMMA IdleKeeps == ASSUME IInv, Idle PROVE IInv'
<1>. USE DEF callers, fields, list, inference
<1>0. /\ TypeOK /\ ok \subseteq done /\ ListIsDrawn /\ NothingForgotten
      /\ NoWakeUpIsLost /\ CallerInv /\ ThreadInv /\ OwnerInv
  BY DEF IInv
<1>1. TypeOK'
  BY <1>0 DEF Idle, TypeOK, Awake, Short
<1>2. ListIsDrawn'
  BY <1>0 DEF Idle, ListIsDrawn, TypeOK, Awake, Short
<1>3. NothingForgotten'
  BY <1>0 DEF Idle, NothingForgotten, Placed, InList, InBatch, TypeOK, Awake, Short
<1>4. NoWakeUpIsLost'
  BY <1>0 DEF Idle, NoWakeUpIsLost, Ours, TypeOK, Awake, Short
<1>5. CallerInv'
  BY <1>0 DEF Idle, CallerInv, TypeOK, Awake, Short
<1>6. ThreadInv'
  BY <1>0 DEF Idle, ThreadInv, TypeOK, ListIsDrawn, Awake, Short
<1>7. OwnerInv'
  BY <1>0 DEF Idle, OwnerInv, TypeOK, Awake, Short
<1>8. (ok \subseteq done)'
  BY <1>0 DEF Idle
<1>. QED BY <1>1, <1>2, <1>3, <1>4, <1>5, <1>6, <1>7, <1>8 DEF IInv

LEMMA ExitKeeps == ASSUME IInv, Exit PROVE IInv'
<1>. USE DEF callers, fields, list, inference
<1>0. /\ TypeOK /\ ok \subseteq done /\ ListIsDrawn /\ NothingForgotten
      /\ NoWakeUpIsLost /\ CallerInv /\ ThreadInv /\ OwnerInv
  BY DEF IInv
<1>1. TypeOK'
  BY <1>0 DEF Exit, TypeOK, Awake, Short
<1>2. ListIsDrawn'
  BY <1>0 DEF Exit, ListIsDrawn, TypeOK, Awake, Short
<1>3. NothingForgotten'
  BY <1>0 DEF Exit, NothingForgotten, Placed, InList, InBatch, TypeOK, Awake, Short
<1>4. NoWakeUpIsLost'
  BY <1>0 DEF Exit, NoWakeUpIsLost, Ours, TypeOK, Awake, Short
<1>5. CallerInv'
  BY <1>0 DEF Exit, CallerInv, TypeOK, Awake, Short
<1>6. ThreadInv'
  BY <1>0, HeadOfList DEF Exit, ThreadInv, Awake
<1>7. OwnerInv'
  BY <1>0 DEF Exit, OwnerInv, TypeOK, Awake, Short
<1>8. (ok \subseteq done)'
  BY <1>0 DEF Exit
<1>. QED BY <1>1, <1>2, <1>3, <1>4, <1>5, <1>6, <1>7, <1>8 DEF IInv

LEMMA FindKeeps == ASSUME IInv, Find PROVE IInv'
<1>. USE DEF callers, fields, list, inference
<1>0. /\ TypeOK /\ ok \subseteq done /\ ListIsDrawn /\ NothingForgotten
      /\ NoWakeUpIsLost /\ CallerInv /\ ThreadInv /\ OwnerInv
  BY DEF IInv
<1>1. TypeOK'
  BY <1>0 DEF Find, TypeOK, Awake, Short
<1>2. ListIsDrawn'
  BY <1>0 DEF Find, ListIsDrawn, TypeOK, Awake, Short
<1>3. NothingForgotten'
  BY <1>0 DEF Find, NothingForgotten, Placed, InList, InBatch, TypeOK, Awake, Short
<1>4. NoWakeUpIsLost'
  BY <1>0 DEF Find, NoWakeUpIsLost, Ours, TypeOK, Awake, Short
<1>5. CallerInv'
  BY <1>0 DEF Find, CallerInv, TypeOK, Awake, Short
<1>6. ThreadInv'
  BY <1>0 DEF Find, ThreadInv, TypeOK, ListIsDrawn, Awake, Short
<1>7. OwnerInv'
  BY <1>0 DEF Find, OwnerInv, TypeOK, Awake, Short
<1>8. (ok \subseteq done)'
  BY <1>0 DEF Find
<1>. QED BY <1>1, <1>2, <1>3, <1>4, <1>5, <1>6, <1>7, <1>8 DEF IInv

LEMMA FillKeeps == ASSUME IInv, Fill PROVE IInv'
<1>. USE DEF callers, fields, list, inference
<1>0. /\ TypeOK /\ ok \subseteq done /\ ListIsDrawn /\ NothingForgotten
      /\ NoWakeUpIsLost /\ CallerInv /\ ThreadInv /\ OwnerInv
  BY DEF IInv
<1>1. TypeOK'
  BY <1>0 DEF Fill, TypeOK, Awake, Short
<1>2. ListIsDrawn'
  BY <1>0 DEF Fill, ListIsDrawn, TypeOK, Awake, Short
<1>3. NothingForgotten'
  BY <1>0 DEF Fill, NothingForgotten, Placed, InList, InBatch, TypeOK, Awake, Short
<1>4. NoWakeUpIsLost'
  BY <1>0 DEF Fill, NoWakeUpIsLost, Ours, TypeOK, Awake, Short
<1>5. CallerInv'
  BY <1>0 DEF Fill, CallerInv, TypeOK, Awake, Short
<1>6. ThreadInv'
  BY <1>0 DEF Fill, ThreadInv, TypeOK, ListIsDrawn, Awake, Short
<1>7. OwnerInv'
  BY <1>0 DEF Fill, OwnerInv, TypeOK, Awake, Short
<1>8. (ok \subseteq done)'
  BY <1>0 DEF Fill
<1>. QED BY <1>1, <1>2, <1>3, <1>4, <1>5, <1>6, <1>7, <1>8 DEF IInv

LEMMA FilledKeeps == ASSUME IInv, Filled PROVE IInv'
<1>. USE DEF callers, fields, list, inference
<1>0. /\ TypeOK /\ ok \subseteq done /\ ListIsDrawn /\ NothingForgotten
      /\ NoWakeUpIsLost /\ CallerInv /\ ThreadInv /\ OwnerInv
  BY DEF IInv
<1>1. TypeOK'
  BY <1>0 DEF Filled, TypeOK, Awake, Short
<1>2. ListIsDrawn'
  BY <1>0 DEF Filled, ListIsDrawn, TypeOK, Awake, Short
<1>3. NothingForgotten'
  BY <1>0 DEF Filled, NothingForgotten, Placed, InList, InBatch, TypeOK, Awake, Short
<1>4. NoWakeUpIsLost'
  BY <1>0 DEF Filled, NoWakeUpIsLost, Ours, TypeOK, Awake, Short
<1>5. CallerInv'
  BY <1>0 DEF Filled, CallerInv, TypeOK, Awake, Short
<1>6. ThreadInv'
  BY <1>0 DEF Filled, ThreadInv, TypeOK, ListIsDrawn, Awake, Short
<1>7. OwnerInv'
  BY <1>0 DEF Filled, OwnerInv, TypeOK, Awake, Short
<1>8. (ok \subseteq done)'
  BY <1>0 DEF Filled
<1>. QED BY <1>1, <1>2, <1>3, <1>4, <1>5, <1>6, <1>7, <1>8 DEF IInv

LEMMA TakenKeeps == ASSUME IInv, Taken PROVE IInv'
<1>. USE DEF callers, fields, list, inference
<1>0. /\ TypeOK /\ ok \subseteq done /\ ListIsDrawn /\ NothingForgotten
      /\ NoWakeUpIsLost /\ CallerInv /\ ThreadInv /\ OwnerInv
  BY DEF IInv
<1>1. TypeOK'
  BY <1>0 DEF Taken, TypeOK
<1>2. ListIsDrawn'
  BY <1>0, HeadOfList DEF Taken, ListIsDrawn
<1>3. NothingForgotten'
  BY <1>0 DEF Taken, NothingForgotten, Placed, InList, InBatch, TypeOK
<1>4. NoWakeUpIsLost'
  BY <1>0 DEF Taken, NoWakeUpIsLost, Ours, TypeOK
<1>5. CallerInv'
  BY <1>0 DEF Taken, CallerInv, ThreadInv, TypeOK
<1>6. ThreadInv'
  <2>1. mutex = Thread /\ (order # <<>> \/ batch # <<>>) /\ Thread \notin asleep
    BY <1>0 DEF Taken, ThreadInv
  <2>2. Len(<<>>) = 0 /\ ~(0 >= BatchSize)
    OBVIOUS
  <2>3. batch # <<>>
    <3>1. CASE head = NULL
      BY <1>0, <2>1, <3>1, HeadOfList
    <3>2. CASE ~(Len(batch) < BatchSize)
      BY <2>2, <3>2
    <3>. QED BY <3>1, <3>2 DEF Taken
  <2>. QED BY <1>0, <2>1, <2>3 DEF Taken, ThreadInv
<1>7. OwnerInv'
  BY <1>0 DEF Taken, OwnerInv, TypeOK
<1>8. (ok \subseteq done)'
  BY <1>0 DEF Taken
<1>. QED BY <1>1, <1>2, <1>3, <1>4, <1>5, <1>6, <1>7, <1>8 DEF IInv

LEMMA InferKeeps == ASSUME IInv, Infer PROVE IInv'
<1>. USE DEF callers, fields, list, inference
<1>0. /\ TypeOK /\ ok \subseteq done /\ ListIsDrawn /\ NothingForgotten
      /\ NoWakeUpIsLost /\ CallerInv /\ ThreadInv /\ OwnerInv
  BY DEF IInv
<1>1. TypeOK'
  BY <1>0 DEF Infer, TypeOK
<1>2. ListIsDrawn'
  BY <1>0 DEF Infer, ListIsDrawn, TypeOK
<1>3. NothingForgotten'
  BY <1>0 DEF Infer, NothingForgotten, Placed, InList, InBatch, TypeOK
<1>4. NoWakeUpIsLost'
  BY <1>0 DEF Infer, NoWakeUpIsLost, Ours, TypeOK
<1>5. CallerInv'
  BY <1>0 DEF Infer, CallerInv, TypeOK
<1>6. ThreadInv'
  BY <1>0 DEF Infer, ThreadInv, TypeOK, ListIsDrawn
<1>7. OwnerInv'
  BY <1>0 DEF Infer, OwnerInv, TypeOK
<1>8. (ok \subseteq done)'
  BY <1>0 DEF Infer
<1>. QED BY <1>1, <1>2, <1>3, <1>4, <1>5, <1>6, <1>7, <1>8 DEF IInv

LEMMA PublishKeeps == ASSUME IInv, Publish PROVE IInv'
<1>. USE DEF callers, fields, list, inference
<1>0. /\ TypeOK /\ ok \subseteq done /\ ListIsDrawn /\ NothingForgotten
      /\ NoWakeUpIsLost /\ CallerInv /\ ThreadInv /\ OwnerInv
  BY DEF IInv
<1>1. TypeOK'
  <2>1. InBatch \subseteq Requests
    BY <1>0 DEF InBatch, Range, TypeOK
  <2>2. done' \subseteq Requests /\ ok' \subseteq Requests /\ batch' \in Seq(Requests)
    BY <1>0, <2>1 DEF Publish, TypeOK
  <2>. QED BY <1>0, <2>2 DEF Publish, TypeOK
<1>2. ListIsDrawn'
  BY <1>0 DEF Publish, ListIsDrawn, TypeOK
<1>3. NothingForgotten'
  <2>1. batch' = <<>> /\ Range(<<>>) = {} /\ IsInjective(<<>>)
    BY DEF Publish, Range, IsInjective
  <2>2. /\ done' = done \cup InBatch /\ InList' = InList /\ Placed' = Placed /\ InBatch' = {}
        /\ order' = order
    BY <2>1 DEF Publish, InList, InBatch, Placed
  <2>. QED BY <1>0, <2>1, <2>2 DEF NothingForgotten
<1>4. NoWakeUpIsLost'
  BY <1>0 DEF Publish, NoWakeUpIsLost, Ours, TypeOK
<1>5. CallerInv'
  BY <1>0 DEF Publish, CallerInv, TypeOK
<1>6. ThreadInv'
  BY <1>0 DEF Publish, ThreadInv, TypeOK, ListIsDrawn
<1>7. OwnerInv'
  BY <1>0 DEF Publish, OwnerInv, TypeOK
<1>8. (ok \subseteq done)'
  BY <1>0 DEF Publish
<1>. QED BY <1>1, <1>2, <1>3, <1>4, <1>5, <1>6, <1>7, <1>8 DEF IInv

LEMMA CloseKeeps == ASSUME IInv, Close PROVE IInv'
<1>. USE DEF callers, fields, list, inference
<1>0. /\ TypeOK /\ ok \subseteq done /\ ListIsDrawn /\ NothingForgotten
      /\ NoWakeUpIsLost /\ CallerInv /\ ThreadInv /\ OwnerInv
  BY DEF IInv
<1>1. TypeOK'
  BY <1>0 DEF Close, TypeOK
<1>2. ListIsDrawn'
  BY <1>0 DEF Close, ListIsDrawn, TypeOK
<1>3. NothingForgotten'
  BY <1>0 DEF Close, NothingForgotten, Placed, InList, InBatch, TypeOK
<1>4. NoWakeUpIsLost'
  BY <1>0 DEF Close, NoWakeUpIsLost, Ours, TypeOK
<1>5. CallerInv'
  BY <1>0 DEF Close, CallerInv, TypeOK
<1>6. ThreadInv'
  BY <1>0 DEF Close, ThreadInv, TypeOK, ListIsDrawn
<1>7. OwnerInv'
  BY <1>0 DEF Close, OwnerInv, CallerInv, TypeOK
<1>8. (ok \subseteq done)'
  BY <1>0 DEF Close
<1>. QED BY <1>1, <1>2, <1>3, <1>4, <1>5, <1>6, <1>7, <1>8 DEF IInv

LEMMA FreeKeeps == ASSUME IInv, Free PROVE IInv'
<1>. USE DEF callers, fields, list, inference
<1>0. /\ TypeOK /\ ok \subseteq done /\ ListIsDrawn /\ NothingForgotten
      /\ NoWakeUpIsLost /\ CallerInv /\ ThreadInv /\ OwnerInv
  BY DEF IInv
<1>1. TypeOK'
  BY <1>0 DEF Free, TypeOK
<1>2. ListIsDrawn'
  BY <1>0 DEF Free, ListIsDrawn, TypeOK
<1>3. NothingForgotten'
  BY <1>0 DEF Free, NothingForgotten, Placed, InList, InBatch, TypeOK
<1>4. NoWakeUpIsLost'
  BY <1>0 DEF Free, NoWakeUpIsLost, Ours, TypeOK
<1>5. CallerInv'
  BY <1>0 DEF Free, CallerInv, TypeOK
<1>6. ThreadInv'
  BY <1>0 DEF Free, ThreadInv, TypeOK, ListIsDrawn
<1>7. OwnerInv'
  BY <1>0 DEF Free, OwnerInv, TypeOK
<1>8. (ok \subseteq done)'
  BY <1>0 DEF Free
<1>. QED BY <1>1, <1>2, <1>3, <1>4, <1>5, <1>6, <1>7, <1>8 DEF IInv

LEMMA SpuriousWakeKeeps == ASSUME IInv, SpuriousWake PROVE IInv'
<1>. USE DEF callers, fields, list, inference
<1>0. /\ TypeOK /\ ok \subseteq done /\ ListIsDrawn /\ NothingForgotten
      /\ NoWakeUpIsLost /\ CallerInv /\ ThreadInv /\ OwnerInv
  BY DEF IInv
<1>1. TypeOK'
  BY <1>0 DEF SpuriousWake, TypeOK
<1>2. ListIsDrawn'
  BY <1>0 DEF SpuriousWake, ListIsDrawn, TypeOK
<1>3. NothingForgotten'
  BY <1>0 DEF SpuriousWake, NothingForgotten, Placed, InList, InBatch, TypeOK
<1>4. NoWakeUpIsLost'
  BY <1>0 DEF SpuriousWake, NoWakeUpIsLost, Ours, TypeOK
<1>5. CallerInv'
  BY <1>0 DEF SpuriousWake, CallerInv, TypeOK
<1>6. ThreadInv'
  BY <1>0 DEF SpuriousWake, ThreadInv, TypeOK, ListIsDrawn
<1>7. OwnerInv'
  BY <1>0 DEF SpuriousWake, OwnerInv, TypeOK
<1>8. (ok \subseteq done)'
  BY <1>0 DEF SpuriousWake
<1>. QED BY <1>1, <1>2, <1>3, <1>4, <1>5, <1>6, <1>7, <1>8 DEF IInv

LEMMA RefusedKeeps == ASSUME IInv, NEW c \in Callers, Refused(c) PROVE IInv'
<1>. USE DEF callers, fields, list, inference
<1>0. /\ TypeOK /\ ok \subseteq done /\ ListIsDrawn /\ NothingForgotten
      /\ NoWakeUpIsLost /\ CallerInv /\ ThreadInv /\ OwnerInv
  BY DEF IInv
<1>1. TypeOK'
  BY <1>0 DEF Refused, TypeOK
<1>2. ListIsDrawn'
  BY <1>0 DEF Refused, ListIsDrawn, TypeOK
<1>3. NothingForgotten'
  BY <1>0 DEF Refused, NothingForgotten, Placed, InList, InBatch, TypeOK
<1>4. NoWakeUpIsLost'
  BY <1>0 DEF Refused, NoWakeUpIsLost, Ours, TypeOK
<1>5. CallerInv'
  BY <1>0 DEF Refused, CallerInv, TypeOK
<1>6. ThreadInv'
  BY <1>0 DEF Refused, ThreadInv, TypeOK, ListIsDrawn
<1>7. OwnerInv'
  BY <1>0 DEF Refused, OwnerInv, TypeOK
<1>8. (ok \subseteq done)'
  BY <1>0 DEF Refused
<1>. QED BY <1>1, <1>2, <1>3, <1>4, <1>5, <1>6, <1>7, <1>8 DEF IInv

LEMMA WaitAgainKeeps == ASSUME IInv, NEW c \in Callers, WaitAgain(c) PROVE IInv'
<1>. USE DEF callers, fields, list, inference
<1>0. /\ TypeOK /\ ok \subseteq done /\ ListIsDrawn /\ NothingForgotten
      /\ NoWakeUpIsLost /\ CallerInv /\ ThreadInv /\ OwnerInv
  BY DEF IInv
<1>1. TypeOK'
  BY <1>0 DEF WaitAgain, TypeOK
<1>2. ListIsDrawn'
  BY <1>0 DEF WaitAgain, ListIsDrawn, TypeOK
<1>3. NothingForgotten'
  BY <1>0 DEF WaitAgain, NothingForgotten, Placed, InList, InBatch, TypeOK
<1>4. NoWakeUpIsLost'
  BY <1>0 DEF WaitAgain, NoWakeUpIsLost, Ours, TypeOK
<1>5. CallerInv'
  BY <1>0 DEF WaitAgain, CallerInv, TypeOK
<1>6. ThreadInv'
  BY <1>0 DEF WaitAgain, ThreadInv, TypeOK, ListIsDrawn
<1>7. OwnerInv'
  BY <1>0 DEF WaitAgain, OwnerInv, TypeOK
<1>8. (ok \subseteq done)'
  BY <1>0 DEF WaitAgain
<1>. QED BY <1>1, <1>2, <1>3, <1>4, <1>5, <1>6, <1>7, <1>8 DEF IInv

LEMMA AnnounceKeeps == ASSUME IInv, NEW c \in Callers, Announce(c) PROVE IInv'
<1>. USE DEF callers, fields, list, inference
<1>0. /\ TypeOK /\ ok \subseteq done /\ ListIsDrawn /\ NothingForgotten
      /\ NoWakeUpIsLost /\ CallerInv /\ ThreadInv /\ OwnerInv
  BY DEF IInv
<1>1. TypeOK'
  BY <1>0 DEF Announce, TypeOK
<1>2. ListIsDrawn'
  BY <1>0 DEF Announce, ListIsDrawn, TypeOK
<1>3. NothingForgotten'
  BY <1>0 DEF Announce, NothingForgotten, Placed, InList, InBatch, TypeOK
<1>4. NoWakeUpIsLost'
  <2>1. <<c, 1>> \notin done /\ 1 \in 1..count[c]
    BY <1>0 DEF Announce, CallerInv, TypeOK
  <2>2. <<c, 1>> \in Ours(c)'
    BY <2>1 DEF Announce, Ours
  <2>3. asleep' = {c} /\ done' = done /\ Thread # c
    BY DEF Announce
  <2>. QED BY <2>1, <2>2, <2>3 DEF NoWakeUpIsLost
<1>5. CallerInv'
  BY <1>0 DEF Announce, CallerInv, TypeOK
<1>6. ThreadInv'
  BY <1>0 DEF Announce, ThreadInv, CallerInv
<1>7. OwnerInv'
  BY <1>0 DEF Announce, OwnerInv, TypeOK
<1>8. (ok \subseteq done)'
  BY <1>0 DEF Announce
<1>. QED BY <1>1, <1>2, <1>3, <1>4, <1>5, <1>6, <1>7, <1>8 DEF IInv

LEMMA ReturnKeeps == ASSUME IInv, NEW c \in Callers, Return(c) PROVE IInv'
<1>. USE DEF callers, fields, list, inference
<1>0. /\ TypeOK /\ ok \subseteq done /\ ListIsDrawn /\ NothingForgotten
      /\ NoWakeUpIsLost /\ CallerInv /\ ThreadInv /\ OwnerInv
  BY DEF IInv
<1>1. TypeOK'
  BY <1>0 DEF Return, TypeOK, Ours
<1>2. ListIsDrawn'
  BY <1>0 DEF Return, ListIsDrawn, TypeOK, Ours
<1>3. NothingForgotten'
  <2>1. Placed' = Placed \ Ours(c)
    <3>1. placed[c] = count[c] /\ count[c] \in 0..MaxCount
      BY <1>0 DEF Return, CallerInv, TypeOK
    <3>2. \A r \in Requests : r \in Ours(c) <=> r[1] = c /\ r[2] <= placed[c]
      BY <3>1 DEF Ours, Requests
    <3>3. \A r \in Requests : placed'[r[1]] = IF r[1] = c THEN 0 ELSE placed[r[1]]
      BY <1>0 DEF Return, TypeOK, Requests
    <3>4. \A r \in Requests : r[2] \in 1..MaxCount /\ ~(r[2] <= 0)
      BY DEF Requests
    <3>. QED BY <3>2, <3>3, <3>4 DEF Placed
  <2>2. /\ InList' = InList /\ InBatch' = InBatch /\ done' = done \ Ours(c) /\ Ours(c) \subseteq done
        /\ order' = order /\ batch' = batch
    BY DEF Return, InList, InBatch
  <2>. QED BY <1>0, <2>1, <2>2 DEF NothingForgotten
<1>4. NoWakeUpIsLost'
  BY <1>0 DEF Return, NoWakeUpIsLost, Ours, TypeOK, Ours
<1>5. CallerInv'
  BY <1>0 DEF Return, CallerInv, TypeOK, Ours
<1>6. ThreadInv'
  BY <1>0 DEF Return, ThreadInv, TypeOK, ListIsDrawn, Ours
<1>7. OwnerInv'
  BY <1>0 DEF Return, OwnerInv, TypeOK, Ours
<1>8. (ok \subseteq done)'
  BY <1>0 DEF Return, Ours
<1>. QED BY <1>1, <1>2, <1>3, <1>4, <1>5, <1>6, <1>7, <1>8 DEF IInv

LEMMA EnterKeeps == ASSUME IInv, NEW c \in Callers, NEW n \in 1..MaxCount, Enter(c, n) PROVE IInv'
<1>. USE DEF callers, fields, list, inference
<1>0. /\ TypeOK /\ ok \subseteq done /\ ListIsDrawn /\ NothingForgotten
      /\ NoWakeUpIsLost /\ CallerInv /\ ThreadInv /\ OwnerInv
  BY DEF IInv
<1>1. TypeOK'
  BY <1>0 DEF Enter, TypeOK
<1>2. ListIsDrawn'
  <2>1. \A r \in InList : r \in Requests /\ r[1] # c
    BY <1>0 DEF Enter, NothingForgotten, Placed, CallerInv, TypeOK, Requests
  <2>2. \A i \in 1..Len(order) : order[i] \in InList
    BY <1>0 DEF InList, Range, TypeOK
  <2>3. \A i \in 1..Len(order) : next'[order[i]] = next[order[i]]
    BY <1>0, <2>1, <2>2 DEF Enter, TypeOK
  <2>. QED BY <1>0, <2>3 DEF Enter, ListIsDrawn
<1>3. NothingForgotten'
  BY <1>0 DEF Enter, NothingForgotten, Placed, InList, InBatch, TypeOK
<1>4. NoWakeUpIsLost'
  <2>1. c \notin asleep
    BY <1>0 DEF Enter, CallerInv
  <2>2. \A d \in Callers : d # c => Ours(d)' = Ours(d)
    BY <1>0 DEF Enter, Ours, TypeOK
  <2>3. asleep' = asleep /\ done' = done /\ head' = head /\ stop' = stop /\ at' = at /\ mutex' # Nobody
    BY DEF Enter
  <2>. QED BY <1>0, <2>1, <2>2, <2>3 DEF NoWakeUpIsLost
<1>5. CallerInv'
  <2>1. placed[c] = 0 /\ count[c] = 0 /\ mutex = Nobody /\ c \notin asleep
    BY <1>0 DEF Enter, CallerInv, TypeOK
  <2>2. \A i \in 1..MaxCount : <<c, i>> \notin done
    BY <1>0, <2>1 DEF NothingForgotten, Placed, Requests
  <2>3. \A i \in 1..MaxCount : next'[<<c, i>>] = NULL
    BY DEF Enter, Requests
  <2>4. /\ placed' = placed /\ asleep' = asleep /\ done' = done /\ mutex' = c
        /\ count'[c] = n /\ phase'[c] = "placing"
        /\ \A d \in Callers \ {c} : count'[d] = count[d] /\ phase'[d] = phase[d]
    BY <1>0 DEF Enter, TypeOK
  <2>5. \A d \in Callers \ {c} : phase[d] # "placing"
    BY <1>0, <2>1 DEF CallerInv
  <2>. QED BY <1>0, <2>1, <2>2, <2>3, <2>4, <2>5 DEF CallerInv
<1>6. ThreadInv'
  BY <1>0 DEF Enter, ThreadInv, TypeOK, ListIsDrawn
<1>7. OwnerInv'
  BY <1>0 DEF Enter, OwnerInv, TypeOK
<1>8. (ok \subseteq done)'
  BY <1>0 DEF Enter
<1>. QED BY <1>1, <1>2, <1>3, <1>4, <1>5, <1>6, <1>7, <1>8 DEF IInv

\* A request hung on the tail is the new end of the list.
LEMMA PlaceKeeps == ASSUME IInv, NEW c \in Callers, Place(c) PROVE IInv'
<1>. DEFINE r == <<c, placed[c] + 1>>
<1>. USE DEF callers, fields, list, inference
<1>0. /\ TypeOK /\ ok \subseteq done /\ ListIsDrawn /\ NothingForgotten
      /\ NoWakeUpIsLost /\ CallerInv /\ ThreadInv /\ OwnerInv
  BY DEF IInv
<1>a. /\ mutex = c /\ c # Thread /\ c # Nobody /\ placed[c] \in 0..MaxCount /\ placed[c] < count[c]
      /\ count[c] \in 0..MaxCount /\ placed[c] + 1 \in 1..MaxCount /\ phase[c] = "placing"
  BY <1>0 DEF Place, CallerInv, TypeOK
<1>b. r \in Requests /\ r \notin Placed /\ next[r] = NULL /\ r # NULL
  BY <1>0, <1>a DEF Requests, Placed, CallerInv
<1>c. r \notin InList /\ r \notin InBatch /\ r \notin done
  BY <1>0, <1>b DEF NothingForgotten
<1>d. at # "taking" /\ (order = <<>> <=> tail = NULL) /\ (order # <<>> => tail \in InList)
  <2>1. order # <<>> => Len(order) \in 1..Len(order) /\ order[Len(order)] \in Requests
    BY <1>0, HeadTailProperties, LenProperties, EmptySeq DEF TypeOK
  <2>2. order # <<>> => order[Len(order)] \in InList
    BY <1>0, <2>1 DEF InList, Range, TypeOK
  <2>. QED BY <1>0, <1>a, <2>1, <2>2 DEF ThreadInv, ListIsDrawn, Requests
<1>e. order \in Seq(Requests) /\ IsInjective(order) /\ r \notin Range(order)
  BY <1>0, <1>c DEF TypeOK, NothingForgotten, InList
<1>. DEFINE t == Append(order, r)
<1>f. /\ t \in Seq(Requests) /\ Len(t) = Len(order) + 1 /\ t[Len(order) + 1] = r
      /\ \A i \in 1..Len(order) : t[i] = order[i]
      /\ Range(t) = Range(order) \cup {r} /\ IsInjective(t)
      /\ Len(order) \in Nat
  BY <1>b, <1>e, AppendOnce, LenProperties
<1>g. order' = t /\ tail' = r /\ queued' = queued + 1 /\ placed' = [placed EXCEPT ![c] = @ + 1]
  BY DEF Place
<1>h. /\ order # <<>> => head' = head /\ next' = [next EXCEPT ![tail] = r]
      /\ order = <<>> => head' = r /\ next' = next
  BY <1>d DEF Place
<1>i. /\ mutex' = mutex /\ asleep' = asleep /\ phase' = phase /\ count' = count /\ told' = told
      /\ done' = done /\ ok' = ok /\ at' = at /\ batch' = batch /\ verdict' = verdict
      /\ stop' = stop /\ owner' = owner
  BY DEF Place
<1>. HIDE DEF t, r
<1>j. \A q \in Requests : next'[q] = IF order # <<>> /\ q = tail THEN r ELSE next[q]
  BY <1>0, <1>h DEF TypeOK
<1>1. TypeOK'
  <2>1. placed' \in [Callers -> 0..MaxCount]
    BY <1>0, <1>a, <1>g DEF TypeOK
  <2>2. next' \in [Requests -> Requests \cup {NULL}] /\ head' \in Requests \cup {NULL}
    <3>1. /\ next \in [Requests -> Requests \cup {NULL}] /\ head \in Requests \cup {NULL}
          /\ r \in Requests
      BY <1>0, <1>b DEF TypeOK
    <3>2. CASE order = <<>>
      BY <1>h, <3>1, <3>2
    <3>3. CASE order # <<>>
      BY <1>h, <3>1, <3>3
    <3>. QED BY <3>2, <3>3
  <2>. QED BY <1>0, <1>b, <1>f, <1>g, <1>i, <2>1, <2>2 DEF TypeOK
<1>2. ListIsDrawn'
  <2>1. queued' = Len(order') /\ order' # <<>> /\ Len(order') = Len(order) + 1
    <3>1. Len(<<>>) = 0
      OBVIOUS
    <3>. QED BY <1>0, <1>f, <1>g, <3>1 DEF ListIsDrawn
  <2>2. order'[Len(order')] = tail'
    BY <1>f, <1>g
  <2>3. head' = order'[1]
    <3>1. CASE order = <<>>
      BY <1>f, <1>g, <1>h, <3>1
    <3>2. CASE order # <<>>
      <4>1. 1 \in 1..Len(order)
        BY <1>e, <3>2, EmptySeq, LenProperties
      <4>. QED BY <1>0, <1>f, <1>g, <1>h, <3>2, <4>1 DEF ListIsDrawn
    <3>. QED BY <3>1, <3>2
  <2>4. ASSUME NEW i \in 1..Len(order')
        PROVE  next'[order'[i]] = IF i = Len(order') THEN NULL ELSE order'[i + 1]
    <3>1. CASE i = Len(order')
      <4>1. order'[i] = r
        BY <1>f, <1>g, <3>1
      <4>2. ~(order # <<>> /\ r = tail)
        BY <1>c, <1>d
      <4>3. next'[r] = NULL
        BY <1>b, <1>j, <4>2
      <4>. QED BY <3>1, <4>1, <4>3
    <3>2. CASE i \in 1..Len(order) /\ i # Len(order)
      <4>1. order'[i] = order[i] /\ order'[i + 1] = order[i + 1] /\ order[i] \in Requests
        BY <1>e, <1>f, <1>g, <3>2
      <4>2. order # <<>> /\ tail = order[Len(order)] /\ Len(order) \in 1..Len(order)
        BY <1>0, <1>e, <3>2, EmptySeq DEF ListIsDrawn
      <4>3. order[i] # tail
        BY <1>e, <3>2, <4>2 DEF IsInjective
      <4>4. next[order[i]] = order[i + 1]
        BY <1>0, <3>2, <4>2 DEF ListIsDrawn
      <4>. QED BY <1>j, <2>1, <3>2, <4>1, <4>3, <4>4
    <3>3. CASE i = Len(order)
      <4>1. order # <<>> /\ tail = order[i] /\ order'[i] = order[i] /\ order[i] \in Requests
        BY <1>0, <1>e, <1>f, <1>g, <2>1, <2>4, <3>3, EmptySeq DEF ListIsDrawn
      <4>. QED BY <1>f, <1>g, <1>j, <2>1, <3>3, <4>1
    <3>. QED BY <1>f, <2>1, <2>4, <3>1, <3>2, <3>3
  <2>. QED BY <2>1, <2>2, <2>3, <2>4 DEF ListIsDrawn
<1>3. NothingForgotten'
  <2>1. Placed' = Placed \cup {r}
    <3>1. \A q \in Requests : placed'[q[1]] = IF q[1] = c THEN placed[c] + 1 ELSE placed[q[1]]
      BY <1>0, <1>g DEF TypeOK, Requests
    <3>2. \A q \in Requests : q[1] = c /\ q[2] = placed[c] + 1 => q = r
      BY DEF Requests, r
    <3>3. \A q \in Requests : q[2] \in Nat
      BY DEF Requests
    <3>4. \A q \in Requests : q[2] <= placed[c] + 1 <=> q[2] <= placed[c] \/ q[2] = placed[c] + 1
      BY <1>a, <3>3
    <3>5. r \in Requests /\ r[1] = c /\ r[2] = placed[c] + 1
      BY <1>b DEF r
    <3>. QED BY <3>1, <3>2, <3>4, <3>5 DEF Placed
  <2>2. InList' = InList \cup {r} /\ InBatch' = InBatch
    BY <1>f, <1>g, <1>i DEF InList, InBatch
  <2>. QED BY <1>0, <1>c, <1>f, <1>g, <1>i, <2>1, <2>2 DEF NothingForgotten
<1>4. NoWakeUpIsLost'
  BY <1>0, <1>a, <1>i DEF NoWakeUpIsLost, Ours
<1>5. CallerInv'
  <2>1. \A i \in 1..MaxCount : i > placed[c] + 1 => next'[<<c, i>>] = NULL
    <3>1. SUFFICES ASSUME NEW i \in 1..MaxCount, i > placed[c] + 1 PROVE next'[<<c, i>>] = NULL
      OBVIOUS
    <3>2. <<c, i>> \in Requests /\ <<c, i>> \notin Placed /\ next[<<c, i>>] = NULL
      BY <1>0, <1>a, <3>1 DEF CallerInv, Requests, Placed
    <3>3. order # <<>> => <<c, i>> # tail
      BY <1>0, <1>d, <3>2 DEF NothingForgotten
    <3>. QED BY <1>j, <3>2, <3>3
  <2>2. placed'[c] = placed[c] + 1 /\ \A d \in Callers \ {c} : placed'[d] = placed[d] /\ phase[d] # "placing"
    BY <1>0, <1>a, <1>g DEF TypeOK, CallerInv
  <2>. QED BY <1>0, <1>a, <1>i, <2>1, <2>2 DEF CallerInv
<1>6. ThreadInv'
  <2>1. order' # <<>>
    <3>1. Len(<<>>) = 0
      OBVIOUS
    <3>. QED BY <1>f, <1>g, <3>1
  <2>2. at # "exited"
    BY <1>0, <1>a DEF ThreadInv, OwnerInv
  <2>. QED BY <1>0, <1>i, <2>1, <2>2 DEF ThreadInv
<1>7. OwnerInv'
  BY <1>0, <1>i DEF OwnerInv
<1>8. (ok \subseteq done)'
  BY <1>0, <1>i
<1>. QED BY <1>1, <1>2, <1>3, <1>4, <1>5, <1>6, <1>7, <1>8 DEF IInv

\* The head of the list moves to the end of the batch.
LEMMA TakeKeeps == ASSUME IInv, Take PROVE IInv'
<1>. DEFINE t == Tail(order)
            b == Append(batch, head)
<1>. USE DEF callers, fields, list, inference
<1>0. /\ TypeOK /\ ok \subseteq done /\ ListIsDrawn /\ NothingForgotten
      /\ NoWakeUpIsLost /\ CallerInv /\ ThreadInv /\ OwnerInv
  BY DEF IInv
<1>a. order # <<>> /\ head = order[1] /\ mutex = Thread /\ at = "taking"
  BY <1>0, HeadOfList DEF Take, ListIsDrawn, ThreadInv
<1>b. order \in Seq(Requests) /\ IsInjective(order) /\ batch \in Seq(Requests) /\ IsInjective(batch)
  BY <1>0 DEF TypeOK, NothingForgotten
<1>c. /\ Len(order) \in Nat \ {0} /\ order[1] \in Requests /\ order[1] \in Range(order)
      /\ t \in Seq(Requests) /\ Len(t) = Len(order) - 1
      /\ \A i \in 1..Len(t) : t[i] = order[i + 1]
      /\ Range(t) = Range(order) \ {order[1]} /\ IsInjective(t)
  BY <1>a, <1>b, TailOnce
<1>d. head \in Requests /\ head \notin Range(batch)
  BY <1>0, <1>a, <1>c DEF NothingForgotten, InList, InBatch
<1>e. /\ b \in Seq(Requests) /\ Len(b) = Len(batch) + 1
      /\ Range(b) = Range(batch) \cup {head} /\ IsInjective(b)
      /\ Len(batch) \in Nat
  BY <1>b, <1>d, AppendOnce, LenProperties
<1>f. order' = t /\ batch' = b /\ head' = next[head] /\ queued' = queued - 1
  BY DEF Take
<1>g. /\ mutex' = mutex /\ asleep' = asleep /\ phase' = phase /\ count' = count /\ placed' = placed
      /\ told' = told /\ next' = next /\ done' = done /\ ok' = ok /\ tail' = tail /\ at' = at
      /\ verdict' = verdict /\ stop' = stop /\ owner' = owner
  BY DEF Take
<1>. HIDE DEF t, b
<1>h. Len(<<>>) = 0 /\ b # <<>>
  BY <1>e
<1>1. TypeOK'
  <2>1. queued' \in Nat
    BY <1>0, <1>c, <1>f DEF ListIsDrawn
  <2>2. head' \in Requests \cup {NULL}
    BY <1>0, <1>d, <1>f DEF TypeOK
  <2>. QED BY <1>0, <1>c, <1>e, <1>f, <1>g, <2>1, <2>2 DEF TypeOK
<1>2. ListIsDrawn'
  <2>1. queued' = Len(order')
    BY <1>0, <1>c, <1>f DEF ListIsDrawn
  <2>2. next[order[1]] = IF 1 = Len(order) THEN NULL ELSE order[2]
    BY <1>0, <1>a, <1>c DEF ListIsDrawn
  <2>3. ASSUME order' = <<>> PROVE head' = NULL
    BY <1>a, <1>c, <1>f, <1>h, <2>2, <2>3
  <2>4. ASSUME order' # <<>>
        PROVE  /\ head' = order'[1] /\ tail' = order'[Len(order')]
               /\ \A i \in 1..Len(order') :
                     next'[order'[i]] = IF i = Len(order') THEN NULL ELSE order'[i + 1]
    <3>1. Len(t) \in Nat \ {0} /\ Len(order) # 1
      BY <1>c, <1>f, <2>4, EmptySeq
    <3>2. t[1] = order[2] /\ t[Len(t)] = order[Len(order)]
      BY <1>c, <3>1
    <3>3. \A i \in 1..Len(t) : t[i] = order[i + 1] /\ (i # Len(t) => t[i + 1] = order[(i + 1) + 1])
      BY <1>c, <3>1
    <3>4. \A i \in 1..Len(t) : i + 1 \in 1..Len(order) /\ (i = Len(t) <=> i + 1 = Len(order))
      BY <1>c
    <3>. QED BY <1>0, <1>a, <1>f, <1>g, <2>2, <3>1, <3>2, <3>3, <3>4 DEF ListIsDrawn
  <2>. QED BY <1>a, <1>g, <2>1, <2>3, <2>4 DEF ListIsDrawn
<1>3. NothingForgotten'
  <2>1. InList' = InList \ {head} /\ InBatch' = InBatch \cup {head} /\ head \in InList /\ Placed' = Placed
    BY <1>a, <1>c, <1>e, <1>f, <1>g DEF InList, InBatch, Placed
  <2>. QED BY <1>0, <1>c, <1>e, <1>f, <1>g, <2>1 DEF NothingForgotten
<1>4. NoWakeUpIsLost'
  BY <1>0, <1>a, <1>g DEF NoWakeUpIsLost, Ours
<1>5. CallerInv'
  BY <1>0, <1>g DEF CallerInv
<1>6. ThreadInv'
  BY <1>0, <1>a, <1>f, <1>g, <1>h DEF ThreadInv
<1>7. OwnerInv'
  BY <1>0, <1>g DEF OwnerInv
<1>8. (ok \subseteq done)'
  BY <1>0, <1>g
<1>. QED BY <1>1, <1>2, <1>3, <1>4, <1>5, <1>6, <1>7, <1>8 DEF IInv

-----------------------------------------------------------------------------
(***************************************************************************)
(* The theorems.                                                           *)
(***************************************************************************)
LEMMA InitEstablishes == Init => IInv
<1>. SUFFICES ASSUME Init PROVE IInv
  OBVIOUS
<1>1. Range(<<>>) = {} /\ IsInjective(<<>>) /\ Len(<<>>) = 0 /\ <<>> \in Seq(Requests)
  BY DEF Range, IsInjective
<1>2. Placed = {}
  BY DEF Init, Placed, Requests
<1>3. TypeOK /\ ok \subseteq done
  <2>1. batch \in Seq(Requests) /\ order \in Seq(Requests)
    BY <1>1 DEF Init
  <2>2. /\ phase \in [Callers -> {"out", "placing", "waiting"}] /\ told \in [Callers -> {"none", "true", "false"}]
        /\ count \in [Callers -> 0..MaxCount] /\ placed \in [Callers -> 0..MaxCount]
        /\ next \in [Requests -> Requests \cup {NULL}]
    BY DEF Init
  <2>3. queued \in Nat /\ ok \subseteq done /\ done \subseteq Requests /\ asleep \subseteq Callers \cup {Thread}
    BY DEF Init
  <2>. QED BY <2>1, <2>2, <2>3 DEF Init, TypeOK
<1>4. ListIsDrawn
  BY <1>1 DEF Init, ListIsDrawn
<1>5. NothingForgotten
  BY <1>1, <1>2 DEF Init, NothingForgotten, InList, InBatch
<1>6. NoWakeUpIsLost /\ CallerInv /\ OwnerInv
  BY DEF Init, NoWakeUpIsLost, CallerInv, OwnerInv
<1>7. ThreadInv
  BY DEF Init, ThreadInv
<1>. QED BY <1>3, <1>4, <1>5, <1>6, <1>7 DEF IInv

LEMMA StepPreserves == IInv /\ [Next]_vars => IInv'
<1>. SUFFICES ASSUME IInv, [Next]_vars PROVE IInv'
  OBVIOUS
<1>1. CASE UNCHANGED vars
  BY <1>1 DEF IInv, TypeOK, ListIsDrawn, NothingForgotten, NoWakeUpIsLost, CallerInv, ThreadInv,
              OwnerInv, InList, InBatch, Placed, Ours, vars, callers, fields, list, inference
<1>2. ASSUME NEW c \in Callers, Refused(c) \/ Caller(c) \/ \E n \in 1..MaxCount : Enter(c, n)
      PROVE  IInv'
  BY <1>2, RefusedKeeps, PlaceKeeps, AnnounceKeeps, ReturnKeeps, WaitAgainKeeps, EnterKeeps DEF Caller
<1>3. CASE Inference
  BY <1>3, IdleKeeps, ExitKeeps, FindKeeps, FillKeeps, FilledKeeps, TakeKeeps, TakenKeeps,
     InferKeeps, PublishKeeps DEF Inference
<1>4. CASE Close \/ Free \/ SpuriousWake
  BY <1>4, CloseKeeps, FreeKeeps, SpuriousWakeKeeps
<1>. QED BY <1>1, <1>2, <1>3, <1>4 DEF Next

\* The inductive invariant holds in every reachable state of the queue.
THEOREM Invariance == Spec => []IInv
<1>. QED BY InitEstablishes, StepPreserves, PTL DEF Spec

\* evaluate and inference_main: no request is lost, answered twice or both
\* queued and in hand.
THEOREM RequestsAreAccountedFor == Spec => []NothingForgotten
<1>1. IInv => NothingForgotten
  BY DEF IInv
<1>. QED BY <1>1, Invariance, PTL

\* The list of inference_main holds no pointer to a request that was freed,
\* head, tail and count agree.
THEOREM ListIsSound == Spec => [](ListIsDrawn /\ MemoryIsLive)
<1>1. IInv => ListIsDrawn /\ MemoryIsLive
  <2>. SUFFICES ASSUME IInv PROVE MemoryIsLive
    BY DEF IInv
  <2>1. \A c \in Callers : placed[c] \in Nat /\ count[c] \in Nat /\ placed[c] <= count[c]
    BY DEF IInv, TypeOK, CallerInv
  <2>2. Placed \subseteq live
    BY <2>1 DEF Placed, live, Requests
  <2>. QED BY <2>2 DEF IInv, NothingForgotten, MemoryIsLive
<1>. QED BY <1>1, Invariance, PTL

\* The one condition variable that callers and the thread share wakes
\* everybody who has something to see.
THEOREM NobodyOversleeps == Spec => []NoWakeUpIsLost
<1>1. IInv => NoWakeUpIsLost
  BY DEF IInv
<1>. QED BY <1>1, Invariance, PTL

\* shogi_dl_close: the thread exits with every request answered.
THEOREM CloseDrains == Spec => []DrainsBeforeExit
<1>1. IInv => DrainsBeforeExit
  <2>. SUFFICES ASSUME IInv PROVE DrainsBeforeExit
    OBVIOUS
  <2>1. ASSUME at = "exited" PROVE live \subseteq done
    <3>1. order = <<>> /\ batch = <<>> /\ \A c \in Callers : phase[c] # "placing"
      BY <2>1 DEF IInv, ThreadInv, OwnerInv
    <3>2. Placed = done
      BY <3>1 DEF IInv, NothingForgotten, InList, InBatch, Range
    <3>3. \A c \in Callers : count[c] <= placed[c]
      BY <3>1 DEF IInv, CallerInv, TypeOK
    <3>4. live \subseteq Placed
      BY <3>3 DEF live, Placed, Requests, IInv, TypeOK
    <3>. QED BY <3>2, <3>4
  <2>. QED BY <2>1 DEF DrainsBeforeExit, IInv, ThreadInv
<1>. QED BY <1>1, Invariance, PTL

\* Every step of the queue is a step of the service, or none that it sees.
LEMMA StepsServe == IInv /\ IInv' /\ [Next]_vars => [Service!Next]_(Service!svars)
<1>. SUFFICES ASSUME IInv, IInv', [Next]_vars PROVE [Service!Next]_(Service!svars)
  OBVIOUS
<1>. USE DEF callers, fields, list, inference
<1>0. /\ TypeOK /\ ok \subseteq done /\ NothingForgotten /\ CallerInv /\ ThreadInv
  BY DEF IInv
<1>a. \A c \in Callers : live \cap Service!Ours(c) = Ours(c)
  <2>1. SUFFICES ASSUME NEW c \in Callers PROVE live \cap Service!Ours(c) = Ours(c)
    OBVIOUS
  <2>2. count[c] \in 0..MaxCount
    BY <1>0 DEF TypeOK
  <2>3. \A r \in Service!Ours(c) : r \in Requests /\ r[1] = c /\ (r[2] <= count[c] <=> r \in Ours(c))
    BY <2>2 DEF Requests, Ours, Service!Ours
  <2>4. Ours(c) \subseteq Service!Ours(c)
    BY <2>2 DEF Ours, Service!Ours
  <2>. QED BY <2>3, <2>4 DEF live
<1>b. Placed \subseteq live
  BY <1>0 DEF Placed, live, Requests, CallerInv, TypeOK
<1>. DEFINE Quiet == count' = count /\ done' = done /\ ok' = ok /\ told' = told
<1>1. ASSUME Quiet PROVE UNCHANGED Service!svars
  BY <1>1 DEF live, Service!svars
<1>2. ASSUME NEW c \in Callers, Refused(c) PROVE Service!Refuse(c)
  <2>1. Ours(c) = {}
    BY <1>0, <1>2 DEF Refused, CallerInv, Ours
  <2>. QED BY <1>a, <1>2, <2>1 DEF Refused, Service!Refuse, live
<1>3. ASSUME NEW c \in Callers, NEW n \in 1..MaxCount, Enter(c, n) PROVE Service!Ask(c, n)
  <2>1. count[c] = 0 /\ count' = [count EXCEPT ![c] = n] /\ Ours(c) = {}
    BY <1>0, <1>3 DEF Enter, CallerInv, Ours
  <2>2. live' = live \cup ({c} \X (1..n))
    <3>1. \A r \in Requests : r[2] <= count'[r[1]] <=> (IF r[1] = c THEN r[2] <= n ELSE r[2] <= count[r[1]])
      BY <1>0, <2>1 DEF TypeOK, Requests
    <3>2. \A r \in Requests : r[1] = c => (~(r[2] <= count[c]) /\ (r[2] <= n <=> r \in {c} \X (1..n)))
      BY <2>1 DEF Requests
    <3>3. {c} \X (1..n) \subseteq Requests
      BY DEF Requests
    <3>. QED BY <3>1, <3>2, <3>3 DEF live
  <2>. QED BY <1>a, <1>3, <2>1, <2>2 DEF Enter, Service!Ask
<1>4. ASSUME NEW c \in Callers, Return(c) PROVE Service!Answer(c)
  <2>1. count[c] # 0 /\ count[c] \in 0..MaxCount /\ count' = [count EXCEPT ![c] = 0]
    BY <1>0, <1>4 DEF Return, CallerInv, TypeOK
  <2>2. <<c, 1>> \in Ours(c)
    BY <2>1 DEF Ours
  <2>3. live' = live \ Service!Ours(c)
    <3>1. \A r \in Requests : r[2] <= count'[r[1]] <=> (IF r[1] = c THEN r[2] <= 0 ELSE r[2] <= count[r[1]])
      BY <1>0, <2>1 DEF TypeOK, Requests
    <3>2. \A r \in Requests : (r[1] = c <=> r \in Service!Ours(c)) /\ ~(r[2] <= 0)
      BY DEF Requests, Service!Ours
    <3>. QED BY <3>1, <3>2 DEF live
  <2>4. done \subseteq live /\ ok \subseteq live
    BY <1>0, <1>b DEF NothingForgotten
  <2>5. done \ Ours(c) = done \ Service!Ours(c) /\ ok \ Ours(c) = ok \ Service!Ours(c)
    BY <1>a, <2>4
  <2>. QED BY <1>a, <1>4, <2>2, <2>3, <2>5 DEF Return, Service!Answer
<1>5. ASSUME Publish PROVE Service!Settle(InBatch, verdict)
  <2>1. batch # <<>> /\ batch \in Seq(Requests)
    BY <1>0, <1>5 DEF Publish, ThreadInv, TypeOK
  <2>2. 1 \in 1..Len(batch)
    BY <2>1, EmptySeq, LenProperties
  <2>3. batch[1] \in InBatch
    BY <2>1, <2>2, LenProperties DEF InBatch, Range
  <2>4. InBatch \subseteq live \ done
    BY <1>0, <1>b DEF NothingForgotten
  <2>. QED BY <1>5, <2>3, <2>4 DEF Publish, Service!Settle, live
<1>6. CASE UNCHANGED vars
  BY <1>1, <1>6 DEF vars
<1>7. CASE \E c \in Callers : Place(c) \/ Announce(c) \/ WaitAgain(c)
  BY <1>1, <1>7 DEF Place, Announce, WaitAgain
<1>8. CASE Idle \/ Exit \/ Find \/ Fill \/ Filled \/ Take \/ Taken \/ Infer \/ Close \/ Free \/ SpuriousWake
  BY <1>1, <1>8 DEF Idle, Exit, Find, Fill, Filled, Take, Taken, Infer, Close, Free, SpuriousWake
<1>9. InBatch \in SUBSET live /\ verdict \in BOOLEAN
  BY <1>0, <1>b DEF NothingForgotten, TypeOK
<1>. HIDE DEF Quiet
<1>. QED BY <1>2, <1>3, <1>4, <1>5, <1>6, <1>7, <1>8, <1>9 DEF Next, Caller, Inference, Service!Next

\* The queue implements the service: a call returns only when all it asked is
\* settled, and true only when all of it was evaluated.
THEOREM QueueImplementsService == Spec => KeepsService
<1>1. Init => Service!Init
  BY DEF Init, Service!Init, live, Requests
<1>2. IInv /\ IInv' /\ [Next]_vars => [Service!Next]_(Service!svars)
  BY StepsServe
<1>. QED BY <1>1, <1>2, Invariance, PTL DEF Spec, KeepsService, Service!Spec

=============================================================================
