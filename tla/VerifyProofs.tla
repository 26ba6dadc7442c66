---------------------------- MODULE VerifyProofs ----------------------------
(***************************************************************************)
(* Proofs about what the verification driver simulates, and about it.      *)
(*                                                                         *)
(* PermPipe, for every set of pipelines PipeAssumption allows (any rounds, *)
(* lanes and contexts) and any number of beats: the type invariant, that   *)
(* data, valid bit and context tag stay in step whatever the gaps between  *)
(* the inputs, and that the testbench has checked every vector when it     *)
(* ends.                                                                   *)
(*                                                                         *)
(* PermCores, for every set of designs PermAssumption allows and any       *)
(* vectors: every answer comes in the documented number of cycles and is   *)
(* the golden permutation of its vector, bit for bit.                      *)
(*                                                                         *)
(* Verify: what is proved of a testbench holds of it inside the driver, an *)
(* exit code after a simulation counts every vector, and none is a false   *)
(* alarm.                                                                  *)
(***************************************************************************)
EXTENDS Verify, HashCoreProofs, Integers, FiniteSetTheorems, SequenceTheorems,
        WellFoundedInduction, TLAPS

-----------------------------------------------------------------------------
(* The inductive invariant.                                                *)

Datum == [id : Nat, rounds : Seq(Nat)]

\* The type invariant with the testbench's clock.
PipeType ==
    /\ pdesign \in PipeDesigns
    /\ pdata \in [Lanes -> [Stages -> Datum]]
    /\ pvld \in [Lanes -> [Stages -> BOOLEAN]]
    /\ pctx \in [Lanes -> [Stages -> Nat]]
    /\ pq \in [Lanes -> Seq(Nat)] /\ prd \in [Lanes -> Nat]
    /\ perr \in Nat /\ pcyc \in 0..PipeLast /\ pend \in BOOLEAN
    /\ pend => pcyc = PipeLast

\* The input a stage of a lane holds.
Id(g, j) == pdata[g][j].id

\* What a stage that is valid holds: an input that waits for its answer, after
\* the rounds of the stages so far, and next to it the tag of that input.
Labelled(g) ==
    \A j \in Stages : pvld[g][j] =>
        /\ Id(g, j) \in prd[g] + 1 .. Len(pq[g])
        /\ pdata[g][j].rounds = Schedule(j + 1)
        /\ pctx[g][j] = pq[g][Id(g, j)]

\* Later inputs are in earlier stages.
InOrder(g) ==
    \A i, j \in Stages : i < j /\ pvld[g][i] /\ pvld[g][j] => Id(g, j) < Id(g, i)

\* An input that waits for its answer is in some stage.
InFlight(g) ==
    /\ prd[g] <= Len(pq[g])
    /\ \A k \in prd[g] + 1 .. Len(pq[g]) : \E j \in Stages : pvld[g][j] /\ Id(g, j) = k

\* A datum in stage j came in j + 1 cycles ago, when there still were inputs.
OnTime(g) == \A j \in Stages : pvld[g][j] => pcyc <= PipeBeats + j

LaneInv(g) == Labelled(g) /\ InOrder(g) /\ InFlight(g) /\ OnTime(g)

PipeInv == PipeType /\ perr = 0 /\ \A g \in Lanes : LaneInv(g)

-----------------------------------------------------------------------------
(* Facts about the design and its round constants.                         *)

LEMMA DesignFacts ==
    ASSUME pdesign \in PipeDesigns
    PROVE  /\ N \in 1..16 /\ pdesign.lanes \in Nat \ {0} /\ pdesign.contexts \in Nat \ {0}
           /\ 0 \in Stages /\ N - 1 \in Stages /\ Stages \subseteq Nat
           /\ \A j \in Stages : j < N /\ (j # 0 => j - 1 \in Stages)
           /\ \A j \in Stages : j # N - 1 => j + 1 \in Stages
           /\ Lanes \subseteq Nat
           /\ PipeLast \in Nat /\ PipeLast = PipeBeats + N + 7
<1>1. pdesign \in [rounds : 1..16, lanes : Nat \ {0}, contexts : Nat \ {0}]
  BY PipeAssumption
<1>2. N \in 1..16 /\ pdesign.lanes \in Nat \ {0} /\ pdesign.contexts \in Nat \ {0}
  BY <1>1 DEF N
<1> QED  BY <1>2, PipeAssumption DEF Stages, Lanes, PipeLast, Drain

LEMMA ScheduleSeq ==
    ASSUME N \in 1..16, NEW n \in 0..N
    PROVE  /\ Schedule(n) \in Seq(Nat) /\ Len(Schedule(n)) = n
           /\ \A i \in 1..n : Schedule(n)[i] = 16 - N + (i - 1)
<1>1. n \in Nat /\ \A i \in 1..n : 16 - N + (i - 1) \in Nat
  OBVIOUS
<1>2. Schedule(n) \in [1..n -> Nat]
  BY <1>1 DEF Schedule
<1>3. \A i \in 1..n : Schedule(n)[i] = 16 - N + (i - 1)
  BY DEF Schedule
<1> QED  BY <1>1, <1>2, <1>3, FunctionIsSeq

\* Stage j extends the schedule of j rounds to that of j + 1.
LEMMA ScheduleExtends ==
    ASSUME N \in 1..16, NEW j \in 0 .. (N - 1)
    PROVE  Append(Schedule(j), 16 - N + j) = Schedule(j + 1)
<1> DEFINE a == Schedule(j)
           b == Schedule(j + 1)
           e == 16 - N + j
<1>1. j \in 0..N /\ j + 1 \in 0..N /\ e \in Nat
  OBVIOUS
<1>2. a \in Seq(Nat) /\ Len(a) = j /\ \A i \in 1..j : a[i] = 16 - N + (i - 1)
  BY <1>1, ScheduleSeq
<1>3. b \in Seq(Nat) /\ Len(b) = j + 1 /\ \A i \in 1 .. (j + 1) : b[i] = 16 - N + (i - 1)
  BY <1>1, ScheduleSeq
<1>4. b[j + 1] = e
  BY <1>1, <1>3
<1> HIDE DEF a, b, e
<1>5. /\ Append(a, e) \in Seq(Nat) /\ Len(Append(a, e)) = j + 1
      /\ \A i \in 1..j : Append(a, e)[i] = a[i]
      /\ Append(a, e)[j + 1] = e
  BY <1>1, <1>2, AppendProperties
<1>6. \A i \in 1 .. Len(Append(a, e)) : Append(a, e)[i] = b[i]
  BY <1>1, <1>2, <1>3, <1>4, <1>5
<1> QED  BY <1>3, <1>5, <1>6, SeqEqual DEF a, b, e

LEMMA NoRoundsYet ==
    ASSUME N \in 1..16
    PROVE  Schedule(0) = <<>>
BY DEF Schedule

-----------------------------------------------------------------------------
(* What a lane's output shows.                                             *)

\* The oldest input that waits is the one in the last stage.
LEMMA LaneInStep ==
    ASSUME PipeInv, NEW g \in Lanes, Valid(g)
    PROVE  /\ InStep(g)
           /\ prd[g] < Len(pq[g])
           /\ Id(g, N - 1) = prd[g] + 1
<1>1. /\ N - 1 \in Stages /\ Stages \subseteq Nat
      /\ N \in 1..16 /\ \A j \in Stages : j < N
  BY DesignFacts DEF PipeInv, PipeType
<1>2. Labelled(g) /\ InOrder(g) /\ InFlight(g) /\ pvld[g][N - 1]
  BY DEF PipeInv, LaneInv, Valid
<1>3. pdata[g][N - 1] \in Datum /\ prd[g] \in Nat /\ Len(pq[g]) \in Nat
  <2>1. pdata[g] \in [Stages -> Datum] /\ pq[g] \in Seq(Nat) /\ prd[g] \in Nat
    BY DEF PipeInv, PipeType
  <2> QED  BY <2>1, <1>1, LenProperties
<1>4. /\ Id(g, N - 1) \in prd[g] + 1 .. Len(pq[g])
      /\ pdata[g][N - 1].rounds = Schedule(N)
      /\ pctx[g][N - 1] = pq[g][Id(g, N - 1)]
  <2>1. (N - 1) + 1 = N
    BY <1>1
  <2> QED  BY <1>1, <1>2, <2>1 DEF Labelled
<1>5. prd[g] + 1 \in prd[g] + 1 .. Len(pq[g])
  BY <1>3, <1>4
<1>6. PICK j \in Stages : pvld[g][j] /\ Id(g, j) = prd[g] + 1
  BY <1>2, <1>5 DEF InFlight
<1>7. j = N - 1
  <2>1. SUFFICES ASSUME j # N - 1  PROVE FALSE
    OBVIOUS
  <2>2. j < N - 1
    BY <1>1, <2>1
  <2>3. Id(g, N - 1) < Id(g, j)
    BY <1>1, <1>2, <1>6, <2>2 DEF InOrder
  <2> QED  BY <2>3, <1>3, <1>4, <1>6
<1>8. pdata[g][N - 1] = [id |-> prd[g] + 1, rounds |-> Schedule(N)]
  BY <1>3, <1>4, <1>6, <1>7 DEF Datum, Id
<1>9. prd[g] < Len(pq[g])
  BY <1>3, <1>5
<1> QED  BY <1>4, <1>6, <1>7, <1>8, <1>9 DEF InStep, DataOK, CtxOK

-----------------------------------------------------------------------------
(* One clock edge of a lane.                                               *)

LEMMA EdgeTypes ==
    ASSUME PipeInv, NEW present \in SUBSET Lanes, PipeStep(present)
    PROVE  /\ PipeType'
           /\ N' = N /\ Lanes' = Lanes /\ Stages' = Stages /\ PipeLast' = PipeLast
<1> USE DEF PipeInv
<1>1. /\ N' = N /\ Lanes' = Lanes /\ Stages' = Stages /\ PipeLast' = PipeLast
      /\ pdesign' = pdesign /\ pend' = pend
  BY DEF PipeStep, N, Lanes, Stages, PipeLast, Drain
<1>2. /\ N \in 1..16 /\ Lanes \subseteq Nat /\ Stages \subseteq 0..15 /\ PipeLast \in Nat
      /\ pdesign.contexts \in Nat \ {0} /\ \A j \in Stages : j # 0 => j - 1 \in Stages
  <2>1. Stages \subseteq 0..15
    <3>1. N \in 1..16 /\ Stages \subseteq Nat /\ \A j \in Stages : j < N
      BY DesignFacts DEF PipeType
    <3> QED  BY <3>1
  <2> QED  BY <2>1, DesignFacts DEF PipeType
<1>3. pcyc \in Nat /\ pcyc < PipeLast /\ pcyc' = pcyc + 1 /\ ~pend
  BY <1>2 DEF PipeStep, PipeType
<1>4. \A g \in Lanes : CtxIn(g) \in Nat
  <2>1. \A g \in Lanes : pcyc + g \in Nat
    BY <1>2, <1>3
  <2> QED  BY <2>1, <1>2 DEF CtxIn
<1>5. pq' \in [Lanes -> Seq(Nat)] /\ prd' \in [Lanes -> Nat]
  <2>1. \A g \in Lanes : Append(pq[g], CtxIn(g)) \in Seq(Nat)
    BY <1>4, AppendProperties DEF PipeType
  <2> QED  BY <2>1 DEF PipeStep, PipeDrive, PipeCheck, PipeType
<1>6. pvld' \in [Lanes -> [Stages -> BOOLEAN]]
  <2>1. ASSUME NEW g \in Lanes, NEW in \in BOOLEAN
        PROVE  Shift(pvld[g], in) \in [Stages -> BOOLEAN]
    BY <1>2 DEF Shift, PipeType
  <2>2. \A g \in Lanes : (g \in present) \in BOOLEAN
    OBVIOUS
  <2>3. \A g \in Lanes : Shift(pvld[g], g \in present) \in [Stages -> BOOLEAN]
    BY <2>1, <2>2
  <2>4. pvld' = [g \in Lanes |-> Shift(pvld[g], g \in present)]
    BY DEF PipeStep, PipeEdge
  <2> QED  BY <2>3, <2>4
<1>7. pctx' \in [Lanes -> [Stages -> Nat]]
  <2>1. \A g \in Lanes : Shift(pctx[g], CtxIn(g)) \in [Stages -> Nat]
    BY <1>2, <1>4 DEF Shift, PipeType
  <2> QED  BY <2>1 DEF PipeStep, PipeEdge
<1>8. pdata' \in [Lanes -> [Stages -> Datum]]
  <2>1. \A g \in Lanes : DataIn(g, present) \in Datum
    <3>1. <<>> \in Seq(Nat) /\ \A g \in Lanes : Len(pq[g]) + 1 \in Nat
      BY EmptySeq, LenProperties DEF PipeType
    <3> QED  BY <3>1 DEF DataIn, NoData, Datum
  <2>2. ASSUME NEW j \in Stages, NEW d \in Datum  PROVE StageRound(j, d) \in Datum
    <3>1. 16 - N + j \in Nat
      BY <1>2
    <3>2. Append(d.rounds, 16 - N + j) \in Seq(Nat)
      BY <3>1, AppendProperties DEF Datum
    <3> QED  BY <3>2 DEF StageRound, Datum
  <2>3. ASSUME NEW g \in Lanes, NEW j \in Stages
        PROVE  Shift(pdata[g], DataIn(g, present))[j] \in Datum
    BY <1>2, <2>1 DEF Shift, PipeType
  <2>4. ASSUME NEW g \in Lanes
        PROVE  [j \in Stages |-> StageRound(j, Shift(pdata[g], DataIn(g, present))[j])]
                   \in [Stages -> Datum]
    BY <2>2, <2>3
  <2>5. pdata' = [g \in Lanes |->
                    [j \in Stages |-> StageRound(j, Shift(pdata[g], DataIn(g, present))[j])]]
    BY DEF PipeStep, PipeEdge
  <2> HIDE DEF PipeInv
  <2> QED  BY <2>4, <2>5
<1>9. perr' \in Nat
  <2>1. {g \in Lanes : Valid(g) /\ ~DataOK(g)} = {} /\ {g \in Lanes : Valid(g) /\ ~CtxOK(g)} = {}
    BY LaneInStep DEF InStep
  <2> QED  BY <2>1, FS_EmptySet DEF PipeStep, PipeCheck
<1>10. pcyc' \in 0..PipeLast
  BY <1>2, <1>3
<1> QED  BY <1>1, <1>3, <1>5, <1>6, <1>7, <1>8, <1>9, <1>10 DEF PipeType

\* Where each register of a lane comes from.
LEMMA EdgeMoves ==
    ASSUME PipeInv, NEW present \in SUBSET Lanes, PipeStep(present), NEW g \in Lanes
    PROVE  /\ pvld'[g][0] = (g \in present)
           /\ g \in present => /\ Id(g, 0)' = Len(pq[g]) + 1
                               /\ pdata'[g][0].rounds = Schedule(1)
                               /\ pctx'[g][0] = CtxIn(g)
           /\ \A j \in Stages \ {0} :
                  /\ pvld'[g][j] = pvld[g][j - 1]
                  /\ Id(g, j)' = Id(g, j - 1)
                  /\ pdata'[g][j].rounds = Append(pdata[g][j - 1].rounds, 16 - N + j)
                  /\ pctx'[g][j] = pctx[g][j - 1]
<1>1. N \in 1..16 /\ 0 \in Stages /\ Stages \subseteq Nat
  BY DesignFacts DEF PipeInv, PipeType
<1>2. pvld'[g] = Shift(pvld[g], g \in present) /\ pctx'[g] = Shift(pctx[g], CtxIn(g))
  BY DEF PipeStep, PipeEdge
<1>3. \A j \in Stages :
         pdata'[g][j] = StageRound(j, IF j = 0 THEN DataIn(g, present) ELSE pdata[g][j - 1])
  BY DEF PipeStep, PipeEdge, Shift
<1>4. pvld'[g][0] = (g \in present) /\ pctx'[g][0] = CtxIn(g)
  BY <1>1, <1>2 DEF Shift
<1>5. ASSUME g \in present
      PROVE  Id(g, 0)' = Len(pq[g]) + 1 /\ pdata'[g][0].rounds = Schedule(1)
  <2>1. pdata'[g][0] = [id |-> Len(pq[g]) + 1, rounds |-> Append(<<>>, 16 - N + 0)]
    BY <1>1, <1>3, <1>5 DEF DataIn, StageRound
  <2>2. Append(<<>>, 16 - N + 0) = Schedule(1)
    <3>1. 0 \in 0 .. (N - 1) /\ 0 + 1 = 1
      BY <1>1
    <3> QED  BY <1>1, <3>1, ScheduleExtends, NoRoundsYet
  <2> QED  BY <2>1, <2>2 DEF Id
<1>6. ASSUME NEW j \in Stages \ {0}
      PROVE  /\ pvld'[g][j] = pvld[g][j - 1]
             /\ pctx'[g][j] = pctx[g][j - 1]
             /\ Id(g, j)' = Id(g, j - 1)
             /\ pdata'[g][j].rounds = Append(pdata[g][j - 1].rounds, 16 - N + j)
  <2>1. pdata[g][j - 1] \in Datum
    BY DesignFacts DEF PipeInv, PipeType
  <2>2. pdata'[g][j] = StageRound(j, pdata[g][j - 1])
    BY <1>3
  <2>3. /\ pdata'[g][j].id = pdata[g][j - 1].id
        /\ pdata'[g][j].rounds = Append(pdata[g][j - 1].rounds, 16 - N + j)
    BY <2>1, <2>2 DEF StageRound, Datum
  <2> QED  BY <1>2, <2>3 DEF Shift, Id
<1> QED  BY <1>4, <1>5, <1>6

\* What the testbench's queue and read pointer become.
LEMMA EdgeQueues ==
    ASSUME PipeInv, NEW present \in SUBSET Lanes, PipeStep(present), NEW g \in Lanes
    PROVE  /\ Len(pq[g]) \in Nat /\ prd[g] \in Nat /\ prd[g] <= Len(pq[g])
           /\ prd'[g] = IF Valid(g) THEN prd[g] + 1 ELSE prd[g]
           /\ prd'[g] <= Len(pq[g])
           /\ Len(pq'[g]) = IF g \in present THEN Len(pq[g]) + 1 ELSE Len(pq[g])
           /\ \A k \in 1 .. Len(pq[g]) : pq'[g][k] = pq[g][k]
           /\ g \in present => pq'[g][Len(pq[g]) + 1] = CtxIn(g)
<1>1. pq[g] \in Seq(Nat) /\ Len(pq[g]) \in Nat /\ prd[g] \in Nat
  BY LenProperties DEF PipeInv, PipeType
<1>2. prd'[g] = IF Valid(g) THEN prd[g] + 1 ELSE prd[g]
  BY DEF PipeStep, PipeCheck
<1>3. prd[g] <= Len(pq[g])
  BY DEF PipeInv, LaneInv, InFlight
<1>4. prd'[g] <= Len(pq[g])
  BY <1>1, <1>2, <1>3, LaneInStep
<1>5. pq'[g] = IF g \in present THEN Append(pq[g], CtxIn(g)) ELSE pq[g]
  BY DEF PipeStep, PipeDrive
<1>6. CtxIn(g) \in Nat
  <2>1. pdesign.contexts \in Nat \ {0} /\ g \in Nat /\ pcyc \in Nat
    BY DesignFacts DEF PipeInv, PipeType
  <2> QED  BY <2>1 DEF CtxIn
<1>7. /\ Len(Append(pq[g], CtxIn(g))) = Len(pq[g]) + 1
      /\ \A k \in 1 .. Len(pq[g]) : Append(pq[g], CtxIn(g))[k] = pq[g][k]
      /\ Append(pq[g], CtxIn(g))[Len(pq[g]) + 1] = CtxIn(g)
  BY <1>1, <1>6, AppendProperties
<1> QED  BY <1>1, <1>2, <1>3, <1>4, <1>5, <1>7

\* An input that stays in the lane is not the one answered now.
LEMMA StaysBehind ==
    ASSUME PipeInv, NEW present \in SUBSET Lanes, PipeStep(present), NEW g \in Lanes,
           NEW j \in Stages \ {0}, pvld[g][j - 1]
    PROVE  Id(g, j - 1) \in prd'[g] + 1 .. Len(pq[g])
<1>1. /\ j \in Nat /\ j < N /\ j - 1 \in Stages /\ N - 1 \in Stages /\ N \in 1..16
  BY DesignFacts DEF PipeInv, PipeType
<1>2. Id(g, j - 1) \in prd[g] + 1 .. Len(pq[g])
  BY <1>1 DEF PipeInv, LaneInv, Labelled
<1>3. /\ Len(pq[g]) \in Nat /\ prd[g] \in Nat
      /\ prd'[g] = IF Valid(g) THEN prd[g] + 1 ELSE prd[g]
  BY EdgeQueues
<1>4. CASE Valid(g)
  <2>1. Id(g, N - 1) = prd[g] + 1
    BY <1>4, LaneInStep
  <2>2. j - 1 < N - 1
    BY <1>1
  <2>3. Id(g, N - 1) < Id(g, j - 1)
    BY <1>1, <1>4, <2>2 DEF PipeInv, LaneInv, InOrder, Valid
  <2> QED  BY <1>2, <1>3, <1>4, <2>1, <2>3
<1>5. CASE ~Valid(g)
  BY <1>2, <1>3, <1>5
<1> QED  BY <1>4, <1>5

-----------------------------------------------------------------------------
(* The invariant is preserved.                                             *)

LEMMA LabelledStep ==
    ASSUME PipeInv, NEW present \in SUBSET Lanes, PipeStep(present), NEW g \in Lanes
    PROVE  Labelled(g)'
<1>1. SUFFICES ASSUME NEW j \in Stages, pvld'[g][j]
               PROVE  /\ Id(g, j)' \in prd'[g] + 1 .. Len(pq'[g])
                      /\ pdata'[g][j].rounds = Schedule(j + 1)
                      /\ pctx'[g][j] = pq'[g][Id(g, j)']
  <2>1. Stages' = Stages /\ \A n : Schedule(n)' = Schedule(n)
    BY EdgeTypes DEF Schedule
  <2> QED  BY <2>1 DEF Labelled
<1>2. /\ Len(pq[g]) \in Nat /\ prd[g] \in Nat /\ prd'[g] <= Len(pq[g])
      /\ prd'[g] = IF Valid(g) THEN prd[g] + 1 ELSE prd[g]
      /\ Len(pq'[g]) = IF g \in present THEN Len(pq[g]) + 1 ELSE Len(pq[g])
      /\ \A k \in 1 .. Len(pq[g]) : pq'[g][k] = pq[g][k]
      /\ g \in present => pq'[g][Len(pq[g]) + 1] = CtxIn(g)
  BY EdgeQueues
<1>3. N \in 1..16 /\ j \in Nat /\ j < N
  BY DesignFacts DEF PipeInv, PipeType
<1>4. CASE j = 0
  <2>1. g \in present
    BY <1>1, <1>4, EdgeMoves
  <2>2. /\ Id(g, 0)' = Len(pq[g]) + 1
        /\ pdata'[g][0].rounds = Schedule(1)
        /\ pctx'[g][0] = CtxIn(g)
    BY <2>1, EdgeMoves
  <2>3. Id(g, 0)' \in prd'[g] + 1 .. Len(pq'[g])
    BY <1>2, <2>1, <2>2
  <2>4. Schedule(j + 1) = Schedule(1)
    BY <1>4
  <2> QED  BY <1>2, <1>4, <2>1, <2>2, <2>3, <2>4
<1>5. CASE j # 0
  <2>1. /\ pvld[g][j - 1] /\ Id(g, j)' = Id(g, j - 1)
        /\ pdata'[g][j].rounds = Append(pdata[g][j - 1].rounds, 16 - N + j)
        /\ pctx'[g][j] = pctx[g][j - 1]
    BY <1>1, <1>5, EdgeMoves
  <2>2. Id(g, j - 1) \in prd'[g] + 1 .. Len(pq[g])
    BY <1>5, <2>1, StaysBehind
  <2>3. j - 1 \in Stages
    BY <1>5, DesignFacts DEF PipeInv, PipeType
  <2>4. /\ pdata[g][j - 1].rounds = Schedule((j - 1) + 1)
        /\ pctx[g][j - 1] = pq[g][Id(g, j - 1)]
    BY <2>1, <2>3 DEF PipeInv, LaneInv, Labelled
  <2>5. Append(Schedule(j), 16 - N + j) = Schedule(j + 1)
    BY <1>3, ScheduleExtends
  <2>6. (j - 1) + 1 = j
    BY <1>3
  <2>7. Id(g, j - 1) \in 1 .. Len(pq[g])
    BY <1>2, <2>2
  <2> QED  BY <1>2, <2>1, <2>2, <2>4, <2>5, <2>6, <2>7
<1> QED  BY <1>4, <1>5

LEMMA InOrderStep ==
    ASSUME PipeInv, NEW present \in SUBSET Lanes, PipeStep(present), NEW g \in Lanes
    PROVE  InOrder(g)'
<1>1. SUFFICES ASSUME NEW i \in Stages, NEW j \in Stages, i < j, pvld'[g][i], pvld'[g][j]
               PROVE  Id(g, j)' < Id(g, i)'
  <2>1. Stages' = Stages
    BY EdgeTypes
  <2> QED  BY <2>1 DEF InOrder
<1>2. Len(pq[g]) \in Nat /\ prd'[g] \in Nat
  BY EdgeQueues
<1>3. i \in Nat /\ j \in Nat /\ j # 0
  <2>1. Stages \subseteq Nat
    BY DesignFacts DEF PipeInv, PipeType
  <2>2. i \in Nat /\ j \in Nat
    BY <2>1
  <2>3. i < j
    BY <1>1
  <2> QED  BY <2>2, <2>3
<1>4. pvld[g][j - 1] /\ Id(g, j)' = Id(g, j - 1) /\ j - 1 \in Stages
  <2>1. j - 1 \in Stages
    BY <1>3, DesignFacts DEF PipeInv, PipeType
  <2> QED  BY <1>1, <1>3, <2>1, EdgeMoves
<1>5. CASE i = 0
  <2>1. Id(g, i)' = Len(pq[g]) + 1
    BY <1>1, <1>5, EdgeMoves
  <2>2. Id(g, j - 1) \in prd'[g] + 1 .. Len(pq[g])
    BY <1>3, <1>4, StaysBehind
  <2> QED  BY <1>2, <1>4, <2>1, <2>2
<1>6. CASE i # 0
  <2>1. pvld[g][i - 1] /\ Id(g, i)' = Id(g, i - 1) /\ i - 1 \in Stages
    <3>1. i - 1 \in Stages
      BY <1>6, DesignFacts DEF PipeInv, PipeType
    <3> QED  BY <1>1, <1>6, <3>1, EdgeMoves
  <2>2. i - 1 < j - 1
    BY <1>1, <1>3
  <2> QED  BY <1>4, <2>1, <2>2 DEF PipeInv, LaneInv, InOrder
<1> QED  BY <1>5, <1>6

LEMMA InFlightStep ==
    ASSUME PipeInv, NEW present \in SUBSET Lanes, PipeStep(present), NEW g \in Lanes
    PROVE  InFlight(g)'
<1>1. /\ Len(pq[g]) \in Nat /\ prd[g] \in Nat /\ prd'[g] <= Len(pq[g])
      /\ prd'[g] = IF Valid(g) THEN prd[g] + 1 ELSE prd[g]
      /\ Len(pq'[g]) = IF g \in present THEN Len(pq[g]) + 1 ELSE Len(pq[g])
  BY EdgeQueues
<1>2. ASSUME NEW k \in prd'[g] + 1 .. Len(pq'[g])
      PROVE  \E j \in Stages : pvld'[g][j] /\ Id(g, j)' = k
  <2>1. CASE k = Len(pq[g]) + 1
    <3>1. g \in present
      BY <1>1, <1>2, <2>1
    <3>2. 0 \in Stages /\ pvld'[g][0] /\ Id(g, 0)' = k
      BY <2>1, <3>1, EdgeMoves, DesignFacts DEF PipeInv, PipeType
    <3> QED  BY <3>2
  <2>2. CASE k # Len(pq[g]) + 1
    <3>1. k \in prd[g] + 1 .. Len(pq[g])
      BY <1>1, <1>2, <2>2
    <3>2. PICK j \in Stages : pvld[g][j] /\ Id(g, j) = k
      BY <3>1 DEF PipeInv, LaneInv, InFlight
    <3>3. j # N - 1
      <4>1. SUFFICES ASSUME j = N - 1  PROVE FALSE
        OBVIOUS
      <4>2. Valid(g)
        BY <3>2, <4>1 DEF Valid
      <4>3. Id(g, N - 1) = prd[g] + 1
        BY <4>2, LaneInStep
      <4> QED  BY <1>1, <1>2, <3>2, <4>1, <4>2, <4>3
    <3>4. j + 1 \in Stages \ {0} /\ (j + 1) - 1 = j
      BY <3>3, DesignFacts DEF PipeInv, PipeType
    <3>5. pvld'[g][j + 1] = pvld[g][(j + 1) - 1] /\ Id(g, j + 1)' = Id(g, (j + 1) - 1)
      BY <3>4, EdgeMoves
    <3> QED  BY <3>2, <3>4, <3>5
  <2> QED  BY <2>1, <2>2
<1>3. prd'[g] <= Len(pq'[g])
  BY <1>1
<1>4. Stages' = Stages
  BY EdgeTypes
<1> QED  BY <1>2, <1>3, <1>4 DEF InFlight

LEMMA OnTimeStep ==
    ASSUME PipeInv, NEW present \in SUBSET Lanes, PipeStep(present), NEW g \in Lanes
    PROVE  OnTime(g)'
<1>1. SUFFICES ASSUME NEW j \in Stages, pvld'[g][j]  PROVE pcyc' <= PipeBeats + j
  <2>1. Stages' = Stages
    BY EdgeTypes
  <2> QED  BY <2>1 DEF OnTime
<1>2. /\ pcyc \in Nat /\ pcyc' = pcyc + 1 /\ (present # {} => pcyc < PipeBeats)
      /\ PipeBeats \in Nat /\ j \in Nat
  BY PipeAssumption, DesignFacts DEF PipeInv, PipeType, PipeStep
<1>3. CASE j = 0
  <2>1. present # {}
    BY <1>1, <1>3, EdgeMoves
  <2> QED  BY <1>2, <1>3, <2>1
<1>4. CASE j # 0
  <2>1. pvld[g][j - 1] /\ j - 1 \in Stages
    <3>1. j - 1 \in Stages
      BY <1>4, DesignFacts DEF PipeInv, PipeType
    <3> QED  BY <1>1, <1>4, <3>1, EdgeMoves
  <2>2. pcyc <= PipeBeats + (j - 1)
    BY <2>1 DEF PipeInv, LaneInv, OnTime
  <2> QED  BY <1>2, <1>4, <2>2
<1> QED  BY <1>3, <1>4

LEMMA PipeInvInit == PipeInit => PipeInv
<1> SUFFICES ASSUME PipeInit  PROVE PipeInv
  OBVIOUS
<1>1. pdesign \in PipeDesigns
  BY DEF PipeInit
<1>2. PipeLast \in Nat
  BY <1>1, DesignFacts
<1>3. <<>> \in Seq(Nat) /\ Len(<<>>) = 0
  BY EmptySeq
<1>4. PipeType /\ perr = 0
  <2>1. NoData \in Datum
    BY <1>3 DEF NoData, Datum
  <2>2. pend => pcyc = PipeLast
    BY DEF PipeInit
  <2>3. pcyc \in 0..PipeLast
    BY <1>2 DEF PipeInit
  <2> QED  BY <1>1, <1>3, <2>1, <2>2, <2>3 DEF PipeInit, PipeType
<1>5. ASSUME NEW g \in Lanes  PROVE LaneInv(g)
  <2>1. \A j \in Stages : ~pvld[g][j]
    BY DEF PipeInit
  <2>2. pq[g] = <<>> /\ prd[g] = 0
    BY DEF PipeInit
  <2>3. InFlight(g)
    BY <1>3, <2>2 DEF InFlight
  <2> QED  BY <2>1, <2>3 DEF LaneInv, Labelled, InOrder, OnTime
<1> QED  BY <1>4, <1>5 DEF PipeInv

LEMMA PipeInvNext == PipeInv /\ [PipeNext]_pipeVars => PipeInv'
<1> SUFFICES ASSUME PipeInv, [PipeNext]_pipeVars  PROVE PipeInv'
  OBVIOUS
<1>1. ASSUME NEW present \in SUBSET Lanes, PipeStep(present)  PROVE PipeInv'
  <2>1. PipeType' /\ Lanes' = Lanes
    BY <1>1, EdgeTypes
  <2>2. perr' = 0
    <3>1. {g \in Lanes : Valid(g) /\ ~DataOK(g)} = {} /\ {g \in Lanes : Valid(g) /\ ~CtxOK(g)} = {}
      BY LaneInStep DEF InStep
    <3> QED  BY <1>1, <3>1, FS_EmptySet DEF PipeInv, PipeStep, PipeCheck
  <2>3. ASSUME NEW g \in Lanes  PROVE LaneInv(g)'
    BY <1>1, LabelledStep, InOrderStep, InFlightStep, OnTimeStep DEF LaneInv
  <2> QED  BY <2>1, <2>2, <2>3 DEF PipeInv
<1>2. CASE PipeFinish
  BY <1>2 DEF PipeFinish, PipeInv, PipeType, LaneInv, Labelled, InOrder, InFlight, OnTime, Id,
     Lanes, Stages, N, PipeLast, Drain, Schedule
<1>3. CASE UNCHANGED pipeVars
  BY <1>3 DEF pipeVars, PipeInv, PipeType, LaneInv, Labelled, InOrder, InFlight, OnTime, Id,
     Lanes, Stages, N, PipeLast, Drain, Schedule
<1> QED  BY <1>1, <1>2, <1>3 DEF PipeNext

LEMMA PipeInvariance == PipeSpec => []PipeInv
<1> QED  BY PipeInvInit, PipeInvNext, PTL DEF PipeSpec

LEMMA AllChecked ==
    ASSUME PipeInv
    PROVE  EveryVectorChecked
<1> SUFFICES ASSUME PipeInv, pend, NEW g \in Lanes  PROVE prd[g] = Len(pq[g])
  BY DEF PipeInv, EveryVectorChecked
<1>1. pcyc = PipeBeats + N + 7 /\ N \in 1..16 /\ PipeBeats \in Nat
  BY DesignFacts, PipeAssumption DEF PipeInv, PipeType
<1>2. \A j \in Stages : ~pvld[g][j]
  <2>1. \A j \in Stages : j \in Nat /\ j < N
    BY DesignFacts DEF PipeInv, PipeType
  <2>2. \A j \in Stages : pvld[g][j] => pcyc <= PipeBeats + j
    BY DEF PipeInv, LaneInv, OnTime
  <2> QED  BY <1>1, <2>1, <2>2
<1>3. prd[g] <= Len(pq[g]) /\ prd[g] \in Nat /\ Len(pq[g]) \in Nat
  BY LenProperties DEF PipeInv, PipeType, LaneInv, InFlight
<1>4. \A k \in prd[g] + 1 .. Len(pq[g]) : FALSE
  BY <1>2 DEF PipeInv, LaneInv, InFlight
<1>5. prd[g] < Len(pq[g]) => prd[g] + 1 \in prd[g] + 1 .. Len(pq[g])
  BY <1>3
<1> QED  BY <1>3, <1>4, <1>5

-----------------------------------------------------------------------------
(* The theorems about the pipelines.                                       *)

\* Registers, queues and counters hold values of their types.
THEOREM PipeTypeCorrect == PipeSpec => []PipeTypeOK
<1>1. PipeInv => PipeTypeOK
  BY DEF PipeInv, PipeType, PipeTypeOK, Datum
<1> QED  BY <1>1, PipeInvariance, PTL

\* In a pipeline of any depth, with any number of lanes and contexts and any
\* gaps between the inputs, the three shift registers stay in step: a valid
\* output is the oldest input not answered yet, after all rounds in order, next
\* to the context it came with.
THEOREM LabelsStayInStep == PipeSpec => []LabelsInStep
<1>1. PipeInv => LabelsInStep
  BY LaneInStep DEF LabelsInStep
<1> QED  BY <1>1, PipeInvariance, PTL

\* However many beats there are and whatever their gaps, the testbench waits
\* long enough at the end: it has compared every input's answer, and none was
\* wrong.
THEOREM EveryVectorIsChecked == PipeSpec => []EveryVectorChecked
<1>1. PipeInv => EveryVectorChecked
  BY AllChecked
<1> QED  BY <1>1, PipeInvariance, PTL

-----------------------------------------------------------------------------
(* The latencies of the cores with start and valid.  The round counts, the *)
(* columns and the bits are counted; the state is not looked at.           *)

Width  == design[2]
Asking == RoundsOf(bcode)                  \* the rounds asked for
Done   == fidx - (DONE - Asking)           \* those done, but for the microcode
Layer  == 64 \div Width                    \* cycles of a substitution layer

IterTime ==
    /\ fst = "RUN" /\ Done \in Nat /\ fidx < DONE
    /\ bcyc * Width = Done

ColumnTime ==
    /\ Done \in Nat /\ fidx < DONE /\ fcol \in Nat
    /\ \/ fst = "PC" /\ bcyc = Done * (2 + Layer)
       \/ fst = "SBOX" /\ \E m \in 0 .. (Layer - 1) :
                              fcol = m * Width /\ bcyc = Done * (2 + Layer) + 1 + m
       \/ fst = "LIN" /\ bcyc = Done * (2 + Layer) + 1 + Layer

BitTime ==
    /\ Done \in Nat /\ fidx < DONE
    /\ \/ fst = "PC" /\ bcyc = Done * 130
       \/ fst = "SBOX" /\ fcol \in 0..63 /\ bcyc = Done * 130 + 1 + fcol
       \/ fst = "LIN" /\ fcol \in 0..63 /\ bcyc = Done * 130 + 65 + fcol
       \/ fst = "LSWAP" /\ bcyc = Done * 130 + 129

UcodeTime == fst = "RUN" /\ fidx \in 0..11 /\ bcyc = fidx - (12 - Asking)

\* What the cycles since the start say of the core's place in its schedule.
InTime ==
    /\ bcyc \in Nat /\ fidx \in Nat
    /\ design[1] = "iter"   => IterTime
    /\ design[1] = "colser" => ColumnTime
    /\ design[1] = "bitser" => BitTime
    /\ design[1] = "ucode"  => UcodeTime

Answered == fst = "IDLE" /\ bcyc = Latency(design, Asking)

LatencyInv ==
    /\ design \in PermDesigns /\ bcode \in 0..2 /\ btrial \in Nat
    /\ bphase \in {"present", "wait", "end", "smoke"}
    /\ bphase \in {"present", "end"} => fst = "IDLE"
    /\ bphase = "wait" => IF fvalid THEN Answered ELSE InTime

LEMMA Designs ==
    ASSUME design \in PermDesigns
    PROVE  \/ design[1] = "iter" /\ Width \in 1..12
           \/ design[1] = "colser" /\ Width \in {1, 2, 4, 8, 16, 32}
           \/ design[1] = "bitser"
           \/ design[1] = "ucode"
BY PermAssumption DEF Width

LEMMA AskedRounds ==
    ASSUME NEW c \in 0..2
    PROVE  /\ RoundsOf(c) \in {6, 8, 12} /\ StartIndex(c) = DONE - RoundsOf(c)
           /\ EntryPc(c) = 12 - RoundsOf(c) /\ StartIndex(c) \in {4, 8, 10}
           /\ EntryPc(c) \in {0, 4, 6}
BY DEF RoundsOf, StartIndex, EntryPc, DONE

\* The last of the cycles that do R rounds each.
LEMMA CeilDiv ==
    ASSUME NEW n \in Nat, NEW R \in Nat \ {0}, NEW q \in Nat, NEW p \in Nat, p = q * R,
           p < n, n <= p + R
    PROVE  (n + R - 1) \div R = q + 1
<1> DEFINE x == n - p - 1
           y == n + R - 1
<1>1. x \in 0 .. (R - 1) /\ y \in Nat /\ y = p + R + x
  OBVIOUS
<1>2. (q + 1) * R = p + R
  OBVIOUS
<1> HIDE DEF x, y
<1>3. y = (q + 1) * R + x
  BY <1>1, <1>2
<1>4. y \div R = q + 1
  BY <1>1, <1>3
<1> QED  BY <1>4 DEF y

\* K columns a cycle, where K divides the 64.
LEMMA ColumnCount ==
    ASSUME NEW K \in {1, 2, 4, 8, 16, 32}
    PROVE  /\ 64 \div K \in 2..64 /\ (64 + K - 1) \div K = 64 \div K
           /\ \A m \in Nat : /\ m * K \in Nat /\ m * K + K = (m + 1) * K
                             /\ m * K + K >= 64 <=> m + 1 >= 64 \div K
<1>1. CASE K = 1   BY <1>1
<1>2. CASE K = 2   BY <1>2
<1>3. CASE K = 4   BY <1>3
<1>4. CASE K = 8   BY <1>4
<1>5. CASE K = 16  BY <1>5
<1>6. CASE K = 32  BY <1>6
<1> QED  BY <1>1, <1>2, <1>3, <1>4, <1>5, <1>6

LEMMA OneMoreRound == \A d, l \in Nat : (d + 1) * l = d * l + l /\ d * l \in Nat
OBVIOUS

-----------------------------------------------------------------------------
(* An edge of each core.                                                   *)

\* An idle core that is not asked stays idle and quiet.
LEMMA RestsInIdle ==
    ASSUME fst = "IDLE", NEW c, NEW in, CoreEdge(FALSE, c, in)
    PROVE  fst' = "IDLE" /\ fvalid' = FALSE
BY DEF CoreEdge, IterEdge, IterStart, IterRun, ColumnEdge, BitEdge, UcodeEdge, SerialIdle, SerialPC,
       ColSbox, ColLin, BitSbox, BitLin, BitSwap, UcodeIdle, UcodeRun, Quiet

LEMMA Starts ==
    ASSUME design \in PermDesigns, design' = design, fst = "IDLE",
           NEW c \in 0..2, NEW in, CoreEdge(TRUE, c, in), bcode' = c, bcyc' = 0
    PROVE  fvalid' = FALSE /\ InTime'
<1> DEFINE n == RoundsOf(c)
<1>1. /\ n \in {6, 8, 12} /\ StartIndex(c) = 16 - n /\ EntryPc(c) = 12 - n
      /\ Asking' = n
  BY AskedRounds DEF DONE, Asking
<1>2. Width' = Width /\ Layer' = Layer
  BY DEF Width, Layer
<1> HIDE DEF n
<1>3. CASE design[1] = "iter"
  <2>1. fidx' = 16 - n /\ fst' = "RUN" /\ fvalid' = FALSE
    BY <1>1, <1>3 DEF CoreEdge, IterEdge, IterStart, IterRun, Quiet
  <2>2. Width \in 1..12
    BY <1>3, Designs
  <2>3. Done' = 0
    BY <1>1, <2>1 DEF Done, DONE
  <2>4. bcyc' * Width = 0
    BY <2>2
  <2> QED  BY <1>1, <1>2, <1>3, <2>1, <2>3, <2>4 DEF InTime, IterTime, DONE
<1>4. CASE design[1] = "colser"
  <2>1. fidx' = 16 - n /\ fst' = "PC" /\ fvalid' = FALSE /\ fcol' = 0
    BY <1>1, <1>4 DEF CoreEdge, ColumnEdge, SerialIdle, SerialPC, ColSbox, ColLin, Quiet, DONE
  <2>2. Layer \in 2..64
    BY <1>4, Designs, ColumnCount DEF Layer
  <2>3. Done' = 0 /\ Done' * (2 + Layer) = 0
    BY <1>1, <2>1, <2>2 DEF Done, DONE
  <2> QED  BY <1>1, <1>2, <1>4, <2>1, <2>3 DEF InTime, ColumnTime, DONE
<1>5. CASE design[1] = "bitser"
  <2>1. fidx' = 16 - n /\ fst' = "PC" /\ fvalid' = FALSE
    BY <1>1, <1>5 DEF CoreEdge, BitEdge, SerialIdle, SerialPC, BitSbox, BitLin, BitSwap, Quiet, DONE
  <2>2. Done' = 0
    BY <1>1, <2>1 DEF Done, DONE
  <2> QED  BY <1>1, <1>5, <2>1, <2>2 DEF InTime, BitTime, DONE
<1>6. CASE design[1] = "ucode"
  <2>1. fidx' = 12 - n /\ fst' = "RUN" /\ fvalid' = FALSE
    BY <1>1, <1>6 DEF CoreEdge, UcodeEdge, UcodeIdle, UcodeRun, Quiet
  <2> QED  BY <1>1, <1>6, <2>1 DEF InTime, UcodeTime
<1> QED  BY <1>3, <1>4, <1>5, <1>6, Designs

\* What an edge of a core that works has to show.
Tick ==
    /\ design \in PermDesigns /\ bcode \in 0..2 /\ bcyc \in Nat /\ fidx \in Nat
    /\ UNCHANGED <<design, bcode>> /\ bcyc' = bcyc + 1

LEMMA IterTicks ==
    ASSUME Tick, design[1] = "iter", IterTime, NEW c, NEW in, IterEdge(FALSE, c, in)
    PROVE  \/ fvalid' = TRUE /\ Answered'
           \/ fvalid' = FALSE /\ InTime'
<1> DEFINE n == Asking
           d == Done
           R == Width
<1>1. /\ n \in {6, 8, 12} /\ n' = n /\ R \in 1..12 /\ R' = R /\ d = fidx - (16 - n)
      /\ d \in Nat /\ fst = "RUN" /\ fidx < 16 /\ bcyc * R = d
      /\ bcyc \in Nat /\ fidx \in Nat /\ bcyc' = bcyc + 1 /\ design' = design
  BY Designs, AskedRounds DEF Tick, Asking, Width, Done, DONE, IterTime
<1>2. d' = fidx' - (16 - n)
  BY <1>1 DEF Done, DONE
<1>3. Latency(design, n)' = (n + R - 1) \div R
  BY <1>1 DEF Latency, Width
<1>4. IF fidx + R >= 16 THEN fvalid' = TRUE /\ fst' = "IDLE"
                        ELSE fidx' = fidx + R /\ fvalid' = FALSE /\ fst' = "RUN"
  BY <1>1 DEF IterEdge, IterStart, IterRun, Show, Quiet, DONE, Width
<1>5. (bcyc + 1) * R = d + R
  BY <1>1
<1> HIDE DEF n, d, R
<1>6. CASE fidx + R >= 16
  <2>1. d < n /\ n <= d + R
    BY <1>1, <1>6
  <2>2. (n + R - 1) \div R = bcyc + 1
    BY <1>1, <2>1, CeilDiv
  <2>3. Answered'
    BY <1>1, <1>3, <1>4, <1>6, <2>2 DEF Answered, n
  <2> QED  BY <1>4, <1>6, <2>3
<1>7. CASE ~(fidx + R >= 16)
  <2>1. fidx' = fidx + R /\ fst' = "RUN" /\ fidx' < 16 /\ fidx' \in Nat
    BY <1>1, <1>4, <1>7
  <2>2. d' = d + R /\ d' \in Nat
    BY <1>1, <1>2, <2>1
  <2>3. IterTime'
    BY <1>1, <1>5, <2>1, <2>2 DEF IterTime, d, R, DONE
  <2> QED  BY <1>1, <1>4, <1>7, <2>1, <2>3 DEF InTime, Tick
<1> QED  BY <1>6, <1>7

LEMMA UcodeTicks ==
    ASSUME Tick, design[1] = "ucode", UcodeTime, NEW c, NEW in, UcodeEdge(FALSE, c, in)
    PROVE  \/ fvalid' = TRUE /\ Answered'
           \/ fvalid' = FALSE /\ InTime'
<1>1. /\ Asking \in {6, 8, 12} /\ Asking' = Asking /\ bcyc = fidx - (12 - Asking)
      /\ fst = "RUN" /\ fidx \in 0..11 /\ bcyc' = bcyc + 1 /\ bcyc \in Nat
  BY AskedRounds DEF Tick, Asking, UcodeTime
<1>2. Latency(design, Asking)' = Asking
  BY <1>1 DEF Tick, Latency
<1>3. IF fidx = 11 THEN fvalid' = TRUE /\ fst' = "IDLE"
                   ELSE fidx' = fidx + 1 /\ fvalid' = FALSE /\ fst' = "RUN"
  BY <1>1 DEF UcodeEdge, UcodeIdle, UcodeRun, UcodeHalt, Show, Quiet
<1>4. CASE fidx = 11
  BY <1>1, <1>2, <1>3, <1>4 DEF Answered
<1>5. CASE fidx # 11
  BY <1>1, <1>3, <1>5 DEF InTime, UcodeTime, Tick
<1> QED  BY <1>4, <1>5

\* The last cycle of a round, in which L cycles have passed since the one before.
LEMMA RoundEnds ==
    ASSUME Tick, Done \in Nat, fidx < DONE, NEW x, RoundDone(x),
           NEW L \in Nat, bcyc + 1 = Done * L + L
    PROVE  \/ fvalid' = TRUE /\ fst' = "IDLE" /\ bcyc' = Asking' * L
           \/ /\ fvalid' = FALSE /\ fst' = "PC" /\ fidx' \in Nat /\ fidx' < DONE
              /\ Done' \in Nat /\ bcyc' = Done' * L
<1> DEFINE n == Asking
           d == Done
<1>1. /\ n \in {6, 8, 12} /\ n' = n /\ d = fidx - (16 - n) /\ d \in Nat
      /\ fidx < 16 /\ fidx \in Nat /\ bcyc' = bcyc + 1
      /\ d' = fidx' - (16 - n)
  BY AskedRounds DEF Tick, Asking, Done, DONE
<1>2. (d + 1) * L = d * L + L
  BY <1>1, OneMoreRound
<1>3. IF fidx + 1 >= 16 THEN fvalid' = TRUE /\ fst' = "IDLE"
                        ELSE fidx' = fidx + 1 /\ fvalid' = FALSE /\ fst' = "PC"
  BY DEF RoundDone, Show, Quiet, DONE
<1>4. bcyc' = (d + 1) * L
  BY <1>1, <1>2
<1> HIDE DEF n, d
<1>5. CASE fidx + 1 >= 16
  <2>1. d + 1 = n
    BY <1>1, <1>5
  <2> QED  BY <1>1, <1>3, <1>4, <1>5, <2>1 DEF n
<1>6. CASE ~(fidx + 1 >= 16)
  <2>1. d' = d + 1 /\ d + 1 \in Nat /\ fidx' \in Nat /\ fidx' < 16
    BY <1>1, <1>3, <1>6
  <2> QED  BY <1>3, <1>4, <1>6, <2>1 DEF d, DONE
<1> QED  BY <1>5, <1>6

\* Within a round the rounds done stay.
LEMMA SameRound ==
    ASSUME Tick, fidx' = fidx
    PROVE  /\ Done' = Done /\ Asking' = Asking /\ Width' = Width /\ Layer' = Layer
           /\ design' = design /\ bcyc' = bcyc + 1 /\ fidx' \in Nat /\ bcyc' \in Nat
BY DEF Tick, Done, Asking, Width, Layer

LEMMA ColumnTicks ==
    ASSUME Tick, design[1] = "colser", ColumnTime, NEW c, NEW in, ColumnEdge(FALSE, c, in)
    PROVE  \/ fvalid' = TRUE /\ Answered'
           \/ fvalid' = FALSE /\ InTime'
<1> DEFINE base == Done * (2 + Layer)
<1>1. /\ Done \in Nat /\ fidx < DONE /\ fcol \in Nat /\ design \in PermDesigns
      /\ bcyc \in Nat /\ fidx \in Nat /\ bcyc' = bcyc + 1 /\ design' = design
  BY DEF Tick, ColumnTime
<1>2. /\ Width \in {1, 2, 4, 8, 16, 32} /\ Layer \in 2..64
      /\ (64 + Width - 1) \div Width = Layer
      /\ \A m \in Nat : /\ m * Width \in Nat /\ m * Width + Width = (m + 1) * Width
                        /\ m * Width + Width >= 64 <=> m + 1 >= Layer
  <2>1. Width \in {1, 2, 4, 8, 16, 32}
    BY <1>1, Designs
  <2> QED  BY <2>1, ColumnCount DEF Layer
<1>3. base \in Nat /\ Width' = Width /\ Layer' = Layer
  <2>1. Done \in Nat /\ 2 + Layer \in Nat
    BY <1>1, <1>2
  <2>2. base \in Nat
    BY <2>1, OneMoreRound
  <2> QED  BY <1>1, <2>2 DEF Width, Layer
<1>4. \/ fst = "PC" /\ bcyc = base
      \/ fst = "SBOX" /\ \E m \in 0 .. (Layer - 1) : fcol = m * Width /\ bcyc = base + 1 + m
      \/ fst = "LIN" /\ bcyc = base + 1 + Layer
  BY DEF ColumnTime
<1> HIDE DEF base
<1>5. CASE fst = "PC"
  <2>1. fst' = "SBOX" /\ fcol' = 0 /\ fidx' = fidx /\ fvalid' = FALSE
    BY <1>5 DEF ColumnEdge, SerialIdle, SerialPC, ColSbox, ColLin, Quiet
  <2>2. bcyc' = base + 1 + 0 /\ 0 \in 0 .. (Layer - 1) /\ 0 * Width = 0
    BY <1>1, <1>2, <1>3, <1>4, <1>5
  <2>3. ColumnTime'
    BY <1>1, <2>1, <2>2, SameRound DEF ColumnTime, base
  <2> QED  BY <1>1, <1>5, <2>1, <2>3, SameRound DEF InTime
<1>6. CASE fst = "SBOX"
  <2>1. PICK m \in 0 .. (Layer - 1) : fcol = m * Width /\ bcyc = base + 1 + m
    BY <1>4, <1>6
  <2>2. /\ fidx' = fidx /\ fvalid' = FALSE
        /\ IF fcol + Width >= 64 THEN fst' = "LIN" /\ fcol' = fcol
                                 ELSE fcol' = fcol + Width /\ fst' = "SBOX"
    BY <1>6 DEF ColumnEdge, SerialIdle, SerialPC, ColSbox, ColLin, Quiet, Width
  <2>3. m \in Nat /\ (fcol + Width >= 64 <=> m + 1 >= Layer) /\ fcol + Width = (m + 1) * Width
    BY <1>2, <2>1
  <2>4. fcol' \in Nat
    BY <1>1, <1>2, <2>2
  <2>5. CASE m + 1 >= Layer
    <3>1. fst' = "LIN" /\ bcyc' = base + 1 + Layer
      BY <1>1, <1>2, <1>3, <2>1, <2>2, <2>3, <2>5
    <3> QED  BY <1>1, <1>6, <2>2, <2>4, <3>1, SameRound DEF InTime, ColumnTime, base
  <2>6. CASE ~(m + 1 >= Layer)
    <3>1. m + 1 \in 0 .. (Layer - 1) /\ bcyc' = base + 1 + (m + 1)
      BY <1>1, <1>2, <1>3, <2>1, <2>6
    <3>2. fst' = "SBOX" /\ fcol' = (m + 1) * Width
      BY <2>2, <2>3, <2>6
    <3>3. ColumnTime'
      BY <1>1, <2>2, <2>4, <3>1, <3>2, SameRound DEF ColumnTime, base
    <3> QED  BY <1>1, <2>2, <3>3, SameRound DEF InTime
  <2> QED  BY <2>5, <2>6
<1>7. CASE fst = "LIN"
  <2>1. RoundDone(RtlPL(fs)) /\ fcol' = fcol
    BY <1>7 DEF ColumnEdge, SerialIdle, SerialPC, ColSbox, ColLin
  <2>2. 2 + Layer \in Nat /\ bcyc + 1 = Done * (2 + Layer) + (2 + Layer)
    BY <1>1, <1>2, <1>3, <1>4, <1>7 DEF base
  <2>3. \/ fvalid' = TRUE /\ fst' = "IDLE" /\ bcyc' = Asking' * (2 + Layer)
        \/ /\ fvalid' = FALSE /\ fst' = "PC" /\ fidx' \in Nat /\ fidx' < DONE
           /\ Done' \in Nat /\ bcyc' = Done' * (2 + Layer)
    BY <1>1, <2>1, <2>2, RoundEnds
  <2>4. Latency(design, Asking)' = Asking' * (2 + Layer)
    BY <1>1, <1>2 DEF Latency, Width
  <2> QED  BY <1>1, <1>3, <2>1, <2>3, <2>4 DEF Answered, InTime, ColumnTime
<1> QED  BY <1>4, <1>5, <1>6, <1>7

LEMMA BitTicks ==
    ASSUME Tick, design[1] = "bitser", BitTime, NEW c, NEW in, BitEdge(FALSE, c, in)
    PROVE  \/ fvalid' = TRUE /\ Answered'
           \/ fvalid' = FALSE /\ InTime'
<1> DEFINE base == Done * 130
<1>1. /\ Done \in Nat /\ fidx < DONE /\ bcyc \in Nat /\ fidx \in Nat /\ bcyc' = bcyc + 1
      /\ design' = design /\ base \in Nat
  BY DEF Tick, BitTime
<1>2. \/ fst = "PC" /\ bcyc = base
      \/ fst = "SBOX" /\ fcol \in 0..63 /\ bcyc = base + 1 + fcol
      \/ fst = "LIN" /\ fcol \in 0..63 /\ bcyc = base + 65 + fcol
      \/ fst = "LSWAP" /\ bcyc = base + 129
  BY DEF BitTime
<1> HIDE DEF base
<1>3. CASE fst = "PC"
  <2>1. fst' = "SBOX" /\ fcol' = 0 /\ fidx' = fidx /\ fvalid' = FALSE
    BY <1>3 DEF BitEdge, SerialIdle, SerialPC, BitSbox, BitLin, BitSwap, Quiet
  <2>2. bcyc' = base + 1 + fcol'
    BY <1>1, <1>2, <1>3, <2>1
  <2> QED  BY <1>1, <2>1, <2>2, SameRound DEF InTime, BitTime, base
<1>4. CASE fst = "SBOX"
  <2>1. /\ fidx' = fidx /\ fvalid' = FALSE
        /\ IF fcol = 63 THEN fcol' = 0 /\ fst' = "LIN" ELSE fcol' = fcol + 1 /\ fst' = "SBOX"
    BY <1>4 DEF BitEdge, SerialIdle, SerialPC, BitSbox, BitLin, BitSwap, Quiet, Count64
  <2>2. fcol' \in 0..63 /\ bcyc' = IF fst' = "LIN" THEN base + 65 + fcol' ELSE base + 1 + fcol'
    BY <1>1, <1>2, <1>4, <2>1
  <2> QED  BY <1>1, <2>1, <2>2, SameRound DEF InTime, BitTime, base
<1>5. CASE fst = "LIN"
  <2>1. /\ fidx' = fidx /\ fvalid' = FALSE
        /\ IF fcol = 63 THEN fcol' = 0 /\ fst' = "LSWAP" ELSE fcol' = fcol + 1 /\ fst' = "LIN"
    BY <1>5 DEF BitEdge, SerialIdle, SerialPC, BitSbox, BitLin, BitSwap, Quiet, Count64
  <2>2. fcol' \in 0..63 /\ bcyc' = IF fst' = "LSWAP" THEN base + 129 ELSE base + 65 + fcol'
    BY <1>1, <1>2, <1>5, <2>1
  <2> QED  BY <1>1, <2>1, <2>2, SameRound DEF InTime, BitTime, base
<1>6. CASE fst = "LSWAP"
  <2>1. RoundDone(ft)
    BY <1>6 DEF BitEdge, SerialIdle, SerialPC, BitSbox, BitLin, BitSwap
  <2>2. bcyc + 1 = Done * 130 + 130
    BY <1>1, <1>2, <1>6 DEF base
  <2>3. \/ fvalid' = TRUE /\ fst' = "IDLE" /\ bcyc' = Asking' * 130
        \/ /\ fvalid' = FALSE /\ fst' = "PC" /\ fidx' \in Nat /\ fidx' < DONE
           /\ Done' \in Nat /\ bcyc' = Done' * 130
    BY <1>1, <2>1, <2>2, RoundEnds
  <2>4. Latency(design, Asking)' = Asking' * 130
    BY <1>1 DEF Latency
  <2> QED  BY <1>1, <2>3, <2>4 DEF Answered, InTime, BitTime
<1> QED  BY <1>2, <1>3, <1>4, <1>5, <1>6

-----------------------------------------------------------------------------
(* The cores with their testbench.                                         *)

LEMMA WaitTicks ==
    ASSUME LatencyInv, Wait
    PROVE  LatencyInv'
<1>1. /\ bphase = "wait" /\ bphase' = "wait" /\ InTime /\ Tick /\ CoreEdge(FALSE, bcode, bin)
      /\ btrial' = btrial /\ design' = design /\ bcode' = bcode
  BY DEF LatencyInv, Wait, InTime, Tick
<1>2. \/ fvalid' = TRUE /\ Answered'
      \/ fvalid' = FALSE /\ InTime'
  <2>1. CASE design[1] = "iter"
    BY <1>1, <2>1, IterTicks DEF InTime, CoreEdge
  <2>2. CASE design[1] = "colser"
    BY <1>1, <2>2, ColumnTicks DEF InTime, CoreEdge
  <2>3. CASE design[1] = "bitser"
    BY <1>1, <2>3, BitTicks DEF InTime, CoreEdge
  <2>4. CASE design[1] = "ucode"
    BY <1>1, <2>4, UcodeTicks DEF InTime, CoreEdge
  <2> QED  BY <2>1, <2>2, <2>3, <2>4, Designs DEF LatencyInv
<1>3. IF fvalid' THEN Answered' ELSE InTime'
  BY <1>2
<1> QED  BY <1>1, <1>3 DEF LatencyInv

LEMMA LatencyInit == ASSUME PermInit PROVE LatencyInv
<1>1. design \in PermDesigns /\ bphase \in {"present", "smoke"} /\ fst = "IDLE"
      /\ bcode = 2 /\ btrial = 0
  BY DEF PermInit, FsmInit
<1> QED  BY <1>1 DEF LatencyInv

LEMMA LatencyStep ==
    ASSUME LatencyInv, [PermNext]_permVars
    PROVE  LatencyInv'
<1>1. ASSUME NEW v \in TrialVectors(btrial), Present(v) PROVE LatencyInv'
  <2>1. btrial % 3 \in 0..2 /\ fst = "IDLE"
    BY <1>1 DEF LatencyInv, Present
  <2>2. fvalid' = FALSE /\ InTime'
    BY <1>1, <2>1, Starts DEF LatencyInv, Present
  <2> QED  BY <1>1, <2>1, <2>2 DEF LatencyInv, Present
<1>2. CASE Wait
  BY <1>2, WaitTicks
<1>3. CASE Check
  <2>1. fst = "IDLE" /\ CoreEdge(FALSE, bcode, bin)
    BY <1>3 DEF Check, LatencyInv, Answered
  <2>2. fst' = "IDLE"
    BY <2>1, RestsInIdle
  <2> QED  BY <1>3, <2>2 DEF Check, LatencyInv
<1>4. CASE PermFinish
  BY <1>4 DEF PermFinish, LatencyInv, fregs
<1>5. CASE SmokeReset \/ SmokeEdge
  BY <1>5 DEF SmokeReset, SmokeEdge, LatencyInv, bregs
<1>6. CASE UNCHANGED permVars
  <2>1. UNCHANGED <<design, fst, fidx, fcol, fvalid, bphase, btrial, bcode, bcyc>>
    BY <1>6 DEF permVars, fregs, bregs
  <2> QED  BY <2>1 DEF LatencyInv, Answered, InTime, IterTime, ColumnTime, BitTime, UcodeTime,
                       Latency, Asking, Done, Width, Layer
<1> QED  BY <1>1, <1>2, <1>3, <1>4, <1>5, <1>6 DEF PermNext

\* LatencyAsDocumented: an answer comes in exactly the cycles its design is
\* documented to take, for every R in 1..12 and every K that divides 64, after
\* any history of vectors and round counts.
THEOREM LatencyDocumented == PermSpec => []LatencyAsDocumented
<1>1. PermInit => LatencyInv
  BY LatencyInit
<1>2. LatencyInv /\ [PermNext]_permVars => LatencyInv'
  BY LatencyStep
<1>3. LatencyInv => LatencyAsDocumented
  BY DEF LatencyInv, LatencyAsDocumented, Answered, Asking
<1> QED  BY <1>1, <1>2, <1>3, PTL DEF PermSpec

-----------------------------------------------------------------------------
(* Induction.  The library states it for operators; these lemmas are about *)
(* sets and functions, and rest on its well-founded minimum.               *)

NatLess == {p \in Nat \X Nat : p[1] < p[2]}

\* A set of natural numbers has a least one.
LEMMA Least ==
    ASSUME NEW T \in SUBSET Nat, T # {}
    PROVE  \E x \in T : \A y \in T : x <= y
<1>1. IsWellFoundedOn(NatLess, Nat)
  BY NatLessThanWellFounded DEF OpToRel, NatLess
<1>2. PICK x \in T : \A y \in T : <<y, x>> \notin NatLess
  BY <1>1, WFMin
<1>3. ASSUME NEW y \in T PROVE x <= y
  <2>1. <<y, x>> \in Nat \X Nat /\ <<y, x>>[1] = y /\ <<y, x>>[2] = x
    OBVIOUS
  <2> QED  BY <1>2, <2>1 DEF NatLess
<1> QED  BY <1>3

\* So what holds of 0, and of n + 1 when of n, holds of all.
LEMMA Induction ==
    ASSUME NEW X \in SUBSET Nat, 0 \in X, \A n \in X : n + 1 \in X
    PROVE  X = Nat
<1> SUFFICES ASSUME Nat \ X # {} PROVE FALSE
  OBVIOUS
<1>1. PICK x \in Nat \ X : \A y \in Nat \ X : x <= y
  BY Least
<1>2. x - 1 \in X
  BY <1>1
<1> QED  BY <1>1, <1>2

\* The same up to a bound.
LEMMA BoundedInduction ==
    ASSUME NEW n \in Nat, NEW X, 0 \in X, \A k \in 0..(n - 1) : k \in X => k + 1 \in X
    PROVE  \A k \in 0..n : k \in X
<1> DEFINE T == {k \in Nat : k <= n => k \in X}
<1>1. 0 \in T /\ \A k \in T : k + 1 \in T
  OBVIOUS
<1>2. T = Nat
  BY <1>1, Induction
<1> QED  BY <1>2

\* f goes from v through the n steps, which are functions on X.
Iterates(f, X, v, n, step) ==
    f \in [0..n -> X] /\ f[0] = v /\ \A k \in 1..n : f[k] = step[k][f[k - 1]]

\* A function that is defined along 0..n, one application at a time, exists.
LEMMA Iteration ==
    ASSUME NEW X, NEW v \in X, NEW n \in Nat, NEW step \in [1..n -> [X -> X]]
    PROVE  \E f : Iterates(f, X, v, n, step)
<1> DEFINE Upto(m, f) == /\ f \in [0..m -> X] /\ f[0] = v
                         /\ \A k \in 1..m : f[k] = step[k][f[k - 1]]
           Good       == {m \in Nat : m <= n => \E f \in [0..m -> X] : Upto(m, f)}
<1>1. 0 \in Good
  <2>1. Upto(0, [k \in 0..0 |-> v])
    OBVIOUS
  <2> QED  BY <2>1
<1>2. ASSUME NEW m \in Good PROVE m + 1 \in Good
  <2>a. m \in Nat /\ m + 1 \in Nat /\ (m <= n => \E f \in [0..m -> X] : Upto(m, f))
    OBVIOUS
  <2> SUFFICES ASSUME m + 1 <= n PROVE \E f \in [0..(m + 1) -> X] : Upto(m + 1, f)
    BY <2>a
  <2>1. PICK f \in [0..m -> X] : Upto(m, f)
    BY <2>a
  <2> DEFINE g == [k \in 0..(m + 1) |-> IF k = m + 1 THEN step[m + 1][f[m]] ELSE f[k]]
  <2>2. step[m + 1][f[m]] \in X
    BY <2>1
  <2>3. g \in [0..(m + 1) -> X]
    BY <2>1, <2>2
  <2>4. \A k \in 1..(m + 1) : g[k] = step[k][g[k - 1]]
    BY <2>1
  <2>5. g[0] = v
    BY <2>1
  <2>6. Upto(m + 1, g)
    BY <2>3, <2>4, <2>5
  <2> QED  BY <2>3, <2>6
<1>3. Good = Nat
  <2> HIDE DEF Good
  <2>1. Good \in SUBSET Nat
    BY DEF Good
  <2> QED  BY <1>1, <1>2, <2>1, Induction
<1>4. n \in Good
  BY <1>3
<1> HIDE DEF Upto
<1>5. \E f \in [0..n -> X] : Upto(n, f)
  BY <1>4
<1> QED  BY <1>5 DEF Upto, Iterates

-----------------------------------------------------------------------------
(* The layers of the permutation, bit by bit.                              *)

Vec   == SUBSET Ones
State == [Words -> SUBSET Bits]

\* 64 * i + j names bit j of word i.
LEMMA BitPlaces ==
    /\ \A i \in Words, j \in Bits : 64 * i + j \in Ones
    /\ \A i, k \in Words, j, l \in Bits : 64 * i + j = 64 * k + l => i = k /\ j = l
    /\ \A n \in Ones : \E i \in Words, j \in Bits : n = 64 * i + j
<1>1. \A i \in Words, j \in Bits : 64 * i + j \in Ones
  BY DEF Words, Bits, Ones
<1>2. \A i, k \in Words, j, l \in Bits : 64 * i + j = 64 * k + l => i = k /\ j = l
  BY DEF Words, Bits
<1>3. ASSUME NEW n \in Ones PROVE \E i \in Words, j \in Bits : n = 64 * i + j
  <2> n \in Int /\ 0 <= n /\ n <= 319
    BY DEF Ones
  <2>1. ASSUME 0 <= n, n <= 63 PROVE \E i \in Words, j \in Bits : n = 64 * i + j
    <3>1. 0 \in Words /\ n - 0 \in Bits /\ n = 64 * 0 + (n - 0)
      BY <2>1 DEF Words, Bits
    <3> QED  BY <3>1
  <2>2. ASSUME 64 <= n, n <= 127 PROVE \E i \in Words, j \in Bits : n = 64 * i + j
    <3>1. 1 \in Words /\ n - 64 \in Bits /\ n = 64 * 1 + (n - 64)
      BY <2>2 DEF Words, Bits
    <3> QED  BY <3>1
  <2>3. ASSUME 128 <= n, n <= 191 PROVE \E i \in Words, j \in Bits : n = 64 * i + j
    <3>1. 2 \in Words /\ n - 128 \in Bits /\ n = 64 * 2 + (n - 128)
      BY <2>3 DEF Words, Bits
    <3> QED  BY <3>1
  <2>4. ASSUME 192 <= n, n <= 255 PROVE \E i \in Words, j \in Bits : n = 64 * i + j
    <3>1. 3 \in Words /\ n - 192 \in Bits /\ n = 64 * 3 + (n - 192)
      BY <2>4 DEF Words, Bits
    <3> QED  BY <3>1
  <2>5. ASSUME 256 <= n, n <= 319 PROVE \E i \in Words, j \in Bits : n = 64 * i + j
    <3>1. 4 \in Words /\ n - 256 \in Bits /\ n = 64 * 4 + (n - 256)
      BY <2>5 DEF Words, Bits
    <3> QED  BY <3>1
  <2> QED  BY <2>1, <2>2, <2>3, <2>4, <2>5
<1> QED  BY <1>1, <1>2, <1>3

\* Packing five words into a vector, and taking them out again.
LEMMA Pack ==
    ASSUME NEW s \in State
    PROVE  /\ ToVector(s) \in Vec
           /\ \A i \in Words, j \in Bits : 64 * i + j \in ToVector(s) <=> j \in s[i]
           /\ FromVector(ToVector(s)) = s
<1>1. \A i \in Words : s[i] \subseteq Bits
  BY DEF State
<1>2. ToVector(s) \in Vec
  BY <1>1, BitPlaces DEF ToVector, Vec
<1>3. \A i \in Words, j \in Bits : 64 * i + j \in ToVector(s) <=> j \in s[i]
  <2> TAKE i \in Words, j \in Bits
  <2>1. ASSUME 64 * i + j \in ToVector(s) PROVE j \in s[i]
    <3>1. PICK k \in Words : 64 * i + j \in {64 * k + l : l \in s[k]}
      BY <2>1 DEF ToVector
    <3>2. PICK l \in s[k] : 64 * i + j = 64 * k + l
      BY <3>1
    <3>3. l \in Bits
      BY <1>1
    <3> QED  BY <3>2, <3>3, BitPlaces
  <2>2. ASSUME j \in s[i] PROVE 64 * i + j \in ToVector(s)
    BY <2>2 DEF ToVector
  <2> QED  BY <2>1, <2>2
<1>4. FromVector(ToVector(s)) = s
  <2>1. \A i \in Words : {j \in Bits : 64 * i + j \in ToVector(s)} = s[i]
    BY <1>1, <1>3
  <2> QED  BY <2>1 DEF FromVector, State
<1> QED  BY <1>2, <1>3, <1>4

LEMMA Unpack ==
    ASSUME NEW v \in Vec
    PROVE  FromVector(v) \in State /\ ToVector(FromVector(v)) = v
<1>1. FromVector(v) \in State
  BY DEF FromVector, State
<1>2. ToVector(FromVector(v)) \in Vec
  BY <1>1, Pack
<1>3. ASSUME NEW n \in Ones PROVE n \in ToVector(FromVector(v)) <=> n \in v
  <2>1. PICK i \in Words, j \in Bits : n = 64 * i + j
    BY BitPlaces
  <2>2. n \in ToVector(FromVector(v)) <=> j \in FromVector(v)[i]
    BY <1>1, <2>1, Pack
  <2> QED  BY <2>1, <2>2 DEF FromVector
<1> QED  BY <1>1, <1>2, <1>3 DEF Vec

\* Two vectors with the same bits are the same.
LEMMA SameBits ==
    ASSUME NEW v \in Vec, NEW w \in Vec,
           \A i \in Words, j \in Bits : 64 * i + j \in v <=> 64 * i + j \in w
    PROVE  v = w
<1>1. \A n \in Ones : n \in v <=> n \in w
  <2> TAKE n \in Ones
  <2>1. PICK i \in Words, j \in Bits : n = 64 * i + j
    BY BitPlaces
  <2> QED  BY <2>1
<1> QED  BY <1>1 DEF Vec

\* The layers of a round.
LEMMA SboxState == ASSUME NEW s \in State PROVE PSBitsliced(s) \in State
<1>1. \A i \in Words : s[i] \subseteq Bits
  BY DEF State
<1>2. \A A, B \in SUBSET Bits : A (+) B \in SUBSET Bits /\ A \cap B \in SUBSET Bits
  BY DEF (+)
<1> QED  BY <1>1, <1>2, Bits \in SUBSET Bits DEF PSBitsliced, State, Words

\* Where a rotation and a Sigma function take their bits from.
LEMMA RotrIn ==
    ASSUME NEW x \in SUBSET Bits, NEW r \in 0..63
    PROVE  /\ Rotr64(x, r) \in SUBSET Bits
           /\ \A j \in Bits : j \in Rotr64(x, r) <=> (j + r) % 64 \in x
<1>1. \A j \in Bits : (j + 64 - r) % 64 \in Bits /\ (j + r) % 64 \in Bits
  BY DEF Bits
<1>2. \A j \in Bits : (((j + r) % 64) + (64 - r)) % 64 = j
  BY DEF Bits
<1>3. \A j \in Bits : (((j + 64 - r) % 64) + r) % 64 = j
  BY DEF Bits
<1> QED  BY <1>1, <1>2, <1>3 DEF Rotr64

LEMMA SigmaIn ==
    ASSUME NEW x \in SUBSET Bits, NEW r1 \in 0..63, NEW r2 \in 0..63
    PROVE  /\ Sigma(x, r1, r2) \in SUBSET Bits
           /\ \A j \in Bits : j \in Sigma(x, r1, r2) <=>
                 ((j \in x <=> (j + r1) % 64 \notin x) <=> (j + r2) % 64 \notin x)
<1>1. Rotr64(x, r1) \in SUBSET Bits /\ Rotr64(x, r2) \in SUBSET Bits
  BY RotrIn
<1>2. \A A, B : A (+) B \subseteq A \cup B
  BY DEF (+)
<1>3. Sigma(x, r1, r2) \in SUBSET Bits
  BY <1>1, <1>2 DEF Sigma
<1>4. \A A, B, j : j \in A (+) B <=> (j \in A <=> j \notin B)
  BY DEF (+)
<1>5. \A j \in Bits : j \in Sigma(x, r1, r2) <=>
                 ((j \in x <=> (j + r1) % 64 \notin x) <=> (j + r2) % 64 \notin x)
  BY <1>4, RotrIn DEF Sigma
<1> QED  BY <1>3, <1>5

\* The inputs for which an output bit of the S-box is one.
SboxOnes ==
    [i \in Words |->
      CASE i = 0 -> {2, 3, 4, 5, 8, 11, 12, 15, 16, 17, 22, 23, 24, 27, 28, 31}
        [] i = 1 -> {1, 2, 4, 6, 8, 10, 12, 15, 16, 19, 21, 23, 25, 27, 29, 30}
        [] i = 2 -> {0, 2, 3, 5, 9, 12, 14, 15, 16, 18, 19, 21, 25, 28, 30, 31}
        [] i = 3 -> {1, 2, 4, 7, 8, 11, 13, 14, 16, 17, 18, 19, 28, 29, 30, 31}
        [] i = 4 -> {1, 2, 5, 6, 8, 9, 12, 13, 17, 18, 21, 22, 26, 27, 30, 31}]

\* The bits of an S-box output, without the powers.
LEMMA OutBits ==
    ASSUME NEW y \in 0..31
    PROVE  /\ OutBit(y, 0) <=> (y \div 16) % 2 = 1
           /\ OutBit(y, 1) <=> (y \div 8) % 2 = 1
           /\ OutBit(y, 2) <=> (y \div 4) % 2 = 1
           /\ OutBit(y, 3) <=> (y \div 2) % 2 = 1
           /\ OutBit(y, 4) <=> y % 2 = 1
<1>1. 2^4 = 16 /\ 2^3 = 8 /\ 2^2 = 4 /\ 2^1 = 2 /\ 2^0 = 1
  OBVIOUS
<1>2. 4 - 0 = 4 /\ 4 - 1 = 3 /\ 4 - 2 = 2 /\ 4 - 3 = 1 /\ 4 - 4 = 0
  OBVIOUS
<1>3. y \div 1 = y
  OBVIOUS
<1> QED  BY <1>1, <1>2, <1>3 DEF OutBit

\* The table, row by row.
LEMMA SboxTable ==
    ASSUME NEW c \in 0..31
    PROVE  /\ SBOX[c + 1] \in 0..31
           /\ \A i \in Words : OutBit(SBOX[c + 1], i) <=> c \in SboxOnes[i]
<1>1. CASE c = 0
  <2>1. SBOX[c + 1] = 4
    BY <1>1 DEF SBOX
  <2> QED  BY <1>1, <2>1, OutBits DEF SboxOnes, Words
<1>2. CASE c = 1
  <2>1. SBOX[c + 1] = 11
    BY <1>2 DEF SBOX
  <2> QED  BY <1>2, <2>1, OutBits DEF SboxOnes, Words
<1>3. CASE c = 2
  <2>1. SBOX[c + 1] = 31
    BY <1>3 DEF SBOX
  <2> QED  BY <1>3, <2>1, OutBits DEF SboxOnes, Words
<1>4. CASE c = 3
  <2>1. SBOX[c + 1] = 20
    BY <1>4 DEF SBOX
  <2> QED  BY <1>4, <2>1, OutBits DEF SboxOnes, Words
<1>5. CASE c = 4
  <2>1. SBOX[c + 1] = 26
    BY <1>5 DEF SBOX
  <2> QED  BY <1>5, <2>1, OutBits DEF SboxOnes, Words
<1>6. CASE c = 5
  <2>1. SBOX[c + 1] = 21
    BY <1>6 DEF SBOX
  <2> QED  BY <1>6, <2>1, OutBits DEF SboxOnes, Words
<1>7. CASE c = 6
  <2>1. SBOX[c + 1] = 9
    BY <1>7 DEF SBOX
  <2> QED  BY <1>7, <2>1, OutBits DEF SboxOnes, Words
<1>8. CASE c = 7
  <2>1. SBOX[c + 1] = 2
    BY <1>8 DEF SBOX
  <2> QED  BY <1>8, <2>1, OutBits DEF SboxOnes, Words
<1>9. CASE c = 8
  <2>1. SBOX[c + 1] = 27
    BY <1>9 DEF SBOX
  <2> QED  BY <1>9, <2>1, OutBits DEF SboxOnes, Words
<1>10. CASE c = 9
  <2>1. SBOX[c + 1] = 5
    BY <1>10 DEF SBOX
  <2> QED  BY <1>10, <2>1, OutBits DEF SboxOnes, Words
<1>11. CASE c = 10
  <2>1. SBOX[c + 1] = 8
    BY <1>11 DEF SBOX
  <2> QED  BY <1>11, <2>1, OutBits DEF SboxOnes, Words
<1>12. CASE c = 11
  <2>1. SBOX[c + 1] = 18
    BY <1>12 DEF SBOX
  <2> QED  BY <1>12, <2>1, OutBits DEF SboxOnes, Words
<1>13. CASE c = 12
  <2>1. SBOX[c + 1] = 29
    BY <1>13 DEF SBOX
  <2> QED  BY <1>13, <2>1, OutBits DEF SboxOnes, Words
<1>14. CASE c = 13
  <2>1. SBOX[c + 1] = 3
    BY <1>14 DEF SBOX
  <2> QED  BY <1>14, <2>1, OutBits DEF SboxOnes, Words
<1>15. CASE c = 14
  <2>1. SBOX[c + 1] = 6
    BY <1>15 DEF SBOX
  <2> QED  BY <1>15, <2>1, OutBits DEF SboxOnes, Words
<1>16. CASE c = 15
  <2>1. SBOX[c + 1] = 28
    BY <1>16 DEF SBOX
  <2> QED  BY <1>16, <2>1, OutBits DEF SboxOnes, Words
<1>17. CASE c = 16
  <2>1. SBOX[c + 1] = 30
    BY <1>17 DEF SBOX
  <2> QED  BY <1>17, <2>1, OutBits DEF SboxOnes, Words
<1>18. CASE c = 17
  <2>1. SBOX[c + 1] = 19
    BY <1>18 DEF SBOX
  <2> QED  BY <1>18, <2>1, OutBits DEF SboxOnes, Words
<1>19. CASE c = 18
  <2>1. SBOX[c + 1] = 7
    BY <1>19 DEF SBOX
  <2> QED  BY <1>19, <2>1, OutBits DEF SboxOnes, Words
<1>20. CASE c = 19
  <2>1. SBOX[c + 1] = 14
    BY <1>20 DEF SBOX
  <2> QED  BY <1>20, <2>1, OutBits DEF SboxOnes, Words
<1>21. CASE c = 20
  <2>1. SBOX[c + 1] = 0
    BY <1>21 DEF SBOX
  <2> QED  BY <1>21, <2>1, OutBits DEF SboxOnes, Words
<1>22. CASE c = 21
  <2>1. SBOX[c + 1] = 13
    BY <1>22 DEF SBOX
  <2> QED  BY <1>22, <2>1, OutBits DEF SboxOnes, Words
<1>23. CASE c = 22
  <2>1. SBOX[c + 1] = 17
    BY <1>23 DEF SBOX
  <2> QED  BY <1>23, <2>1, OutBits DEF SboxOnes, Words
<1>24. CASE c = 23
  <2>1. SBOX[c + 1] = 24
    BY <1>24 DEF SBOX
  <2> QED  BY <1>24, <2>1, OutBits DEF SboxOnes, Words
<1>25. CASE c = 24
  <2>1. SBOX[c + 1] = 16
    BY <1>25 DEF SBOX
  <2> QED  BY <1>25, <2>1, OutBits DEF SboxOnes, Words
<1>26. CASE c = 25
  <2>1. SBOX[c + 1] = 12
    BY <1>26 DEF SBOX
  <2> QED  BY <1>26, <2>1, OutBits DEF SboxOnes, Words
<1>27. CASE c = 26
  <2>1. SBOX[c + 1] = 1
    BY <1>27 DEF SBOX
  <2> QED  BY <1>27, <2>1, OutBits DEF SboxOnes, Words
<1>28. CASE c = 27
  <2>1. SBOX[c + 1] = 25
    BY <1>28 DEF SBOX
  <2> QED  BY <1>28, <2>1, OutBits DEF SboxOnes, Words
<1>29. CASE c = 28
  <2>1. SBOX[c + 1] = 22
    BY <1>29 DEF SBOX
  <2> QED  BY <1>29, <2>1, OutBits DEF SboxOnes, Words
<1>30. CASE c = 29
  <2>1. SBOX[c + 1] = 10
    BY <1>30 DEF SBOX
  <2> QED  BY <1>30, <2>1, OutBits DEF SboxOnes, Words
<1>31. CASE c = 30
  <2>1. SBOX[c + 1] = 15
    BY <1>31 DEF SBOX
  <2> QED  BY <1>31, <2>1, OutBits DEF SboxOnes, Words
<1>32. CASE c = 31
  <2>1. SBOX[c + 1] = 23
    BY <1>32 DEF SBOX
  <2> QED  BY <1>32, <2>1, OutBits DEF SboxOnes, Words
<1> QED  BY <1>1, <1>2, <1>3, <1>4, <1>5, <1>6, <1>7, <1>8,
            <1>9, <1>10, <1>11, <1>12, <1>13, <1>14, <1>15, <1>16,
            <1>17, <1>18, <1>19, <1>20, <1>21, <1>22, <1>23, <1>24,
            <1>25, <1>26, <1>27, <1>28, <1>29, <1>30, <1>31, <1>32

\* A column as a number, without the powers.
LEMMA Columns ==
    ASSUME NEW s \in State, NEW j \in Bits
    PROVE  Column(s, j) = (IF j \in s[0] THEN 16 ELSE 0) + (IF j \in s[1] THEN 8 ELSE 0)
              + (IF j \in s[2] THEN 4 ELSE 0) + (IF j \in s[3] THEN 2 ELSE 0)
              + (IF j \in s[4] THEN 1 ELSE 0)
<1>1. 2^4 = 16 /\ 2^3 = 8 /\ 2^2 = 4 /\ 2^1 = 2 /\ 2^0 = 1
  OBVIOUS
<1>2. 4 - 0 = 4 /\ 4 - 1 = 3 /\ 4 - 2 = 2 /\ 4 - 3 = 1 /\ 4 - 4 = 0
  OBVIOUS
<1> QED  BY <1>1, <1>2 DEF Column

\* Each bit of the boolean formulas is the S-box's.
LEMMA Formulas ==
    ASSUME NEW s \in State, NEW j \in Bits, NEW i \in Words
    PROVE  j \in PSBitsliced(s)[i] <=> Column(s, j) \in SboxOnes[i]
<1> DEFINE x0 == j \in s[0]  x1 == j \in s[1]  x2 == j \in s[2]  x3 == j \in s[3]  x4 == j \in s[4]
           c == (IF x0 THEN 16 ELSE 0) + (IF x1 THEN 8 ELSE 0)
                  + (IF x2 THEN 4 ELSE 0) + (IF x3 THEN 2 ELSE 0) + (IF x4 THEN 1 ELSE 0)
<1>1. Column(s, j) = c
  BY Columns
<1>2. \A A, B : j \in A (+) B <=> (j \in A <=> j \notin B)
  BY DEF (+)
<1>w0. j \in PSBitsliced(s)[0]
        <=> (((((((x4 /\ x1) <=> ~x3) <=> ~(x2 /\ x1)) <=> ~x2) <=> ~(x1 /\ x0)) <=> ~x1) <=> ~x0)
  <2>1. PSBitsliced(s)[0]
        = (s[4] \cap s[1]) (+) s[3] (+) (s[2] \cap s[1]) (+) s[2]
            (+) (s[1] \cap s[0]) (+) s[1] (+) s[0]
    BY DEF PSBitsliced, Words
  <2> QED  BY <1>2, <2>1
<1>w1. j \in PSBitsliced(s)[1]
        <=> (((((((x4 <=> ~(x3 /\ x2)) <=> ~(x3 /\ x1)) <=> ~x3) <=> ~(x2 /\ x1)) <=> ~x2) <=> ~x1) <=> ~x0)
  <2>1. PSBitsliced(s)[1]
        = s[4] (+) (s[3] \cap s[2]) (+) (s[3] \cap s[1]) (+) s[3] (+) (s[2] \cap s[1])
            (+) s[2] (+) s[1] (+) s[0]
    BY DEF PSBitsliced, Words
  <2> QED  BY <1>2, <2>1
<1>w2. j \in PSBitsliced(s)[2] <=> (((((x4 /\ x3) <=> ~x4) <=> ~x2) <=> ~x1) <=> ~TRUE)
  <2>1. PSBitsliced(s)[2] = (s[4] \cap s[3]) (+) s[4] (+) s[2] (+) s[1] (+) Bits
    BY DEF PSBitsliced, Words
  <2> QED  BY <1>2, <2>1
<1>w3. j \in PSBitsliced(s)[3]
        <=> (((((((x4 /\ x0) <=> ~x4) <=> ~(x3 /\ x0)) <=> ~x3) <=> ~x2) <=> ~x1) <=> ~x0)
  <2>1. PSBitsliced(s)[3]
        = (s[4] \cap s[0]) (+) s[4] (+) (s[3] \cap s[0]) (+) s[3]
            (+) s[2] (+) s[1] (+) s[0]
    BY DEF PSBitsliced, Words
  <2> QED  BY <1>2, <2>1
<1>w4. j \in PSBitsliced(s)[4] <=> (((((x4 /\ x1) <=> ~x4) <=> ~x3) <=> ~(x1 /\ x0)) <=> ~x1)
  <2>1. PSBitsliced(s)[4] = (s[4] \cap s[1]) (+) s[4] (+) s[3] (+) (s[1] \cap s[0]) (+) s[1]
    BY DEF PSBitsliced, Words
  <2> QED  BY <1>2, <2>1
<1> HIDE DEF x0, x1, x2, x3, x4
<1>3. x0 \in BOOLEAN /\ x1 \in BOOLEAN /\ x2 \in BOOLEAN /\ x3 \in BOOLEAN /\ x4 \in BOOLEAN
  BY DEF x0, x1, x2, x3, x4
<1>4. CASE i = 0
  BY <1>1, <1>w0, <1>3, <1>4 DEF SboxOnes, Words
<1>5. CASE i = 1
  BY <1>1, <1>w1, <1>3, <1>5 DEF SboxOnes, Words
<1>6. CASE i = 2
  BY <1>1, <1>w2, <1>3, <1>6 DEF SboxOnes, Words
<1>7. CASE i = 3
  BY <1>1, <1>w3, <1>3, <1>7 DEF SboxOnes, Words
<1>8. CASE i = 4
  BY <1>1, <1>w4, <1>3, <1>8 DEF SboxOnes, Words
<1> QED  BY <1>4, <1>5, <1>6, <1>7, <1>8 DEF Words

\* The boolean formulas that the model and the emitted cores use for the
\* substitution layer (sbox_bitsliced) give, for every state, what 64 lookups in
\* the S-box table give.
THEOREM SboxLayersAgree == \A s \in State : PSBitsliced(s) = PSLut(s)
<1> TAKE s \in State
<1>1. \A i \in Words : PSBitsliced(s)[i] = {j \in Bits : OutBit(SBOX[Column(s, j) + 1], i)}
  <2> TAKE i \in Words
  <2>1. PSBitsliced(s)[i] \subseteq Bits
    BY SboxState DEF State
  <2>2. \A j \in Bits : Column(s, j) \in 0..31
    BY Columns
  <2>3. \A j \in Bits : j \in PSBitsliced(s)[i] <=> OutBit(SBOX[Column(s, j) + 1], i)
    BY <2>2, Formulas, SboxTable
  <2> QED  BY <2>1, <2>3
<1>2. PSBitsliced(s) = [i \in Words |-> PSBitsliced(s)[i]]
  BY SboxState DEF State
<1> QED  BY <1>1, <1>2 DEF PSLut

-----------------------------------------------------------------------------
(* The emitted functions, bit by bit.                                      *)

\* The columns of a vector are those of its words.
LEMMA RtlColumns ==
    ASSUME NEW v \in Vec, NEW j \in Bits
    PROVE  RtlColumn(v, j) = Column(FromVector(v), j) /\ RtlColumn(v, j) \in 0..31
<1>1. \A i \in Words : j \in FromVector(v)[i] <=> 64 * i + j \in v
  BY DEF FromVector
<1>2. 0 \in Words /\ 1 \in Words /\ 2 \in Words /\ 3 \in Words /\ 4 \in Words
  BY DEF Words
<1>3. RtlColumn(v, j) = Column(FromVector(v), j)
  BY <1>1, <1>2 DEF RtlColumn, Column
<1>4. Column(FromVector(v), j) \in 0..31
  BY Unpack, Columns
<1> QED  BY <1>3, <1>4

\* The substitution layer of the hardware.
LEMMA RtlPSIs ==
    ASSUME NEW v \in Vec
    PROVE  /\ RtlPS(v) \in Vec
           /\ FromVector(RtlPS(v)) = PSBitsliced(FromVector(v))
           /\ \A i \in Words, j \in Bits :
                 64 * i + j \in RtlPS(v) <=> OutBit(SBOX[RtlColumn(v, j) + 1], i)
<1> DEFINE s == FromVector(v)
<1>1. s \in State /\ PSBitsliced(s) \in State
  BY Unpack, SboxState
<1>2. RtlPS(v) = ToVector(PSBitsliced(s))
  BY DEF RtlPS, Concat, ToVector, Slice, FromVector
<1>3. ASSUME NEW i \in Words, NEW j \in Bits
      PROVE  64 * i + j \in RtlPS(v) <=> OutBit(SBOX[RtlColumn(v, j) + 1], i)
  <2>1. 64 * i + j \in RtlPS(v) <=> j \in PSBitsliced(s)[i]
    BY <1>1, <1>2, Pack
  <2>2. j \in PSBitsliced(s)[i] <=> Column(s, j) \in SboxOnes[i]
    BY <1>1, Formulas
  <2> QED  BY <2>1, <2>2, RtlColumns, SboxTable
<1> QED  BY <1>1, <1>2, <1>3, Pack

\* One column at a time, written back in place.
LEMMA RtlSboxAtIs ==
    ASSUME NEW v \in Vec, NEW j \in Bits
    PROVE  /\ RtlSboxAt(v, j) \in Vec
           /\ \A i \in Words, k \in Bits :
                 64 * i + k \in RtlSboxAt(v, j) <=>
                    IF k = j THEN OutBit(SBOX[RtlColumn(v, j) + 1], i) ELSE 64 * i + k \in v
<1> DEFINE y == SBOX[RtlColumn(v, j) + 1]
<1>1. RtlSboxAt(v, j) = (v \ {64 * i + j : i \in Words})
                             \cup {64 * i + j : i \in {i \in Words : OutBit(y, i)}}
  BY DEF RtlSboxAt
<1> HIDE DEF y
<1>2. RtlSboxAt(v, j) \in Vec
  BY <1>1, BitPlaces DEF Vec
<1>3. ASSUME NEW i \in Words, NEW k \in Bits
      PROVE  64 * i + k \in RtlSboxAt(v, j) <=>
                IF k = j THEN OutBit(y, i) ELSE 64 * i + k \in v
  <2>1. 64 * i + k \in {64 * m + j : m \in Words} <=> k = j
    BY BitPlaces
  <2>2. 64 * i + k \in {64 * m + j : m \in {m \in Words : OutBit(y, m)}} <=> k = j /\ OutBit(y, i)
    BY BitPlaces
  <2> QED  BY <1>1, <2>1, <2>2
<1> QED  BY <1>2, <1>3 DEF y

\* PL is a function of the five words, whatever it is applied to.
LEMMA PLDomain == ASSUME NEW s PROVE PL(s) = [i \in Words |-> PL(s)[i]]
<1> DEFINE word(i) ==
      CASE i = 0 -> Sigma(s[0], 19, 28) [] i = 1 -> Sigma(s[1], 61, 39)
        [] i = 2 -> Sigma(s[2], 1, 6)   [] i = 3 -> Sigma(s[3], 10, 17)
        [] i = 4 -> Sigma(s[4], 7, 41)
<1>1. PL(s) = [i \in Words |-> word(i)]
  BY DEF PL
<1> HIDE DEF word
<1> QED  BY <1>1

\* The linear layer, and the same bit by bit.
LEMMA PLIs ==
    ASSUME NEW s \in State
    PROVE  /\ PL(s) \in State
           /\ \A i \in Words : PL(s)[i] = Sigma(s[i], Rot[i + 1][1], Rot[i + 1][2])
           /\ \A i \in Words : Rot[i + 1][1] \in 0..63 /\ Rot[i + 1][2] \in 0..63
<1>1. \A i \in Words : Rot[i + 1][1] \in 0..63 /\ Rot[i + 1][2] \in 0..63
  BY DEF Words, Rot
<1>2. \A i \in Words : PL(s)[i] = Sigma(s[i], Rot[i + 1][1], Rot[i + 1][2])
  BY DEF PL, Words, Rot
<1>3. \A i \in Words : s[i] \in SUBSET Bits
  BY DEF State
<1>4. ASSUME NEW i \in Words PROVE PL(s)[i] \in SUBSET Bits
  <2> DEFINE r1 == Rot[i + 1][1]  r2 == Rot[i + 1][2]
  <2>1. r1 \in 0..63 /\ r2 \in 0..63
    BY <1>1
  <2>2. PL(s)[i] = Sigma(s[i], r1, r2)
    BY <1>2
  <2> HIDE DEF r1, r2
  <2>3. s[i] \in SUBSET Bits
    BY <1>3
  <2>4. \A x \in SUBSET Bits : Sigma(x, r1, r2) \in SUBSET Bits
    BY <2>1, SigmaIn
  <2> QED  BY <2>2, <2>3, <2>4
<1>5. PL(s) = [i \in Words |-> PL(s)[i]]
  BY PLDomain
<1> QED  BY <1>1, <1>2, <1>4, <1>5 DEF State

LEMMA RtlPLIs ==
    ASSUME NEW v \in Vec
    PROVE  /\ RtlPL(v) \in Vec
           /\ FromVector(RtlPL(v)) = PL(FromVector(v))
           /\ \A i \in Words, j \in Bits : 64 * i + j \in RtlPL(v) <=> LinBit(v, i, j)
<1> DEFINE s == FromVector(v)
<1>1. s \in State /\ PL(s) \in State
  BY Unpack, PLIs
<1>2. ASSUME NEW i \in Words
      PROVE  PL(s)[i] = Sigma(Slice(v, i), Rot[i + 1][1], Rot[i + 1][2])
  <2>1. s[i] = Slice(v, i)
    BY DEF FromVector, Slice
  <2> HIDE DEF s
  <2> QED  BY <1>1, <2>1, PLIs
<1>3. PL(s) = [i \in Words |-> PL(s)[i]]
  BY PLDomain
<1>4. RtlPL(v) = Concat([i \in Words |-> Sigma(Slice(v, i), Rot[i + 1][1], Rot[i + 1][2])])
  <2> DEFINE rot == [i \in Words |-> Rot[i + 1]]
  <2>1. RtlPL(v) = Concat([i \in Words |-> Sigma(Slice(v, i), rot[i][1], rot[i][2])])
    BY DEF RtlPL, Rot
  <2>2. \A i \in Words : rot[i] = Rot[i + 1]
    OBVIOUS
  <2> QED  BY <2>1, <2>2
<1>5. RtlPL(v) = ToVector(PL(s))
  BY <1>2, <1>3, <1>4 DEF Concat, ToVector
<1>6. ASSUME NEW i \in Words, NEW j \in Bits
      PROVE  64 * i + j \in RtlPL(v) <=> LinBit(v, i, j)
  <2> DEFINE r1 == Rot[i + 1][1]  r2 == Rot[i + 1][2]  x == s[i]
  <2>1. r1 \in 0..63 /\ r2 \in 0..63 /\ x \in SUBSET Bits
    BY <1>1, PLIs DEF State
  <2>2. 64 * i + j \in RtlPL(v) <=> j \in Sigma(x, r1, r2)
    BY <1>1, <1>5, Pack, PLIs
  <2>3. LinBit(v, i, j) <=> ((IF 64 * i + (j % 64) \in v THEN 1 ELSE 0)
                              + (IF 64 * i + ((j + r1) % 64) \in v THEN 1 ELSE 0)
                              + (IF 64 * i + ((j + r2) % 64) \in v THEN 1 ELSE 0)) % 2 = 1
    BY DEF LinBit
  <2> HIDE DEF r1, r2
  <2>4. j % 64 = j /\ (j + r1) % 64 \in Bits /\ (j + r2) % 64 \in Bits
    BY <2>1 DEF Bits
  <2>5. \A k \in Bits : k \in x <=> 64 * i + k \in v
    BY DEF FromVector
  <2> HIDE DEF x
  <2>6. LinBit(v, i, j) <=> ((IF j \in x THEN 1 ELSE 0)
                              + (IF (j + r1) % 64 \in x THEN 1 ELSE 0)
                              + (IF (j + r2) % 64 \in x THEN 1 ELSE 0)) % 2 = 1
    BY <2>3, <2>4, <2>5
  <2>7. j \in Sigma(x, r1, r2) <=>
          ((j \in x <=> (j + r1) % 64 \notin x) <=> (j + r2) % 64 \notin x)
    BY <2>1, SigmaIn
  <2> HIDE DEF s
  <2> QED  BY <2>2, <2>6, <2>7
<1> QED  BY <1>1, <1>5, <1>6, Pack

\* The constant's eight bits are in the middle word.
LEMMA RtlPCIs ==
    ASSUME NEW v \in Vec, NEW rounds, NEW i, NEW c, RoundConstantIndex(rounds, i) = c
    PROVE  RtlPC(v, c) \in Vec /\ FromVector(RtlPC(v, c)) = PC(FromVector(v), rounds, i)
<1> DEFINE k == BitsOf(ROUND_CONSTANTS[c + 1], 8)
<1>1. k \subseteq Bits
  BY DEF BitsOf, Bits
<1>2. RtlPC(v, c) = v (+) {128 + b : b \in k}
  BY DEF RtlPC
<1> DEFINE u == FromVector(v)  p == PC(u, rounds, i)
<1>3. p = [u EXCEPT ![2] = @ (+) k]
  BY DEF PC
<1>a. u = [w \in Words |-> u[w]] /\ \A w \in Words : u[w] \subseteq Bits
  BY DEF FromVector
<1>b. \A w \in Words, j \in Bits : 64 * w + j \in v <=> j \in u[w]
  BY DEF FromVector
<1> HIDE DEF k, u, p
<1>4. 2 \in Words /\ 64 * 2 = 128
  BY DEF Words
<1>5. {128 + b : b \in k} \in Vec
  BY <1>1, <1>4, BitPlaces DEF Vec
<1>6. RtlPC(v, c) \in Vec
  BY <1>2, <1>5 DEF Vec, (+)
<1>7. \A w \in Words : p[w] = IF w = 2 THEN u[2] (+) k ELSE u[w]
  BY <1>3, <1>4, <1>a
<1>8. ASSUME NEW w \in Words, NEW j \in Bits
      PROVE  64 * w + j \in RtlPC(v, c) <=> j \in p[w]
  <2>1. 64 * w + j \in {128 + b : b \in k} <=> w = 2 /\ j \in k
    BY <1>1, <1>4, BitPlaces
  <2>2. \A A, B, x : x \in A (+) B <=> (x \in A <=> x \notin B)
    BY DEF (+)
  <2> QED  BY <1>2, <1>7, <1>b, <2>1, <2>2
<1>9. \A w \in Words : p[w] \subseteq Bits
  BY <1>1, <1>7, <1>a DEF (+)
<1>10. p = [w \in Words |-> p[w]]
  BY <1>3, <1>a
<1>11. \A w \in Words : {j \in Bits : 64 * w + j \in RtlPC(v, c)} = p[w]
  BY <1>8, <1>9
<1>12. FromVector(RtlPC(v, c)) = p
  BY <1>10, <1>11 DEF FromVector
<1> QED  BY <1>6, <1>12 DEF p, u

\* A round of the hardware is a round of the golden model.
LEMMA RtlRoundIs ==
    ASSUME NEW v \in Vec, NEW rounds, NEW i, NEW c, RoundConstantIndex(rounds, i) = c
    PROVE  /\ RtlRound(v, c) \in Vec
           /\ FromVector(RtlRound(v, c)) = AsconRound(FromVector(v), rounds, i)
<1>1. RtlPC(v, c) \in Vec /\ FromVector(RtlPC(v, c)) = PC(FromVector(v), rounds, i)
  BY RtlPCIs
<1>2. /\ RtlPS(RtlPC(v, c)) \in Vec
      /\ FromVector(RtlPS(RtlPC(v, c))) = PSBitsliced(PC(FromVector(v), rounds, i))
  BY <1>1, RtlPSIs
<1> QED  BY <1>2, RtlPLIs DEF RtlRound, AsconRound

LEMMA RtlPCType == ASSUME NEW v \in Vec, NEW c PROVE RtlPC(v, c) \in Vec
<1> DEFINE k == BitsOf(ROUND_CONSTANTS[c + 1], 8)
<1>1. k \subseteq Bits /\ 2 \in Words /\ 64 * 2 = 128
  BY DEF BitsOf, Bits, Words
<1>2. RtlPC(v, c) = v (+) {128 + b : b \in k}
  BY DEF RtlPC
<1> HIDE DEF k
<1>3. {128 + b : b \in k} \in Vec
  BY <1>1, BitPlaces DEF Vec
<1> QED  BY <1>2, <1>3 DEF Vec, (+)

LEMMA RtlRoundType == ASSUME NEW v \in Vec, NEW c PROVE RtlRound(v, c) \in Vec
BY RtlPCType, RtlPSIs, RtlPLIs DEF RtlRound

-----------------------------------------------------------------------------
(* The path of a request: the states between its rounds.                   *)

\* The constant a request starts with.
FirstConst(code) == 16 - RoundsOf(code)

\* The states between the rounds of a request, by the next constant's index: the
\* function that RtlPerm defines.
Between(v, code, g) ==
    [i \in FirstConst(code)..16 |-> IF i = FirstConst(code) THEN v ELSE RtlRound(g[i - 1], i - 1)]

Along(v, code) == CHOOSE g : g = Between(v, code, g)

LEMMA RoundCodes ==
    ASSUME NEW code \in 0..2
    PROVE  /\ FirstConst(code) \in {4, 8, 10} /\ FirstConst(code) = StartIndex(code)
           /\ RoundsOf(code) = 16 - FirstConst(code)
BY DEF FirstConst, RoundsOf, StartIndex

LEMMA AlongIs ==
    ASSUME NEW v \in Vec, NEW code \in 0..2
    PROVE  /\ \A k \in FirstConst(code)..16 : Along(v, code)[k] \in Vec
           /\ Along(v, code)[FirstConst(code)] = v
           /\ \A k \in FirstConst(code)..15 : Along(v, code)[k + 1] = RtlRound(Along(v, code)[k], k)
           /\ RtlPerm(v, code) = Along(v, code)[16]
<1> DEFINE first == FirstConst(code)  n == RoundsOf(code)
           step == [k \in 1..n |-> [x \in Vec |-> RtlRound(x, first + (k - 1))]]
<1>1. first \in {4, 8, 10} /\ n = 16 - first /\ n \in Nat
  BY RoundCodes
<1>2. \A x \in Vec : \A c : RtlRound(x, c) \in Vec
  BY RtlRoundType
<1> HIDE DEF first, n
<1>3. step \in [1..n -> [Vec -> Vec]]
  BY <1>2
<1>4. PICK f : f \in [0..n -> Vec] /\ f[0] = v /\ \A k \in 1..n : f[k] = step[k][f[k - 1]]
  <2> HIDE DEF step
  <2>1. \E f : Iterates(f, Vec, v, n, step)
    BY <1>1, <1>3, Iteration
  <2> QED  BY <2>1 DEF Iterates
<1>5. \A k \in 1..n : f[k] = RtlRound(f[k - 1], first + (k - 1))
  <2> TAKE k \in 1..n
  <2>1. k - 1 \in 0..n
    BY <1>1
  <2> QED  BY <1>4, <2>1
<1> DEFINE g == [i \in first..16 |-> f[i - first]]
           body(h) == [i \in first..16 |-> IF i = first THEN v ELSE RtlRound(h[i - 1], i - 1)]
<1>6. g = body(g)
  <2>1. ASSUME NEW i \in first..16, i # first PROVE g[i] = RtlRound(g[i - 1], i - 1)
    <3>1. i - first \in 1..n /\ i - 1 \in first..16 /\ first + ((i - first) - 1) = i - 1
      BY <1>1, <2>1
    <3>2. f[i - first] = RtlRound(f[(i - first) - 1], i - 1)
      BY <1>5, <3>1
    <3>3. (i - first) - 1 = (i - 1) - first
      BY <1>1
    <3> QED  BY <3>1, <3>2, <3>3
  <2>2. g[first] = v
    BY <1>1, <1>4
  <2> QED  BY <2>1, <2>2
<1> DEFINE t == CHOOSE h : h = body(h)
<1>7. t = body(t)
  <2> HIDE DEF body
  <2> QED  BY <1>6
<1>8. Along(v, code) = t /\ RtlPerm(v, code) = t[16]
  BY DEF Along, Between, RtlPerm, FirstConst, first
<1> HIDE DEF t
<1>9. t[first] = v /\ \A k \in first..15 : t[k + 1] = RtlRound(t[k], k)
  BY <1>1, <1>7
<1>10. \A k \in 0..n : k \in {j \in 0..n : t[first + j] \in Vec}
  <2> DEFINE Holds == {k \in 0..n : t[first + k] \in Vec}
  <2>1. 0 \in Holds
    BY <1>1, <1>9
  <2>2. \A k \in 0..(n - 1) : k \in Holds => k + 1 \in Holds
    <3> TAKE k \in 0..(n - 1)
    <3>1. first + k \in first..15 /\ first + (k + 1) = (first + k) + 1
      BY <1>1
    <3> QED  BY <1>1, <1>2, <1>9, <3>1
  <2> HIDE DEF Holds
  <2> QED  BY <1>1, <2>1, <2>2, BoundedInduction DEF Holds
<1>11. ASSUME NEW k \in first..16 PROVE t[k] \in Vec
  <2>1. k - first \in 0..n /\ first + (k - first) = k
    BY <1>1
  <2> QED  BY <1>10, <2>1
<1> QED  BY <1>8, <1>9, <1>11 DEF first

LEMMA RtlSboxAtType == \A v \in Vec, j \in Bits : RtlSboxAt(v, j) \in Vec
BY RtlSboxAtIs

\* R rounds in a cycle take as many steps along as there are left.
LEMMA RRoundsIs ==
    ASSUME NEW v \in Vec, NEW code \in 0..2, NEW R \in Nat, NEW i \in FirstConst(code)..15
    PROVE  RRounds(Along(v, code)[i], i, R) = Along(v, code)[IF i + R < 16 THEN i + R ELSE 16]
<1> DEFINE a == Along(v, code)
           at(k) == a[IF i + k < 16 THEN i + k ELSE 16]
           body(g) == [k \in 0..R |->
                         IF k = 0 THEN a[i]
                         ELSE IF i + (k - 1) < DONE THEN RtlRound(g[k - 1], i + (k - 1)) ELSE g[k - 1]]
           t == CHOOSE g : g = body(g)
           h == [k \in 0..R |-> at(k)]
<1>1. RRounds(a[i], i, R) = t[R]
  BY DEF RRounds
<1>2. FirstConst(code) \in Nat /\ \A k \in FirstConst(code)..15 : a[k + 1] = RtlRound(a[k], k)
  BY RoundCodes, AlongIs
<1> HIDE DEF a
<1>3. ASSUME NEW k \in 0..R, k # 0
      PROVE  at(k) = IF i + (k - 1) < DONE THEN RtlRound(at(k - 1), i + (k - 1)) ELSE at(k - 1)
  <2>1. CASE i + (k - 1) < 16
    <3>1. i + (k - 1) \in FirstConst(code)..15 /\ i + k = (i + (k - 1)) + 1
      BY <1>2, <1>3, <2>1
    <3>2. at(k) = a[i + k] /\ at(k - 1) = a[i + (k - 1)]
      BY <1>3, <2>1
    <3> QED  BY <1>2, <2>1, <3>1, <3>2 DEF DONE
  <2>2. CASE ~(i + (k - 1) < 16)
    BY <1>2, <1>3, <2>2 DEF DONE
  <2> QED  BY <2>1, <2>2
<1>4. at(0) = a[i]
  BY <1>2
<1> HIDE DEF at
<1>5. h = body(h)
  BY <1>3, <1>4
<1>6. t = body(t)
  <2> HIDE DEF body, h
  <2> QED  BY <1>5
<1> HIDE DEF t
<1>7. t[0] = a[i] /\ \A k \in 0..R : k # 0 =>
         t[k] = IF i + (k - 1) < DONE THEN RtlRound(t[k - 1], i + (k - 1)) ELSE t[k - 1]
  BY <1>6
<1>8. \A k \in 0..R : k \in {j \in 0..R : t[j] = at(j)}
  <2> DEFINE Holds == {k \in 0..R : t[k] = at(k)}
  <2>1. 0 \in Holds
    BY <1>4, <1>7
  <2>2. ASSUME NEW k \in 0..(R - 1), k \in Holds PROVE k + 1 \in Holds
    <3>1. k + 1 \in 0..R /\ k + 1 # 0 /\ (k + 1) - 1 = k
      OBVIOUS
    <3> QED  BY <1>3, <1>7, <2>2, <3>1
  <2> HIDE DEF Holds
  <2> QED  BY <2>1, <2>2, BoundedInduction DEF Holds
<1>9. t[R] = at(R)
  BY <1>8
<1> QED  BY <1>1, <1>9 DEF at, a

\* The first m columns of u substituted, the others not yet.
Substituted(w, u, m) ==
    /\ w \in Vec
    /\ \A i \in Words, j \in Bits :
          64 * i + j \in w <=> IF j < m THEN 64 * i + j \in RtlPS(u) ELSE 64 * i + j \in u

\* From the first column to the last.
LEMMA SubstitutedNone == ASSUME NEW u \in Vec PROVE Substituted(u, u, 0)
BY DEF Substituted, Bits

LEMMA SubstitutedAll ==
    ASSUME NEW u \in Vec, NEW w, Substituted(w, u, 64)
    PROVE  w = RtlPS(u)
<1>1. \A j \in Bits : j < 64
  BY DEF Bits
<1> QED  BY <1>1, SameBits, RtlPSIs DEF Substituted

LEMMA SubstitutedNext ==
    ASSUME NEW u \in Vec, NEW w, NEW m \in Bits, Substituted(w, u, m)
    PROVE  Substituted(RtlSboxAt(w, m), u, m + 1)
<1>1. w \in Vec
  BY DEF Substituted
<1>5. RtlSboxAt(w, m) \in Vec
  BY <1>1, RtlSboxAtType
<1>2. ASSUME NEW i \in Words PROVE 64 * i + m \in w <=> 64 * i + m \in u
  <2>1. ~(m < m)
    BY DEF Bits
  <2> QED  BY <2>1 DEF Substituted
<1>3. RtlColumn(w, m) = RtlColumn(u, m)
  BY <1>2 DEF RtlColumn, Words
<1>4. ASSUME NEW i \in Words, NEW j \in Bits
      PROVE  64 * i + j \in RtlSboxAt(w, m) <=>
                IF j < m + 1 THEN 64 * i + j \in RtlPS(u) ELSE 64 * i + j \in u
  <2>1. CASE j = m
    <3>1. 64 * i + j \in RtlSboxAt(w, m) <=> OutBit(SBOX[RtlColumn(w, m) + 1], i)
      BY <1>1, <2>1, RtlSboxAtIs
    <3>2. 64 * i + j \in RtlPS(u) <=> OutBit(SBOX[RtlColumn(u, m) + 1], i)
      BY <2>1, RtlPSIs
    <3>3. j < m + 1
      BY <2>1 DEF Bits
    <3> QED  BY <1>3, <3>1, <3>2, <3>3
  <2>2. CASE j # m
    <3>1. j < m + 1 <=> j < m
      BY <2>2 DEF Bits
    <3>2. 64 * i + j \in RtlSboxAt(w, m) <=> 64 * i + j \in w
      BY <1>1, <2>2, RtlSboxAtIs
    <3> QED  BY <3>1, <3>2 DEF Substituted
  <2> QED  BY <2>1, <2>2
<1> QED  BY <1>4, <1>5 DEF Substituted

\* K columns in a cycle, fewer at the end.
LEMMA SboxChunkIs ==
    ASSUME NEW u \in Vec, NEW w, NEW base \in Bits, NEW K \in Nat, Substituted(w, u, base)
    PROVE  Substituted(SboxChunk(w, base, K), u, IF base + K < 64 THEN base + K ELSE 64)
<1> DEFINE step == [m \in 1..K |-> [x \in Vec |->
                      IF base + (m - 1) < 64 THEN RtlSboxAt(x, base + (m - 1)) ELSE x]]
           body(g) == [m \in 0..K |->
                         IF m = 0 THEN w
                         ELSE IF base + (m - 1) < 64 THEN RtlSboxAt(g[m - 1], base + (m - 1))
                              ELSE g[m - 1]]
           o == CHOOSE g : g = body(g)
           upto(m) == IF base + m < 64 THEN base + m ELSE 64
<1>1. SboxChunk(w, base, K) = o[K]
  BY DEF SboxChunk
<1>2. w \in Vec
  BY DEF Substituted
<1>3. \A m \in 1..K : base + (m - 1) < 64 => base + (m - 1) \in Bits
  BY DEF Bits
<1>4. step \in [1..K -> [Vec -> Vec]]
  <2>1. \A m \in 1..K, x \in Vec :
           (IF base + (m - 1) < 64 THEN RtlSboxAt(x, base + (m - 1)) ELSE x) \in Vec
    BY <1>3, RtlSboxAtType
  <2> QED  BY <2>1
<1>5. PICK f : f \in [0..K -> Vec] /\ f[0] = w /\ \A m \in 1..K : f[m] = step[m][f[m - 1]]
  <2> HIDE DEF step
  <2>1. \E f : Iterates(f, Vec, w, K, step)
    BY <1>2, <1>4, Iteration
  <2> QED  BY <2>1 DEF Iterates
<1>6. \A m \in 1..K : f[m] = IF base + (m - 1) < 64 THEN RtlSboxAt(f[m - 1], base + (m - 1))
                             ELSE f[m - 1]
  <2> TAKE m \in 1..K
  <2>1. m - 1 \in 0..K
    OBVIOUS
  <2> QED  BY <1>5, <2>1
<1>7. f = body(f)
  BY <1>5, <1>6
<1>8. o = body(o)
  <2> HIDE DEF body
  <2> QED  BY <1>7
<1> HIDE DEF o
<1>9. o[0] = w /\ \A m \in 0..K : m # 0 =>
         o[m] = IF base + (m - 1) < 64 THEN RtlSboxAt(o[m - 1], base + (m - 1)) ELSE o[m - 1]
  BY <1>8
<1>10. \A m \in 0..K : m \in {j \in 0..K : Substituted(o[j], u, upto(j))}
  <2> DEFINE Holds == {m \in 0..K : Substituted(o[m], u, upto(m))}
  <2>1. 0 \in Holds
    BY <1>9 DEF Bits
  <2>2. ASSUME NEW m \in 0..(K - 1), m \in Holds PROVE m + 1 \in Holds
    <3>1. m + 1 \in 0..K /\ m + 1 # 0 /\ (m + 1) - 1 = m
      OBVIOUS
    <3>2. CASE base + m < 64
      <4>1. base + m \in Bits /\ upto(m) = base + m /\ upto(m + 1) = (base + m) + 1
        BY <3>2 DEF Bits
      <4>2. o[m + 1] = RtlSboxAt(o[m], base + m)
        BY <1>9, <3>1, <3>2
      <4>3. Substituted(o[m], u, base + m)
        BY <2>2, <4>1
      <4> QED  BY <3>1, <4>1, <4>2, <4>3, SubstitutedNext
    <3>3. CASE ~(base + m < 64)
      <4>1. upto(m) = 64 /\ upto(m + 1) = 64
        BY <3>3 DEF Bits
      <4>2. o[m + 1] = o[m]
        BY <1>9, <3>1, <3>3
      <4> QED  BY <2>2, <3>1, <4>1, <4>2
    <3> QED  BY <3>2, <3>3
  <2> HIDE DEF Holds
  <2> QED  BY <2>1, <2>2, BoundedInduction DEF Holds
<1>11. Substituted(o[K], u, upto(K))
  BY <1>10
<1> QED  BY <1>1, <1>11

\* The hardware's functions compute the golden permutation.
LEMMA GoldenIs ==
    ASSUME NEW v \in Vec, NEW code \in 0..2
    PROVE  GoldenPerm(v, code) = Along(v, code)[16]
<1> DEFINE a == Along(v, code)  n == RoundsOf(code)  s == FromVector(v)  first == FirstConst(code)
           body(g) == [i \in 0..n |-> IF i = 0 THEN s ELSE AsconRound(g[i - 1], n, i - 1)]
           after == CHOOSE g : g = body(g)
           h == [i \in 0..n |-> FromVector(a[first + i])]
<1>1. GoldenPerm(v, code) = ToVector(after[n])
  BY DEF GoldenPerm, AsconPermutation
<1>2. n \in Nat /\ first \in Nat /\ first + n = 16
  BY RoundCodes
<1>3. /\ \A k \in first..16 : a[k] \in Vec
      /\ a[first] = v /\ \A k \in first..15 : a[k + 1] = RtlRound(a[k], k)
  BY AlongIs
<1>4. \A i \in 0..n : RoundConstantIndex(n, i) = first + i
  BY <1>2 DEF RoundConstantIndex
<1> HIDE DEF a, n, first
<1>5. ASSUME NEW i \in 0..n, i # 0 PROVE h[i] = AsconRound(h[i - 1], n, i - 1)
  <2>1. /\ first + (i - 1) \in first..15 /\ first + (i - 1) \in first..16
        /\ first + i = (first + (i - 1)) + 1 /\ i - 1 \in 0..n
    BY <1>2, <1>5
  <2>2. a[first + i] = RtlRound(a[first + (i - 1)], first + (i - 1))
    BY <1>3, <2>1
  <2>3. /\ a[first + (i - 1)] \in Vec
        /\ RoundConstantIndex(n, i - 1) = first + (i - 1)
    BY <1>3, <1>4, <2>1
  <2>4. FromVector(RtlRound(a[first + (i - 1)], first + (i - 1)))
          = AsconRound(FromVector(a[first + (i - 1)]), n, i - 1)
    BY <2>3, RtlRoundIs
  <2> QED  BY <2>1, <2>2, <2>4
<1>6. h[0] = s
  BY <1>2, <1>3
<1>7. h = body(h)
  BY <1>5, <1>6
<1>8. after = body(after)
  <2> HIDE DEF body, h
  <2> QED  BY <1>7
<1> HIDE DEF after, h
<1>9. after[0] = s /\ \A i \in 0..n : i # 0 => after[i] = AsconRound(after[i - 1], n, i - 1)
  BY <1>2, <1>8
<1>10. \A i \in 0..n : i \in {j \in 0..n : after[j] = h[j]}
  <2> DEFINE Holds == {i \in 0..n : after[i] = h[i]}
  <2>1. 0 \in Holds
    BY <1>2, <1>6, <1>9
  <2>2. ASSUME NEW i \in 0..(n - 1), i \in Holds PROVE i + 1 \in Holds
    <3>1. i + 1 \in 0..n /\ i + 1 # 0 /\ (i + 1) - 1 = i
      BY <1>2
    <3> QED  BY <1>5, <1>9, <2>2, <3>1
  <2> HIDE DEF Holds
  <2> QED  BY <1>2, <2>1, <2>2, BoundedInduction DEF Holds
<1>11. after[n] = FromVector(a[16])
  BY <1>2, <1>10 DEF h
<1>12. a[16] \in Vec
  BY <1>2, <1>3
<1> QED  BY <1>1, <1>11, <1>12, Unpack DEF a

\* The emitted functions ascon_p6, ascon_p8 and ascon_p12, which the testbenches
\* compare with, are the golden model's permutation of every 320-bit vector.
THEOREM EmittedPermIsGolden ==
    \A v \in Vec, code \in 0..2 : RtlPerm(v, code) = GoldenPerm(v, code)
BY AlongIs, GoldenIs

-----------------------------------------------------------------------------
(* Where each core is on the path of its request.                          *)

\* The path of the present request.
Path  == Along(bin, bcode)
Mixed == RtlPC(Path[fidx], fidx)     \* what this round's substitutions start from

\* The state of the cores that take whole rounds is on the path.
IterPlace ==
    /\ fst \in {"IDLE", "RUN"}
    /\ fst = "RUN" => fidx \in FirstConst(bcode)..15 /\ fs = Path[fidx]

UcodePlace ==
    /\ fst \in {"IDLE", "RUN"}
    /\ fst = "RUN" => fidx + 4 \in FirstConst(bcode)..15 /\ fs = Path[fidx + 4]

\* The serial cores are on it when a round begins, and in a round where their
\* column counter says.
SerialPlace ==
    /\ fst \in {"IDLE", "PC", "SBOX", "LIN", "LSWAP"}
    /\ fst # "IDLE" => fidx \in FirstConst(bcode)..15
    /\ fst = "PC"   => fs = Path[fidx]
    /\ fst = "SBOX" => fcol \in Bits /\ Substituted(fs, Mixed, fcol)
    /\ fst = "LIN"  => fs = RtlPS(Mixed)

\* The first m bits of each word of t are those of the linear layer of v.
Mixes(t, v, m) ==
    \A i \in Words, j \in Bits : j < m => (64 * i + j \in t <=> 64 * i + j \in RtlPL(v))

\* The bit-serial core also has a half-finished linear layer.
BitPlace ==
    /\ fst = "LIN" => fcol \in Bits /\ Mixes(ft, fs, fcol)
    /\ fst = "LSWAP" => ft = RtlPL(RtlPS(Mixed))

CoreTypes ==
    /\ design \in PermDesigns /\ bin \in Vec /\ bcode \in 0..2
    /\ fs \in Vec /\ ft \in Vec /\ fout \in Vec
    /\ fidx \in 0..DONE /\ fcol \in 0..64

Place ==
    /\ design[1] = "iter"   => IterPlace
    /\ design[1] = "colser" => SerialPlace /\ fst # "LSWAP"
    /\ design[1] = "bitser" => SerialPlace /\ BitPlace
    /\ design[1] = "ucode"  => UcodePlace

\* What is shown is the end of the path.
Shown == fvalid => fst = "IDLE" /\ fout = Path[16]

CoreGolden == CoreTypes /\ Place /\ Shown

\* A start brings the request it is for; without one the request stays.
Taken(start, code, in) ==
    /\ bin' \in Vec /\ bcode' \in 0..2 /\ design' = design
    /\ start => in = bin' /\ code = bcode'
    /\ (bin' = bin /\ bcode' = bcode) \/ (start /\ fst = "IDLE")

\* The path, with the index a request starts at.
LEMMA PathIs ==
    ASSUME NEW v \in Vec, NEW code \in 0..2
    PROVE  /\ FirstConst(code) \in 4..10 /\ FirstConst(code) = StartIndex(code)
           /\ Along(v, code)[FirstConst(code)] = v
           /\ \A k \in FirstConst(code)..16 : Along(v, code)[k] \in Vec
           /\ \A k \in FirstConst(code)..15 : Along(v, code)[k + 1] = RtlRound(Along(v, code)[k], k)
BY RoundCodes, AlongIs

\* Every edge of every core leaves it on the path of its request.
LEMMA IterGolden ==
    ASSUME CoreGolden, design[1] = "iter", NEW start \in BOOLEAN, NEW code, NEW in,
           Taken(start, code, in), IterEdge(start, code, in)
    PROVE  CoreGolden'
<1> DEFINE R == design[2]
<1>1. R \in 1..12 /\ R \in Nat
  BY PermAssumption DEF CoreGolden, CoreTypes
<1>2. design' = design /\ bin' \in Vec /\ bcode' \in 0..2
  BY DEF Taken
<1>3. CASE IterStart(start, code, in)
  <2>1. /\ fs' = bin' /\ fidx' = StartIndex(bcode') /\ fst' = "RUN"
        /\ fvalid' = FALSE /\ fout' = fout /\ ft' = ft /\ fcol' = fcol
    BY <1>3 DEF IterStart, Taken, Quiet
  <2>2. fidx' \in FirstConst(bcode')..15 /\ fs' = Path'[fidx'] /\ fidx' \in 0..16
    BY <1>2, <2>1, PathIs DEF Path
  <2> QED  BY <1>2, <2>1, <2>2 DEF CoreGolden, CoreTypes, Place, IterPlace, Shown, DONE
<1>4. CASE IterRun(start, R)
  <2>1. ~start /\ fst = "RUN" /\ bin' = bin /\ bcode' = bcode
    BY <1>4 DEF IterRun, Taken
  <2>2. Path' = Path /\ fidx \in FirstConst(bcode)..15 /\ fs = Path[fidx] /\ FirstConst(bcode) \in 4..10
    BY <2>1, PathIs DEF CoreGolden, CoreTypes, Place, IterPlace, Path
  <2>3. RRounds(fs, fidx, R) = Path[IF fidx + R < 16 THEN fidx + R ELSE 16]
    BY <1>1, <2>2, RRoundsIs DEF CoreGolden, CoreTypes, Path
  <2>4. \A k \in FirstConst(bcode)..16 : Path[k] \in Vec
    BY PathIs DEF CoreGolden, CoreTypes, Path
  <2>5. /\ fs' = RRounds(fs, fidx, R) /\ ft' = ft /\ fcol' = fcol
        /\ IF fidx + R >= 16
           THEN fout' = RRounds(fs, fidx, R) /\ fvalid' = TRUE /\ fst' = "IDLE" /\ fidx' = fidx
           ELSE fidx' = fidx + R /\ fvalid' = FALSE /\ fout' = fout /\ fst' = fst
    BY <1>4 DEF IterRun, Show, Quiet, DONE
  <2>6. CASE fidx + R >= 16
    <3>1. fs' = Path[16] /\ fout' = Path[16] /\ Path[16] \in Vec
      BY <1>1, <2>2, <2>3, <2>4, <2>5, <2>6
    <3> QED  BY <1>2, <2>1, <2>2, <2>5, <2>6, <3>1
             DEF CoreGolden, CoreTypes, Place, IterPlace, Shown, DONE
  <2>7. CASE ~(fidx + R >= 16)
    <3>1. fidx + R \in FirstConst(bcode)..15 /\ fidx + R \in 0..16 /\ fs' = Path[fidx + R]
      BY <1>1, <2>2, <2>3, <2>5, <2>7
    <3>2. fs' \in Vec
      BY <2>2, <2>4, <3>1
    <3> QED  BY <1>2, <2>1, <2>2, <2>5, <2>7, <3>1, <3>2
             DEF CoreGolden, CoreTypes, Place, IterPlace, Shown, DONE
  <2> QED  BY <2>6, <2>7
<1>5. CASE ~start /\ fst = "IDLE" /\ Quiet /\ UNCHANGED <<fst, fs, ft, fidx, fcol>>
  BY <1>2, <1>5 DEF CoreGolden, CoreTypes, Place, IterPlace, Shown, Quiet
<1> QED  BY <1>3, <1>4, <1>5 DEF IterEdge

LEMMA UcodeGolden ==
    ASSUME CoreGolden, design[1] = "ucode", NEW start \in BOOLEAN, NEW code, NEW in,
           Taken(start, code, in), UcodeEdge(start, code, in)
    PROVE  CoreGolden'
<1>1. design' = design /\ bin' \in Vec /\ bcode' \in 0..2
  BY DEF Taken
<1>2. CASE UcodeIdle(start, code, in) /\ start
  <2>1. EntryPc(bcode') + 4 = StartIndex(bcode') /\ EntryPc(bcode') \in 0..11
    BY <1>1 DEF EntryPc, StartIndex
  <2>2. /\ fs' = bin' /\ fidx' = EntryPc(bcode') /\ fst' = "RUN"
        /\ fvalid' = FALSE /\ fout' = fout /\ ft' = ft /\ fcol' = fcol
    BY <1>2, <2>1 DEF UcodeIdle, Taken, Quiet
  <2>3. fidx' + 4 \in FirstConst(bcode')..15 /\ fs' = Path'[fidx' + 4]
    BY <1>1, <2>1, <2>2, PathIs DEF Path
  <2> QED  BY <1>1, <2>1, <2>2, <2>3 DEF CoreGolden, CoreTypes, Place, UcodePlace, Shown, DONE
<1>3. CASE UcodeIdle(start, code, in) /\ ~start
  BY <1>1, <1>3 DEF UcodeIdle, CoreGolden, CoreTypes, Place, UcodePlace, Shown, Quiet
<1>4. CASE UcodeRun
  <2>1. fst = "RUN" /\ bin' = bin /\ bcode' = bcode
    BY <1>4 DEF UcodeRun, Taken
  <2>2. /\ Path' = Path /\ fidx + 4 \in FirstConst(bcode)..15 /\ fs = Path[fidx + 4]
        /\ FirstConst(bcode) \in 4..10 /\ fidx \in 0..16
    BY <2>1, PathIs DEF CoreGolden, CoreTypes, Place, UcodePlace, Path, DONE
  <2>3. RtlRound(fs, fidx + 4) = Path[(fidx + 4) + 1] /\ Path[(fidx + 4) + 1] \in Vec
    <3>1. (fidx + 4) + 1 \in FirstConst(bcode)..16
      BY <2>2
    <3> QED  BY <2>2, <3>1, PathIs DEF CoreGolden, CoreTypes, Path
  <2>4. /\ fs' = RtlRound(fs, fidx + 4) /\ ft' = ft /\ fcol' = fcol
        /\ IF fidx = 11
           THEN fout' = RtlRound(fs, fidx + 4) /\ fvalid' = TRUE /\ fst' = "IDLE" /\ fidx' = fidx
           ELSE fidx' = fidx + 1 /\ fvalid' = FALSE /\ fout' = fout /\ fst' = fst
    BY <1>4 DEF UcodeRun, UcodeConst, UcodeHalt, Show, Quiet
  <2>5. CASE fidx = 11
    <3>1. (fidx + 4) + 1 = 16
      BY <2>5
    <3>2. fs' = Path[16] /\ fout' = Path[16] /\ Path[16] \in Vec
      BY <2>3, <2>4, <2>5, <3>1
    <3> QED  BY <1>1, <2>1, <2>2, <2>4, <2>5, <3>2
             DEF CoreGolden, CoreTypes, Place, UcodePlace, Shown, DONE
  <2>6. CASE fidx # 11
    <3>1. /\ fidx' + 4 = (fidx + 4) + 1 /\ fidx' + 4 \in FirstConst(bcode)..15 /\ fidx' \in 0..16
      BY <2>2, <2>4, <2>6
    <3> QED  BY <1>1, <2>1, <2>2, <2>3, <2>4, <2>6, <3>1
             DEF CoreGolden, CoreTypes, Place, UcodePlace, Shown, DONE
  <2> QED  BY <2>5, <2>6
<1> QED  BY <1>2, <1>3, <1>4 DEF UcodeEdge

\* What a round is: the constant, the substitution, the linear layer.
LEMMA RoundFacts ==
    ASSUME CoreTypes, fidx \in FirstConst(bcode)..15
    PROVE  /\ Path[fidx] \in Vec /\ Mixed \in Vec /\ RtlPS(Mixed) \in Vec
           /\ RtlPL(RtlPS(Mixed)) = Path[fidx + 1] /\ Path[fidx + 1] \in Vec
<1>1. FirstConst(bcode) \in 4..10 /\ fidx \in FirstConst(bcode)..16 /\ fidx + 1 \in FirstConst(bcode)..16
  BY PathIs DEF CoreTypes
<1>2. Path[fidx] \in Vec /\ Path[fidx + 1] \in Vec /\ Path[fidx + 1] = RtlRound(Path[fidx], fidx)
  BY <1>1, PathIs DEF CoreTypes, Path
<1>3. Mixed \in Vec
  BY <1>2, RtlPCType DEF Mixed
<1> QED  BY <1>2, <1>3, RtlPSIs DEF RtlRound, Mixed

\* A state that both serial cores have: waiting, or the round constant.
LEMMA SerialStart ==
    ASSUME CoreTypes, Shown, SerialPlace, NEW start \in BOOLEAN, NEW code, NEW in,
           Taken(start, code, in), SerialIdle(start, code, in)
    PROVE  CoreTypes' /\ Shown' /\ SerialPlace' /\ fst' \in {"IDLE", "PC"}
<1>1. design' = design /\ bin' \in Vec /\ bcode' \in 0..2
  BY DEF Taken
<1>2. CASE start
  <2>1. StartIndex(bcode') = FirstConst(bcode') /\ FirstConst(bcode') \in 4..10
    BY <1>1, PathIs
  <2>2. /\ fs' = bin' /\ fidx' = FirstConst(bcode') /\ fst' = "PC" /\ fcol' = 0
        /\ fvalid' = FALSE /\ fout' = fout /\ ft' = ft
    BY <1>2, <2>1 DEF SerialIdle, Taken, Quiet, DONE
  <2>3. fidx' \in FirstConst(bcode')..15 /\ fs' = Path'[fidx'] /\ fidx' \in 0..16
    BY <1>1, <2>1, <2>2, PathIs DEF Path
  <2> QED  BY <1>1, <2>2, <2>3 DEF CoreTypes, SerialPlace, Shown, DONE
<1>3. CASE ~start
  BY <1>1, <1>3 DEF SerialIdle, CoreTypes, SerialPlace, Shown, Quiet
<1> QED  BY <1>2, <1>3

LEMMA SerialConstant ==
    ASSUME CoreTypes, Shown, SerialPlace, NEW start \in BOOLEAN, NEW code, NEW in,
           Taken(start, code, in), SerialPC
    PROVE  CoreTypes' /\ Shown' /\ SerialPlace' /\ fst' = "SBOX"
<1>1. fst = "PC" /\ bin' = bin /\ bcode' = bcode /\ design' = design
  BY DEF Taken, SerialPC
<1>2. fidx \in FirstConst(bcode)..15 /\ fs = Path[fidx] /\ fidx' = fidx /\ Path' = Path
  BY <1>1 DEF SerialPlace, SerialPC, Path
<1>3. Mixed \in Vec /\ fs' = Mixed /\ Mixed' = Mixed
  BY <1>1, <1>2, RoundFacts DEF SerialPC, Mixed, Path
<1>4. fcol' = 0 /\ fst' = "SBOX" /\ ft' = ft /\ fvalid' = FALSE /\ fout' = fout
  BY DEF SerialPC, Quiet
<1>5. Substituted(fs', Mixed', fcol')
  BY <1>3, <1>4, SubstitutedNone
<1> QED  BY <1>1, <1>2, <1>3, <1>4, <1>5 DEF CoreTypes, SerialPlace, Shown, Bits

\* The end of a round: `result' is the next state of the path.
LEMMA RoundIsDone ==
    ASSUME CoreTypes, fidx \in FirstConst(bcode)..15, bin' = bin, bcode' = bcode, design' = design,
           NEW result, result = Path[fidx + 1], RoundDone(result), fs' = result,
           ft' \in Vec, fcol' \in 0..64
    PROVE  CoreTypes' /\ Shown' /\ SerialPlace' /\ fst' \in {"IDLE", "PC"}
<1>1. Path[fidx + 1] \in Vec /\ Path' = Path /\ FirstConst(bcode) \in 4..10
  BY RoundFacts, PathIs DEF Path, CoreTypes
<1>2. CASE fidx + 1 >= DONE
  <2>1. fidx + 1 = 16
    BY <1>1, <1>2 DEF DONE
  <2>2. fout' = Path'[16] /\ fvalid' = TRUE /\ fst' = "IDLE" /\ fidx' = fidx
    BY <1>1, <1>2, <2>1 DEF RoundDone, Show
  <2> QED  BY <1>1, <2>1, <2>2 DEF CoreTypes, SerialPlace, Shown
<1>3. CASE ~(fidx + 1 >= DONE)
  <2>1. fidx + 1 \in FirstConst(bcode)..15 /\ fidx + 1 \in 0..DONE
    BY <1>1, <1>3 DEF DONE
  <2>2. fidx' = fidx + 1 /\ fst' = "PC" /\ fvalid' = FALSE /\ fout' = fout
    BY <1>3 DEF RoundDone, Quiet
  <2> QED  BY <1>1, <2>1, <2>2 DEF CoreTypes, SerialPlace, Shown
<1> QED  BY <1>2, <1>3

LEMMA ColumnGolden ==
    ASSUME CoreGolden, design[1] = "colser", NEW start \in BOOLEAN, NEW code, NEW in,
           Taken(start, code, in), ColumnEdge(start, code, in)
    PROVE  CoreGolden'
<1> DEFINE K == design[2]
<1>1. K \in Nat /\ K >= 1 /\ design' = design
  BY PermAssumption DEF CoreGolden, CoreTypes, Taken
<1>2. CoreTypes /\ Shown /\ SerialPlace /\ fst # "LSWAP"
  BY DEF CoreGolden, Place
<1>3. SUFFICES CoreTypes' /\ Shown' /\ SerialPlace' /\ fst' # "LSWAP"
  BY <1>1 DEF CoreGolden, Place
<1>4. CASE SerialIdle(start, code, in)
  BY <1>2, <1>4, SerialStart
<1>5. CASE SerialPC
  BY <1>2, <1>5, SerialConstant
<1>6. CASE ColSbox(K)
  <2>1. fst = "SBOX" /\ bin' = bin /\ bcode' = bcode /\ fidx' = fidx
    BY <1>6 DEF Taken, ColSbox
  <2>2. fidx \in FirstConst(bcode)..15 /\ fcol \in Bits /\ Substituted(fs, Mixed, fcol)
    BY <1>2, <2>1 DEF SerialPlace
  <2>3. Mixed \in Vec /\ Mixed' = Mixed /\ Path' = Path
    BY <1>2, <2>1, <2>2, RoundFacts DEF Mixed, Path
  <2>4. Substituted(SboxChunk(fs, fcol, K), Mixed, IF fcol + K < 64 THEN fcol + K ELSE 64)
    <3> DEFINE u == Mixed
    <3> HIDE DEF u, K
    <3>1. u \in Vec /\ Substituted(fs, u, fcol)
      BY <2>2, <2>3 DEF u
    <3>2. Substituted(SboxChunk(fs, fcol, K), u, IF fcol + K < 64 THEN fcol + K ELSE 64)
      BY <1>1, <2>2, <3>1, SboxChunkIs
    <3> QED  BY <3>2 DEF u
  <2>5. /\ fs' = SboxChunk(fs, fcol, K) /\ ft' = ft /\ fvalid' = FALSE /\ fout' = fout
        /\ IF fcol + K >= 64 THEN fst' = "LIN" /\ fcol' = fcol
           ELSE fcol' = fcol + K /\ fst' = fst
    BY <1>6 DEF ColSbox, Quiet
  <2>6. fs' \in Vec
    BY <2>4, <2>5 DEF Substituted
  <2>7. CASE fcol + K >= 64
    <3>1. fs' = RtlPS(Mixed')
      <4>1. Substituted(fs', Mixed, 64)
        BY <1>1, <2>2, <2>4, <2>5, <2>7 DEF Bits
      <4> QED  BY <2>3, <4>1, SubstitutedAll
    <3> QED  BY <1>1, <1>2, <2>1, <2>2, <2>5, <2>6, <2>7, <3>1 DEF CoreTypes, SerialPlace, Shown
  <2>8. CASE ~(fcol + K >= 64)
    <3>1. fcol + K < 64 /\ fcol + K \in Bits /\ fcol + K \in 0..64
      BY <1>1, <2>2, <2>8 DEF Bits
    <3>2. Substituted(fs', Mixed', fcol')
      BY <2>3, <2>4, <2>5, <2>8, <3>1
    <3> QED  BY <1>1, <1>2, <2>1, <2>2, <2>5, <2>6, <2>8, <3>1, <3>2
             DEF CoreTypes, SerialPlace, Shown
  <2> QED  BY <2>7, <2>8
<1>7. CASE ColLin
  <2>1. fst = "LIN" /\ bin' = bin /\ bcode' = bcode /\ ft' = ft /\ fcol' = fcol
    BY <1>7 DEF Taken, ColLin
  <2>2. fidx \in FirstConst(bcode)..15 /\ fs = RtlPS(Mixed)
    BY <1>2, <2>1 DEF SerialPlace
  <2>3. RtlPL(fs) = Path[fidx + 1]
    BY <1>2, <2>2, RoundFacts
  <2>4. fs' = RtlPL(fs) /\ RoundDone(RtlPL(fs))
    BY <1>7 DEF ColLin
  <2>5. ft' \in Vec /\ fcol' \in 0..64
    BY <1>2, <2>1 DEF CoreTypes
  <2>6. CoreTypes' /\ Shown' /\ SerialPlace' /\ fst' \in {"IDLE", "PC"}
    BY <1>1, <1>2, <2>1, <2>2, <2>3, <2>4, <2>5, RoundIsDone
  <2> QED  BY <2>6
<1> QED  BY <1>4, <1>5, <1>6, <1>7 DEF ColumnEdge

\* One bit of each word of the working register.
WithBit(v, t, m) ==
    (t \ {64 * i + m : i \in Words}) \cup {64 * i + m : i \in {i \in Words : LinBit(v, i, m)}}

LEMMA LinBits ==
    ASSUME NEW v \in Vec, NEW t \in Vec, NEW m \in Bits, Mixes(t, v, m)
    PROVE  WithBit(v, t, m) \in Vec /\ Mixes(WithBit(v, t, m), v, m + 1)
<1> DEFINE w == WithBit(v, t, m)
<1>1. \A i \in Words, j \in Bits : 64 * i + j \in RtlPL(v) <=> LinBit(v, i, j)
  BY RtlPLIs
<1>2. w \in Vec
  BY BitPlaces DEF Vec, WithBit
<1>3. ASSUME NEW i \in Words, NEW j \in Bits, j < m + 1
      PROVE  64 * i + j \in w <=> 64 * i + j \in RtlPL(v)
  <2>1. CASE j = m
    <3>1. 64 * i + m \in {64 * k + m : k \in {k \in Words : LinBit(v, k, m)}} <=> LinBit(v, i, m)
      BY BitPlaces
    <3>2. 64 * i + m \notin t \ {64 * k + m : k \in Words}
      OBVIOUS
    <3> QED  BY <1>1, <2>1, <3>1, <3>2 DEF WithBit
  <2>2. CASE j # m
    <3>1. 64 * i + j \notin {64 * k + m : k \in Words}
      BY <2>2, BitPlaces
    <3>2. 64 * i + j \notin {64 * k + m : k \in {k \in Words : LinBit(v, k, m)}}
      BY <3>1
    <3>3. j < m
      BY <1>3, <2>2 DEF Bits
    <3>4. 64 * i + j \in t <=> 64 * i + j \in RtlPL(v)
      BY <3>3 DEF Mixes
    <3> QED  BY <3>1, <3>2, <3>4 DEF WithBit
  <2> QED  BY <2>1, <2>2
<1> QED  BY <1>2, <1>3 DEF Mixes

LEMMA BitGolden ==
    ASSUME CoreGolden, design[1] = "bitser", NEW start \in BOOLEAN, NEW code, NEW in,
           Taken(start, code, in), BitEdge(start, code, in)
    PROVE  CoreGolden'
<1>1. design' = design
  BY DEF Taken
<1>2. CoreTypes /\ Shown /\ SerialPlace /\ BitPlace
  BY DEF CoreGolden, Place
<1>3. SUFFICES CoreTypes' /\ Shown' /\ SerialPlace' /\ BitPlace'
  BY <1>1 DEF CoreGolden, Place
<1>4. CASE SerialIdle(start, code, in)
  BY <1>2, <1>4, SerialStart DEF BitPlace
<1>5. CASE SerialPC
  BY <1>2, <1>5, SerialConstant DEF BitPlace
<1>6. CASE BitSbox
  <2>1. fst = "SBOX" /\ bin' = bin /\ bcode' = bcode /\ fidx' = fidx
    BY <1>6 DEF Taken, BitSbox
  <2>2. fidx \in FirstConst(bcode)..15 /\ fcol \in Bits /\ Substituted(fs, Mixed, fcol)
    BY <1>2, <2>1 DEF SerialPlace
  <2>3. Mixed \in Vec /\ Mixed' = Mixed /\ Path' = Path
    BY <1>2, <2>1, <2>2, RoundFacts DEF Mixed, Path
  <2>4. Substituted(RtlSboxAt(fs, fcol), Mixed, fcol + 1)
    BY <2>2, <2>3, SubstitutedNext
  <2>5. /\ fs' = RtlSboxAt(fs, fcol) /\ ft' = ft /\ fvalid' = FALSE /\ fout' = fout
        /\ IF fcol = 63 THEN fcol' = 0 /\ fst' = "LIN" ELSE fcol' = fcol + 1 /\ fst' = fst
    BY <1>6 DEF BitSbox, Count64, Quiet
  <2>6. fs' \in Vec
    BY <2>4, <2>5 DEF Substituted
  <2>7. CASE fcol = 63
    <3>1. fs' = RtlPS(Mixed')
      <4>1. Substituted(fs', Mixed, 64)
        BY <2>4, <2>5, <2>7
      <4> QED  BY <2>3, <4>1, SubstitutedAll
    <3>2. fcol' = 0 /\ fcol' \in Bits /\ Mixes(ft', fs', fcol')
      BY <2>5, <2>7 DEF Bits, Mixes
    <3> QED  BY <1>1, <1>2, <2>1, <2>2, <2>5, <2>6, <2>7, <3>1, <3>2
             DEF CoreTypes, SerialPlace, BitPlace, Shown
  <2>8. CASE fcol # 63
    <3>1. fcol + 1 \in Bits /\ fcol + 1 \in 0..64
      BY <2>2, <2>8 DEF Bits
    <3>2. Substituted(fs', Mixed', fcol')
      BY <2>3, <2>4, <2>5, <2>8
    <3> QED  BY <1>1, <1>2, <2>1, <2>2, <2>5, <2>6, <2>8, <3>1, <3>2
             DEF CoreTypes, SerialPlace, BitPlace, Shown
  <2> QED  BY <2>7, <2>8
<1>7. CASE BitLin
  <2>1. fst = "LIN" /\ bin' = bin /\ bcode' = bcode /\ fidx' = fidx /\ fs' = fs
    BY <1>7 DEF Taken, BitLin
  <2>2. fidx \in FirstConst(bcode)..15 /\ fcol \in Bits /\ fs = RtlPS(Mixed)
    BY <1>2, <2>1 DEF SerialPlace, BitPlace
  <2>3. Mixed' = Mixed /\ Path' = Path /\ fs \in Vec
    BY <1>2, <2>1, <2>2, RoundFacts DEF Mixed, Path, CoreTypes
  <2>4. ft' \in Vec /\ Mixes(ft', fs, fcol + 1)
    <3>1. ft' = WithBit(fs, ft, fcol)
      BY <1>7 DEF BitLin, WithBit
    <3>2. ft \in Vec /\ Mixes(ft, fs, fcol)
      BY <1>2, <2>1 DEF CoreTypes, BitPlace
    <3> QED  BY <2>2, <2>3, <3>1, <3>2, LinBits
  <2>5. /\ fvalid' = FALSE /\ fout' = fout
        /\ IF fcol = 63 THEN fcol' = 0 /\ fst' = "LSWAP" ELSE fcol' = fcol + 1 /\ fst' = fst
    BY <1>7 DEF BitLin, Count64, Quiet
  <2>6. CASE fcol = 63
    <3>1. \A j \in Bits : j < fcol + 1
      BY <2>6 DEF Bits
    <3>2. ft' = RtlPL(fs)
      BY <2>3, <2>4, <3>1, SameBits, RtlPLIs DEF Mixes
    <3>3. ft' = RtlPL(RtlPS(Mixed'))
      BY <2>2, <2>3, <3>2
    <3> QED  BY <1>1, <1>2, <2>1, <2>2, <2>3, <2>4, <2>5, <2>6, <3>3
             DEF CoreTypes, SerialPlace, BitPlace, Shown
  <2>7. CASE fcol # 63
    <3>1. fcol' = fcol + 1 /\ fcol' \in Bits /\ fcol' \in 0..64
      BY <2>2, <2>5, <2>7 DEF Bits
    <3>2. Mixes(ft', fs', fcol')
      BY <2>1, <2>4, <3>1
    <3>3. fst' = "LIN"
      BY <2>1, <2>5, <2>7
    <3>4. BitPlace'
      BY <3>1, <3>2, <3>3 DEF BitPlace
    <3>5. SerialPlace'
      BY <2>1, <2>2, <2>3, <3>3 DEF SerialPlace
    <3> QED  BY <1>1, <1>2, <2>1, <2>3, <2>4, <2>5, <3>1, <3>4, <3>5 DEF CoreTypes, Shown
  <2> QED  BY <2>6, <2>7
<1>8. CASE BitSwap
  <2>1. fst = "LSWAP" /\ bin' = bin /\ bcode' = bcode /\ ft' = ft
    BY <1>8 DEF Taken, BitSwap
  <2>2. fidx \in FirstConst(bcode)..15 /\ ft = RtlPL(RtlPS(Mixed))
    BY <1>2, <2>1 DEF SerialPlace, BitPlace
  <2>3. ft = Path[fidx + 1]
    BY <1>2, <2>2, RoundFacts
  <2>4. fs' = ft /\ RoundDone(ft)
    BY <1>8 DEF BitSwap
  <2>5. ft' \in Vec /\ fcol' \in 0..64
    BY <1>2, <1>8, <2>1 DEF CoreTypes, BitSwap
  <2>6. CoreTypes' /\ Shown' /\ SerialPlace' /\ fst' \in {"IDLE", "PC"}
    BY <1>1, <1>2, <2>1, <2>2, <2>3, <2>4, <2>5, RoundIsDone
  <2> QED  BY <2>6 DEF BitPlace
<1> QED  BY <1>4, <1>5, <1>6, <1>7, <1>8 DEF BitEdge

LEMMA EdgeGolden ==
    ASSUME CoreGolden, NEW start \in BOOLEAN, NEW code, NEW in,
           Taken(start, code, in), CoreEdge(start, code, in)
    PROVE  CoreGolden'
BY IterGolden, ColumnGolden, BitGolden, UcodeGolden DEF CoreEdge

-----------------------------------------------------------------------------
(* The cores with their testbench, and the smoke top.                      *)

\* The testbench or the smoke top with its core: what was asked is known to the
\* golden model, an idle testbench finds an idle core, nothing was found wrong.
ResultInv ==
    /\ CoreGolden
    /\ bin \in PermVectors \cup {{}, Ones} /\ fvalid \in BOOLEAN /\ sstart \in BOOLEAN
    /\ bphase \in {"present", "wait", "end", "smoke"}
    /\ btrial \in 0..PermTrials /\ (bphase = "wait" => btrial < PermTrials) /\ berr = 0
    /\ bphase \in {"present", "end"} => fst = "IDLE" /\ ~fvalid
    /\ bphase = "smoke" => bin = SmokeInput /\ bcode = 2
    /\ sdone => smatch

\* Every vector that is asked is a vector.
LEMMA Vectors ==
    /\ PermVectors \cup {{}, Ones} \subseteq Vec
    /\ \A t : TrialVectors(t) \subseteq PermVectors \cup {{}, Ones}
BY PermAssumption DEF Vec, Ones, TrialVectors

\* Both sides of the testbench's comparison are where the path ends.
LEMMA Answers ==
    ASSUME NEW v \in PermVectors \cup {{}, Ones}, NEW c \in 0..2
    PROVE  /\ <<v, c>> \in PermRequests
           /\ Golden[<<v, c>>] = Along(v, c)[16] /\ Reference[<<v, c>>] = Along(v, c)[16]
<1>1. v \in Vec
  BY Vectors
<1>2. GoldenPerm(v, c) = Along(v, c)[16]
  BY <1>1, GoldenIs
<1>3. RtlPerm(v, c) = Along(v, c)[16]
  BY <1>1, AlongIs
<1>4. <<v, c>> \in PermRequests
  BY DEF PermRequests
<1> QED  BY <1>2, <1>3, <1>4 DEF Golden, Reference

\* The core's signals in one edge: an answer ends the work, and only a start
\* begins it.
Handshakes(start) ==
    /\ fvalid' \in BOOLEAN
    /\ fvalid' => fst # "IDLE" /\ fst' = "IDLE"
    /\ ~fvalid' => \/ fst = "IDLE" /\ (start <=> fst' # "IDLE")
                   \/ fst # "IDLE" /\ fst' # "IDLE"

LEMMA EdgeHandshakes ==
    ASSUME CoreGolden, NEW start \in BOOLEAN, NEW code \in 0..2, NEW in, CoreEdge(start, code, in)
    PROVE  Handshakes(start)
<1>1. ~(EntryPc(code) >= 12) /\ ~(StartIndex(code) >= DONE)
  BY DEF EntryPc, StartIndex, DONE
<1>2. CASE design[1] = "iter" /\ IterEdge(start, code, in)
  <2>1. fst \in {"IDLE", "RUN"}
    BY <1>2 DEF CoreGolden, Place, IterPlace
  <2>2. CASE IterStart(start, code, in)
    BY <2>1, <2>2 DEF IterStart, Quiet, Handshakes
  <2>3. CASE IterRun(start, design[2])
    BY <2>3 DEF IterRun, Show, Quiet, Handshakes
  <2> QED  BY <1>2, <2>2, <2>3 DEF IterEdge, Quiet, Handshakes
<1>3. CASE design[1] = "ucode" /\ UcodeEdge(start, code, in)
  <2>1. CASE UcodeIdle(start, code, in)
    <3>1. /\ fst = "IDLE" /\ fvalid' = FALSE
          /\ fst' = IF start THEN "RUN" ELSE "IDLE"
      BY <1>1, <2>1 DEF UcodeIdle, Quiet
    <3> QED  BY <3>1 DEF Handshakes
  <2>2. CASE UcodeRun
    BY <2>2 DEF UcodeRun, Show, Quiet, Handshakes
  <2> QED  BY <1>3, <2>1, <2>2 DEF UcodeEdge
<1>4. ASSUME SerialIdle(start, code, in) PROVE Handshakes(start)
  <2>1. fst = "IDLE" /\ fvalid' = FALSE /\ fst' = IF start THEN "PC" ELSE "IDLE"
    BY <1>1, <1>4 DEF SerialIdle, Quiet
  <2> QED  BY <2>1 DEF Handshakes
<1>5. CASE design[1] = "colser" /\ ColumnEdge(start, code, in)
  BY <1>4, <1>5 DEF ColumnEdge, SerialPC, ColSbox, ColLin, RoundDone, Show, Quiet, Handshakes
<1>6. CASE design[1] = "bitser" /\ BitEdge(start, code, in)
  BY <1>4, <1>6 DEF BitEdge, SerialPC, BitSbox, BitLin, BitSwap, Count64, RoundDone, Show, Quiet,
                    Handshakes
<1> QED  BY <1>2, <1>3, <1>5, <1>6 DEF CoreEdge

LEMMA ResultInit == ASSUME PermInit PROVE ResultInv
<1>1. /\ design \in PermDesigns /\ fst = "IDLE" /\ fs = {} /\ ft = {} /\ fcol = 0
      /\ fvalid = FALSE /\ fout = {} /\ fidx \in 0..DONE
      /\ bin = {} /\ bcode = 2 /\ btrial = 0 /\ berr = 0
      /\ bphase \in {"present", "smoke"} /\ sstart = FALSE /\ sdone = FALSE
  BY DEF PermInit, FsmInit, DONE
<1>2. {} \in Vec /\ 0 \in 0..PermTrials
  BY PermAssumption DEF Vec, PermTrials
<1>3. CoreTypes
  BY <1>1, <1>2 DEF CoreTypes
<1>4. Place /\ Shown
  BY <1>1 DEF Place, IterPlace, SerialPlace, BitPlace, UcodePlace, Shown
<1> QED  BY <1>1, <1>2, <1>3, <1>4 DEF ResultInv, CoreGolden, SmokeInput

LEMMA ResultStep ==
    ASSUME ResultInv, [PermNext]_permVars
    PROVE  ResultInv'
<1>0. PermTrials \in Nat /\ PermTrials' = PermTrials
  BY PermAssumption DEF PermTrials
<1>1. ASSUME NEW v \in TrialVectors(btrial), Present(v) PROVE ResultInv'
  <2> DEFINE c == btrial % 3
  <2>1. c \in 0..2 /\ v \in Vec /\ v \in PermVectors \cup {{}, Ones}
    BY Vectors DEF ResultInv
  <2>2. CoreEdge(TRUE, c, v) /\ bin' = v /\ bcode' = c /\ design' = design
    BY <1>1 DEF Present
  <2>3. fst = "IDLE"
    BY <1>1 DEF Present, ResultInv
  <2> HIDE DEF c
  <2>4. CoreGolden'
    BY <2>1, <2>2, <2>3, EdgeGolden DEF Taken, ResultInv
  <2>5. fvalid' \in BOOLEAN
    BY <2>1, <2>2, EdgeHandshakes DEF ResultInv, Handshakes
  <2>6. /\ bphase' = "wait" /\ btrial' = btrial /\ berr' = berr /\ sstart' = sstart
        /\ sdone' = sdone /\ smatch' = smatch /\ btrial < PermTrials
    BY <1>1 DEF Present, sregs
  <2> QED  BY <1>0, <2>1, <2>2, <2>4, <2>5, <2>6 DEF ResultInv
<1>2. ASSUME CoreEdge(FALSE, bcode, bin), bin' = bin, bcode' = bcode, design' = design
      PROVE  CoreGolden' /\ Handshakes(FALSE)
  <2>1. Taken(FALSE, bcode, bin)
    BY <1>2 DEF Taken, ResultInv, CoreGolden, CoreTypes
  <2>2. bcode \in 0..2
    BY DEF ResultInv, CoreGolden, CoreTypes
  <2> QED  BY <1>2, <2>1, <2>2, EdgeGolden, EdgeHandshakes DEF ResultInv
<1>3. CASE Wait
  <2>1. CoreGolden' /\ fvalid' \in BOOLEAN
    BY <1>2, <1>3 DEF Wait, Handshakes
  <2> QED  BY <1>0, <1>3, <2>1 DEF Wait, sregs, ResultInv
<1>4. CASE Check
  <2>1. bphase = "wait" /\ fvalid /\ fst = "IDLE" /\ fout = Path[16]
    BY <1>4 DEF Check, ResultInv, CoreGolden, Shown
  <2>2. CoreGolden' /\ Handshakes(FALSE)
    BY <1>2, <1>4 DEF Check
  <2>3. fst' = "IDLE" /\ fvalid' = FALSE
    BY <2>1, <2>2 DEF Handshakes
  <2>4. fout = Reference[<<bin, bcode>>]
    BY <2>1, Answers DEF ResultInv, CoreGolden, CoreTypes, Path
  <2>5. berr' = berr /\ btrial' = btrial + 1 /\ bphase' = "present"
    BY <1>4, <2>4 DEF Check
  <2>6. btrial + 1 \in 0..PermTrials
    BY <1>0, <2>1 DEF ResultInv
  <2> QED  BY <1>0, <1>4, <2>2, <2>3, <2>5, <2>6 DEF Check, sregs, ResultInv
<1>5. CASE UNCHANGED <<design, fregs, bin, bcode, btrial, berr, sstart, sdone, smatch>>
           /\ (bphase' = bphase \/ (bphase = "present" /\ bphase' = "end"))
  <2>1. CoreGolden'
    BY <1>5 DEF fregs, ResultInv, CoreGolden, CoreTypes, Place, IterPlace, SerialPlace, BitPlace,
                UcodePlace, Shown, Path, Mixed
  <2> QED  BY <1>0, <1>5, <2>1 DEF fregs, ResultInv
<1>6. CASE PermFinish \/ SmokeReset \/ UNCHANGED permVars
  BY <1>5, <1>6 DEF PermFinish, SmokeReset, permVars, bregs, sregs
<1>7. CASE SmokeEdge
  <2>1. /\ bphase = "smoke" /\ bin = SmokeInput /\ bcode = 2
        /\ bin' = bin /\ bcode' = bcode /\ design' = design
        /\ bphase' = bphase /\ btrial' = btrial /\ berr' = berr
    BY <1>7 DEF SmokeEdge, bregs, ResultInv
  <2>2. CoreEdge(sstart, bcode, bin)
    BY <1>7, <2>1 DEF SmokeEdge
  <2>3. Taken(sstart, bcode, bin)
    BY <2>1 DEF Taken, ResultInv, CoreGolden, CoreTypes
  <2>4. CoreGolden'
    BY <2>2, <2>3, EdgeGolden DEF ResultInv
  <2>5. fvalid' \in BOOLEAN
    BY <2>1, <2>2, EdgeHandshakes DEF ResultInv, Handshakes
  <2>6. fvalid => fout = Golden[<<SmokeInput, 2>>]
    BY <2>1, Answers DEF ResultInv, CoreGolden, CoreTypes, Shown, Path
  <2>7. sstart' \in BOOLEAN /\ (sdone' => smatch')
    BY <1>7, <2>6 DEF SmokeEdge, ResultInv
  <2> QED  BY <1>0, <2>1, <2>4, <2>5, <2>7 DEF ResultInv
<1> QED  BY <1>1, <1>3, <1>4, <1>6, <1>7 DEF PermNext

LEMMA ResultsFollow ==
    ASSUME ResultInv
    PROVE  PermTypeOK /\ PermResultIsGolden
<1>1. fvalid => fout = Golden[<<bin, bcode>>]
  BY Answers DEF ResultInv, CoreGolden, CoreTypes, Shown, Path
<1>2. fst \in {"IDLE", "RUN", "PC", "SBOX", "LIN", "LSWAP"}
  BY PermAssumption DEF ResultInv, CoreGolden, CoreTypes, Place, IterPlace, SerialPlace, UcodePlace
<1>3. PermTypeOK
  BY <1>2 DEF PermTypeOK, ResultInv, CoreGolden, CoreTypes, Vec
<1> QED  BY <1>1, <1>3 DEF PermResultIsGolden

-----------------------------------------------------------------------------
(* The contract: every step is one of its steps, or none.                  *)

LEMMA AbsInit == ASSUME PermInit PROVE PermAbs!Init
BY DEF PermInit, FsmInit, PermAbs!Init

\* What an edge of the core is in the contract.
LEMMA AbsEdge ==
    ASSUME CoreGolden, CoreGolden', NEW start \in BOOLEAN, NEW code, NEW in,
           Taken(start, code, in), Handshakes(start), fvalid \in BOOLEAN,
           bin' \in PermVectors \cup {{}, Ones}
    PROVE  [PermAbs!Next]_(PermAbs!vars)
<1> DEFINE asked == IF fst # "IDLE" THEN Asked ELSE NoAnswer
           shown  == IF fvalid THEN fout ELSE NoAnswer
<1>0. bcode' \in 0..2 /\ Asked' \in PermRequests
  BY Answers DEF Taken, Asked
<1>1. CASE fvalid'
  <2>1. fst # "IDLE" /\ fst' = "IDLE"
    BY <1>1 DEF Handshakes
  <2>2. Asked' = Asked
    BY <2>1 DEF Taken, Asked
  <2>3. fout' = Golden[Asked]
    <3>1. fout' = Along(bin', bcode')[16]
      BY <1>1 DEF CoreGolden, Shown, Path
    <3> QED  BY <1>0, <2>2, <3>1, Answers DEF Asked
  <2>4. asked = Asked /\ asked # NoAnswer
    BY <1>0, <2>1, <2>2, ContractAssumption
  <2>5. asked' = NoAnswer /\ shown' = Golden[asked]
    BY <1>1, <2>1, <2>3, <2>4
  <2> QED  BY <2>4, <2>5 DEF PermAbs!Next, PermAbs!Answer
<1>2. CASE ~fvalid' /\ fst = "IDLE" /\ fst' # "IDLE"
  <2>1. asked = NoAnswer /\ asked' = Asked' /\ shown' = NoAnswer
    BY <1>2
  <2>2. \E r \in PermRequests : PermAbs!Accept(r)
    BY <1>0, <2>1 DEF PermAbs!Accept
  <2> QED  BY <2>2 DEF PermAbs!Next
<1>3. CASE ~fvalid' /\ fst # "IDLE" /\ fst' # "IDLE"
  <2>1. Asked' = Asked /\ ~fvalid
    BY <1>3 DEF Taken, Asked, CoreGolden, Shown
  <2> QED  BY <1>3, <2>1 DEF PermAbs!vars
<1>4. CASE ~fvalid' /\ fst = "IDLE" /\ fst' = "IDLE"
  <2>1. asked = NoAnswer /\ asked' = NoAnswer /\ shown' = NoAnswer
    BY <1>4
  <2>2. CASE shown = NoAnswer
    BY <2>1, <2>2 DEF PermAbs!vars
  <2>3. CASE shown # NoAnswer
    BY <2>1, <2>3 DEF PermAbs!Next, PermAbs!Withdraw
  <2> QED  BY <2>2, <2>3
<1> QED  BY <1>1, <1>2, <1>3, <1>4 DEF Handshakes

LEMMA AbsStep ==
    ASSUME ResultInv, ResultInv', [PermNext]_permVars
    PROVE  [PermAbs!Next]_(PermAbs!vars)
<1>0. CoreGolden /\ CoreGolden' /\ fvalid \in BOOLEAN /\ bin' \in PermVectors \cup {{}, Ones}
      /\ bin' \in Vec /\ bcode' \in 0..2 /\ bcode \in 0..2
  BY Vectors DEF ResultInv, CoreGolden, CoreTypes
<1>1. ASSUME NEW v \in TrialVectors(btrial), Present(v) PROVE [PermAbs!Next]_(PermAbs!vars)
  <2> DEFINE c == btrial % 3
  <2>1. CoreEdge(TRUE, c, v) /\ bin' = v /\ bcode' = c /\ design' = design /\ fst = "IDLE"
    BY <1>1 DEF Present, ResultInv
  <2> HIDE DEF c
  <2>2. c \in 0..2 /\ Taken(TRUE, c, v)
    BY <1>0, <2>1 DEF Taken
  <2>3. Handshakes(TRUE)
    BY <1>0, <2>1, <2>2, EdgeHandshakes
  <2> QED  BY <1>0, <2>2, <2>3, AbsEdge
<1>2. ASSUME NEW start \in BOOLEAN, CoreEdge(start, bcode, bin), bin' = bin, bcode' = bcode,
             design' = design
      PROVE  [PermAbs!Next]_(PermAbs!vars)
  <2>1. Taken(start, bcode, bin)
    BY <1>0, <1>2 DEF Taken
  <2>2. Handshakes(start)
    BY <1>0, <1>2, EdgeHandshakes
  <2> QED  BY <1>0, <2>1, <2>2, AbsEdge
<1>3. CASE Wait \/ Check
  <2>1. CoreEdge(FALSE, bcode, bin) /\ bin' = bin /\ bcode' = bcode /\ design' = design
    BY <1>3 DEF Wait, Check
  <2> QED  BY <1>2, <2>1
<1>4. CASE SmokeEdge
  <2>1. /\ sstart \in BOOLEAN /\ bin = SmokeInput /\ bcode = 2
        /\ bin' = bin /\ bcode' = bcode /\ design' = design
    BY <1>4 DEF SmokeEdge, bregs, ResultInv
  <2>2. CoreEdge(sstart, bcode, bin)
    BY <1>4, <2>1 DEF SmokeEdge
  <2> QED  BY <1>2, <2>1, <2>2
<1>5. CASE PermFinish \/ SmokeReset \/ UNCHANGED permVars
  <2>1. UNCHANGED <<fst, fvalid, fout, bin, bcode>>
    BY <1>5 DEF PermFinish, SmokeReset, permVars, fregs, bregs
  <2> QED  BY <2>1 DEF PermAbs!vars, Asked
<1> QED  BY <1>1, <1>3, <1>4, <1>5 DEF PermNext

\* PermTypeOK, for every set of designs and vectors PermAssumption allows.
THEOREM PermTypeCorrect == PermSpec => []PermTypeOK
<1>1. PermInit => ResultInv
  BY ResultInit
<1>2. ResultInv /\ [PermNext]_permVars => ResultInv'
  BY ResultStep
<1>3. ResultInv => PermTypeOK
  BY ResultsFollow
<1> QED  BY <1>1, <1>2, <1>3, PTL DEF PermSpec

\* PermResultIsGolden: with valid_o every core shows, bit for bit, the golden p6,
\* p8 or p12 of the vector it was given, for every R and K and after any history,
\* although the serial cores replace the state while they read it.
THEOREM PermResultsGolden == PermSpec => []PermResultIsGolden
<1>1. PermInit => ResultInv
  BY ResultInit
<1>2. ResultInv /\ [PermNext]_permVars => ResultInv'
  BY ResultStep
<1>3. ResultInv => PermResultIsGolden
  BY ResultsFollow
<1> QED  BY <1>1, <1>2, <1>3, PTL DEF PermSpec

NothingWrong == berr = 0 /\ (sdone => smatch)

\* The testbench counts no mismatch and the board that is done lights the LED
\* that says its digest matched.
THEOREM PermBenchPasses == PermSpec => []NothingWrong
<1>1. PermInit => ResultInv
  BY ResultInit
<1>2. ResultInv /\ [PermNext]_permVars => ResultInv'
  BY ResultStep
<1>3. ResultInv => NothingWrong
  BY DEF ResultInv, NothingWrong
<1> QED  BY <1>1, <1>2, <1>3, PTL DEF PermSpec

\* The safety half of ImplementsPerm: every core starts where the contract does,
\* and each of its steps accepts a request, answers the one it works on with that
\* request's permuted state, withdraws an answer, or is none of the contract's.
THEOREM PermImplementsContract ==
    PermSpec => PermAbs!Init /\ [][PermAbs!Next]_(PermAbs!vars)
<1>1. PermInit => ResultInv /\ PermAbs!Init
  BY ResultInit, AbsInit
<1>2. ResultInv /\ [PermNext]_permVars => ResultInv'
  BY ResultStep
<1>3. ResultInv /\ ResultInv' /\ [PermNext]_permVars => [PermAbs!Next]_(PermAbs!vars)
  BY AbsStep
<1> QED  BY <1>1, <1>2, <1>3, PTL DEF PermSpec

-----------------------------------------------------------------------------
(* The driver.                                                             *)

\* Whatever the driver does, its testbenches make steps of their own or rest.
LEMMA BenchesStep ==
    ASSUME [VerifyNext]_allVars
    PROVE  [PermNext]_permVars /\ [PipeNext]_pipeVars /\ [HashNext]_hashVars
BY DEF VerifyNext, Driver, EmitOnly, ToolsMissing, VerifyStarts, FailsWithoutLine, Compiles,
       ReadsVerdict, PermSimulates, PipeSimulates, HashSimulates, Rests, allVars, benches

\* The testbenches that count their trials end after the last one.
CountInv ==
    /\ bphase = "end" => btrial = PermTrials
    /\ hphase = "end" => htrial = HashTrials

\* An exit code after a simulation is the verdict's, and there is none before.
DriverInv ==
    /\ vkind \in VerifyKinds
    /\ vkind = "board" => vphase = "flashed"
    /\ vphase \in {"main", "compile"} => ~SimEnded
    /\ ExitCodeCounts

VerifyInv == PipeInv /\ CountInv /\ DriverInv

LEMMA CountStep ==
    ASSUME CountInv, [PermNext]_permVars, [HashNext]_hashVars
    PROVE  CountInv'
<1>1. (bphase' = "end" => btrial' = PermTrials)
  BY DEF CountInv, PermNext, Present, Wait, Check, PermFinish, SmokeReset, SmokeEdge, permVars, bregs
<1>2. (hphase' = "end" => htrial' = HashTrials)
  BY DEF CountInv, HashNext, HashRun, HashStart, HashWait, HashCheck, HashFinish, hashVars
<1> QED  BY <1>1, <1>2 DEF CountInv, PermTrials

\* A testbench that has ended has presented what it counts.
LEMMA AllPresented ==
    ASSUME PipeInv, CountInv, vkind \in VerifyKinds, SimEnded, vkind # "board"
    PROVE  Trials = Presented
<1>1. CASE vkind = "perm"
  BY <1>1 DEF CountInv, SimEnded, Trials, Presented
<1>2. CASE vkind = "hash"
  BY <1>2 DEF CountInv, SimEnded, Trials, Presented
<1>3. CASE vkind = "pipe"
  <2>1. pend
    BY <1>3 DEF SimEnded
  <2>2. \A g \in Lanes : prd[g] = Len(pq[g])
    BY <2>1, AllChecked DEF EveryVectorChecked
  <2>3. prd \in [Lanes -> Nat]
    BY DEF PipeInv, PipeType
  <2> DEFINE len(g) == Len(pq[g])
  <2>4. \A g \in Lanes : prd[g] = len(g)
    BY <2>2
  <2> HIDE DEF len
  <2>5. prd = [g \in Lanes |-> len(g)]
    BY <2>3, <2>4
  <2>6. prd = [g \in Lanes |-> Len(pq[g])]
    BY <2>5 DEF len
  <2> QED  BY <1>3, <2>6 DEF Trials, Presented
<1> QED  BY <1>1, <1>2, <1>3, VerifyAssumption

\* The driver looks at a simulation's end only in ReadsVerdict.
LEMMA DriverStep ==
    ASSUME PipeInv, CountInv, DriverInv, [VerifyNext]_allVars
    PROVE  DriverInv'
<1>1. CASE EmitOnly \/ ToolsMissing \/ VerifyStarts \/ FailsWithoutLine \/ Compiles
  <2>1. /\ vphase \in {"main", "compile"} /\ vkind' = vkind /\ UNCHANGED benches
    BY <1>1 DEF EmitOnly, ToolsMissing, VerifyStarts, FailsWithoutLine, Compiles
  <2>2. ~SimEnded /\ SimEnded' = SimEnded
    BY <2>1 DEF DriverInv, SimEnded, benches, permVars, pipeVars, hashVars, bregs, sregs
  <2> QED  BY <2>1, <2>2 DEF DriverInv, ExitCodeCounts
<1>2. CASE ReadsVerdict
  <2>1. /\ vphase = "simulate" /\ SimEnded /\ vkind' = vkind /\ UNCHANGED benches
        /\ vresult' = [passed |-> Errors = 0, trials |-> IF Errors = 0 THEN Trials ELSE Errors]
        /\ vexit' = (IF vresult'.passed THEN 0 ELSE 1)
        /\ vphase' = "exited"
    BY <1>2 DEF ReadsVerdict
  <2>2. vkind # "board" /\ vkind \in VerifyKinds
    BY <2>1 DEF DriverInv
  <2>3. Presented' = Presented
    BY <2>1 DEF Presented, PermTrials, benches, pipeVars, Lanes
  <2>4. Errors = 0 => Trials = Presented
    BY <2>1, <2>2, AllPresented
  <2>5. vexit' = 0 <=> vresult'.passed
    BY <2>1
  <2>6. vresult'.passed => vresult'.trials = Presented'
    BY <2>1, <2>3, <2>4
  <2> QED  BY <2>1, <2>2, <2>5, <2>6 DEF DriverInv, ExitCodeCounts
<1>3. CASE PermSimulates \/ PipeSimulates \/ HashSimulates
  <2>1. vphase \in {"simulate", "flashed"} /\ UNCHANGED verifyVars
    BY <1>3 DEF PermSimulates, PipeSimulates, HashSimulates
  <2>2. vkind' = vkind /\ vphase' = vphase
    BY <2>1 DEF verifyVars
  <2>3. vphase' \notin {"main", "compile"} /\ vphase' # "exited"
    BY <2>1, <2>2
  <2>4. vkind' \in VerifyKinds /\ (vkind' = "board" => vphase' = "flashed")
    BY <2>2 DEF DriverInv
  <2>5. ExitCodeCounts'
    BY <2>3 DEF ExitCodeCounts
  <2> QED  BY <2>3, <2>4, <2>5 DEF DriverInv
<1>4. CASE UNCHANGED allVars
  <2>1. UNCHANGED verifyVars /\ UNCHANGED benches
    BY <1>4 DEF allVars, benches
  <2>2. vkind' = vkind /\ vphase' = vphase /\ vresult' = vresult /\ vexit' = vexit
    BY <2>1 DEF verifyVars
  <2>3. SimEnded' = SimEnded
    BY <2>1, <2>2 DEF SimEnded, benches, permVars, pipeVars, hashVars, bregs, sregs
  <2>4. Presented' = Presented
    BY <2>1, <2>2 DEF Presented, PermTrials, benches, pipeVars, Lanes
  <2>5. ExitCodeCounts'
    BY <2>2, <2>3, <2>4 DEF DriverInv, ExitCodeCounts
  <2> QED  BY <2>2, <2>3, <2>5 DEF DriverInv
<1> QED  BY <1>1, <1>2, <1>3, <1>4 DEF VerifyNext, Driver, Rests

LEMMA VerifyInvInit == ASSUME VerifyInit PROVE VerifyInv
<1>1. /\ PermInit /\ PipeInit /\ HashInit /\ vkind \in VerifyKinds
      /\ vphase = IF vkind = "board" THEN "flashed" ELSE "main"
  BY DEF VerifyInit
<1>2. bphase # "end" /\ ~sdone /\ ~pend /\ hphase # "end"
  BY <1>1 DEF PermInit, PipeInit, HashInit
<1>3. ~SimEnded
  BY <1>1, <1>2, VerifyAssumption DEF SimEnded
<1>4. PipeInv /\ CountInv
  BY <1>1, <1>2, PipeInvInit DEF CountInv
<1>5. DriverInv
  BY <1>1, <1>3 DEF DriverInv, ExitCodeCounts
<1> QED  BY <1>4, <1>5 DEF VerifyInv

LEMMA VerifyInvStep ==
    ASSUME VerifyInv, [VerifyNext]_allVars
    PROVE  VerifyInv'
<1>1. [PermNext]_permVars /\ [PipeNext]_pipeVars /\ [HashNext]_hashVars
  BY BenchesStep
<1>2. PipeInv'
  BY <1>1, PipeInvNext DEF VerifyInv
<1>3. CountInv'
  BY <1>1, CountStep DEF VerifyInv
<1>4. DriverInv'
  BY DriverStep DEF VerifyInv
<1> QED  BY <1>2, <1>3, <1>4 DEF VerifyInv

\* The pipelines' labels and the other cores' latencies, whatever the driver
\* does around the simulation, or with none.
THEOREM VerifiedDesigns ==
    VerifySpec => [](LabelsInStep /\ EveryVectorChecked /\ LatencyAsDocumented)
<1> DEFINE Inv == PipeInv /\ LatencyInv
<1>1. VerifyInit => Inv
  BY PipeInvInit, LatencyInit DEF VerifyInit
<1>2. Inv /\ [VerifyNext]_allVars => Inv'
  BY BenchesStep, PipeInvNext, LatencyStep
<1>3. Inv => LabelsInStep /\ EveryVectorChecked /\ LatencyAsDocumented
  BY LaneInStep, AllChecked DEF LabelsInStep, LatencyInv, LatencyAsDocumented, Answered, Asking
<1> HIDE DEF Inv
<1> QED  BY <1>1, <1>2, <1>3, PTL DEF VerifySpec

\* The digests of the hash cores inside the driver.
THEOREM VerifiedDigests == SqueezeFits => (VerifySpec => []DigestIsGolden)
<1> SUFFICES ASSUME SqueezeFits PROVE VerifySpec => []DigestIsGolden
  OBVIOUS
<1>1. VerifyInit => HashInv
  BY HashInvInit DEF VerifyInit
<1>2. HashInv /\ [VerifyNext]_allVars => HashInv'
  BY BenchesStep, HashInvStep
<1>3. HashInv => DigestIsGolden
  BY DEF HashInv, CoreInv, DigestIsGolden
<1> QED  BY <1>1, <1>2, <1>3, PTL DEF VerifySpec

\* ExitCodeCounts: an exit code that follows a simulation says what the verdict
\* says, and a PASS has as many trials as vectors were presented, although no
\* testbench looks at how many there were.
THEOREM ExitCodesCount == VerifySpec => []ExitCodeCounts
<1>1. VerifyInit => VerifyInv
  BY VerifyInvInit
<1>2. VerifyInv /\ [VerifyNext]_allVars => VerifyInv'
  BY VerifyInvStep
<1>3. VerifyInv => ExitCodeCounts
  BY DEF VerifyInv, DriverInv
<1> QED  BY <1>1, <1>2, <1>3, PTL DEF VerifySpec

-----------------------------------------------------------------------------
(* The driver with the results of its testbenches.                         *)

\* The bit-exact cores and their contract inside the driver.
THEOREM VerifiedResults ==
    VerifySpec => /\ [](PermResultIsGolden /\ NothingWrong)
                  /\ PermAbs!Init /\ [][PermAbs!Next]_(PermAbs!vars)
<1>1. VerifyInit => ResultInv /\ PermAbs!Init
  BY ResultInit, AbsInit DEF VerifyInit
<1>2. ResultInv /\ [VerifyNext]_allVars => ResultInv'
  BY BenchesStep, ResultStep
<1>3. ResultInv /\ ResultInv' /\ [VerifyNext]_allVars => [PermAbs!Next]_(PermAbs!vars)
  BY BenchesStep, AbsStep
<1>4. ResultInv => PermResultIsGolden /\ NothingWrong
  BY ResultsFollow DEF ResultInv, NothingWrong
<1> QED  BY <1>1, <1>2, <1>3, <1>4, PTL DEF VerifySpec

\* VerdictIsEarned: exit code 0 after a simulation means that every vector was
\* answered and compared, and a board is done only with the matching digest.
THEOREM VerdictsEarned == VerifySpec => []VerdictIsEarned
<1>1. VerifyInit => VerifyInv /\ ResultInv
  BY VerifyInvInit, ResultInit DEF VerifyInit
<1>2. VerifyInv /\ ResultInv /\ [VerifyNext]_allVars => VerifyInv' /\ ResultInv'
  BY VerifyInvStep, BenchesStep, ResultStep
<1>3. VerifyInv /\ ResultInv => VerdictIsEarned
  BY DEF VerifyInv, DriverInv, ResultInv, VerdictIsEarned
<1> QED  BY <1>1, <1>2, <1>3, PTL DEF VerifySpec

\* A sum over the lanes is a number.
LEMMA SumIsNat ==
    ASSUME NEW n \in Nat, NEW f \in [0..(n - 1) -> Nat]
    PROVE  SumOver(f) \in Nat
<1>1. Cardinality(DOMAIN f) = n
  <2>1. DOMAIN f = 0..(n - 1)
    OBVIOUS
  <2>2. Cardinality(0..(n - 1)) = IF 0 > n - 1 THEN 0 ELSE (n - 1) - 0 + 1
    BY FS_Interval
  <2> QED  BY <2>1, <2>2
<1> DEFINE body(g) == [m \in 0..n |-> IF m = 0 THEN 0 ELSE g[m - 1] + f[m - 1]]
           upTo    == CHOOSE g : g = body(g)
           step    == [m \in 1..n |-> [x \in Nat |-> x + f[m - 1]]]
<1>2. SumOver(f) = upTo[n]
  BY <1>1 DEF SumOver
<1>3. step \in [1..n -> [Nat -> Nat]]
  <2>1. \A m \in 1..n : f[m - 1] \in Nat
    <3> TAKE m \in 1..n
    <3>1. m - 1 \in 0..(n - 1)
      OBVIOUS
    <3> QED  BY <3>1
  <2>2. \A m \in 1..n, x \in Nat : x + f[m - 1] \in Nat
    BY <2>1
  <2> QED  BY <2>2
<1>4. PICK h : h \in [0..n -> Nat] /\ h[0] = 0 /\ \A m \in 1..n : h[m] = step[m][h[m - 1]]
  <2> HIDE DEF step
  <2>1. \E h : Iterates(h, Nat, 0, n, step)
    BY <1>3, Iteration
  <2> QED  BY <2>1 DEF Iterates
<1>5. \A m \in 1..n : h[m] = h[m - 1] + f[m - 1]
  <2> TAKE m \in 1..n
  <2>1. m - 1 \in 0..n /\ h[m - 1] \in Nat
    BY <1>4
  <2> QED  BY <1>4, <2>1
<1>6. h = body(h)
  BY <1>4, <1>5
<1>7. upTo = body(upTo)
  <2> HIDE DEF body
  <2> QED  BY <1>6
<1> HIDE DEF upTo
<1>8. upTo[0] = 0 /\ \A m \in 1..n : upTo[m] = upTo[m - 1] + f[m - 1]
  BY <1>7
<1>9. \A m \in 0..n : m \in {j \in 0..n : upTo[j] \in Nat}
  <2> DEFINE Holds == {m \in 0..n : upTo[m] \in Nat}
  <2>1. 0 \in Holds
    BY <1>8
  <2>2. ASSUME NEW m \in 0..(n - 1), m \in Holds PROVE m + 1 \in Holds
    <3>1. m + 1 \in 1..n /\ (m + 1) - 1 = m /\ f[m] \in Nat
      OBVIOUS
    <3>2. upTo[m + 1] = upTo[m] + f[m]
      BY <1>8, <3>1
    <3> QED  BY <2>2, <3>1, <3>2
  <2> HIDE DEF Holds
  <2> QED  BY <2>1, <2>2, BoundedInduction DEF Holds
<1> QED  BY <1>2, <1>9

\* What the driver reads is a number of trials.
DriverType ==
    /\ vkind \in VerifyKinds /\ vexit \in 0..3
    /\ vphase \in {"main", "compile", "simulate", "exited", "flashed"}
    /\ vresult \in [passed : BOOLEAN, trials : Nat]

LEMMA CountsAreNumbers ==
    ASSUME PipeInv, ResultInv, BenchInv, vkind \in VerifyKinds, vkind # "board"
    PROVE  Trials \in Nat /\ Errors = 0
<1>1. btrial \in Nat /\ berr = 0
  BY PermAssumption DEF ResultInv, PermTrials
<1>2. htrial \in Nat /\ herr = 0
  BY HashAssumption DEF BenchInv
<1>3. SumOver(prd) \in Nat /\ perr = 0
  <2>1. prd \in [Lanes -> Nat] /\ perr = 0 /\ pdesign.lanes \in Nat
    BY PipeAssumption DEF PipeInv, PipeType
  <2> DEFINE n == pdesign.lanes
  <2>2. prd \in [0..(n - 1) -> Nat] /\ n \in Nat
    BY <2>1 DEF Lanes
  <2> HIDE DEF n
  <2>3. SumOver(prd) \in Nat
    BY <2>2, SumIsNat
  <2> QED  BY <2>1, <2>3
<1> QED  BY <1>1, <1>2, <1>3, VerifyAssumption DEF Trials, Errors

\* The driver's own registers, its counts, and that only correct designs can be
\* found: an exit code after a simulation is 0.
Reported == vphase = "exited" /\ SimEnded => vexit = 0

SuiteInv == VerifyInv /\ ResultInv /\ BenchInv /\ DriverType /\ Reported

LEMMA SuiteInit == ASSUME VerifyInit PROVE SuiteInv
<1>1. DriverType /\ vphase # "exited"
  BY DEF VerifyInit, DriverType, NoResult
<1> QED  BY <1>1, VerifyInvInit, ResultInit, BenchInvInit DEF VerifyInit, SuiteInv, Reported

LEMMA SuiteStep ==
    ASSUME SqueezeFits, SuiteInv, [VerifyNext]_allVars
    PROVE  SuiteInv'
<1>1. VerifyInv' /\ ResultInv' /\ BenchInv'
  BY VerifyInvStep, BenchesStep, ResultStep, BenchInvStep DEF SuiteInv
<1>2. CASE EmitOnly \/ ToolsMissing \/ VerifyStarts \/ FailsWithoutLine \/ Compiles
  <2>1. /\ vphase \in {"main", "compile"} /\ vkind' = vkind /\ UNCHANGED benches
        /\ vphase' \in {"compile", "simulate", "exited"} /\ vexit' \in {vexit, 0, 1, 2}
        /\ vresult' \in {vresult, NoResult}
    BY <1>2 DEF EmitOnly, ToolsMissing, VerifyStarts, FailsWithoutLine, Compiles
  <2>2. ~SimEnded'
    BY <2>1 DEF SuiteInv, VerifyInv, DriverInv, SimEnded, benches, permVars, pipeVars, hashVars,
                bregs, sregs
  <2>3. DriverType'
    <3>1. DriverType /\ NoResult \in [passed : BOOLEAN, trials : Nat]
      BY DEF SuiteInv, NoResult
    <3>2. vexit' \in 0..3 /\ vresult' \in [passed : BOOLEAN, trials : Nat]
      BY <2>1, <3>1 DEF DriverType
    <3> QED  BY <2>1, <3>1, <3>2 DEF DriverType
  <2> QED  BY <1>1, <2>2, <2>3 DEF SuiteInv, Reported
<1>3. CASE ReadsVerdict
  <2>1. /\ vphase = "simulate" /\ vkind' = vkind /\ vphase' = "exited"
        /\ vresult' = [passed |-> Errors = 0, trials |-> IF Errors = 0 THEN Trials ELSE Errors]
        /\ vexit' = (IF vresult'.passed THEN 0 ELSE 1)
    BY <1>3 DEF ReadsVerdict
  <2>2. vkind # "board" /\ vkind \in VerifyKinds
    BY <2>1 DEF SuiteInv, VerifyInv, DriverInv
  <2>3. Trials \in Nat /\ Errors = 0
    BY <2>2, CountsAreNumbers DEF SuiteInv, VerifyInv
  <2>4. vresult' = [passed |-> TRUE, trials |-> Trials] /\ vexit' = 0
    BY <2>1, <2>3
  <2>5. DriverType'
    BY <2>1, <2>2, <2>3, <2>4 DEF DriverType
  <2> QED  BY <1>1, <2>4, <2>5 DEF SuiteInv, Reported
<1>4. CASE PermSimulates \/ PipeSimulates \/ HashSimulates
  <2>1. vphase # "exited" /\ UNCHANGED <<vkind, vphase, vresult, vexit>>
    BY <1>4 DEF PermSimulates, PipeSimulates, HashSimulates, verifyVars
  <2> QED  BY <1>1, <2>1 DEF SuiteInv, DriverType, Reported
<1>5. CASE UNCHANGED allVars
  <2>1. UNCHANGED <<vkind, vphase, vresult, vexit>> /\ UNCHANGED benches
    BY <1>5 DEF allVars, verifyVars, benches
  <2>2. SimEnded' = SimEnded
    BY <2>1 DEF SimEnded, benches, permVars, pipeVars, hashVars, bregs, sregs
  <2> QED  BY <1>1, <2>1, <2>2 DEF SuiteInv, DriverType, Reported
<1> QED  BY <1>2, <1>3, <1>4, <1>5 DEF VerifyNext, Driver, Rests

\* TypeOK of the driver with its testbenches, the trials it reads off a summed
\* count included.
THEOREM VerifyTypeCorrect == SqueezeFits => (VerifySpec => []TypeOK)
<1> SUFFICES ASSUME SqueezeFits PROVE VerifySpec => []TypeOK
  OBVIOUS
<1>1. VerifyInit => SuiteInv
  BY SuiteInit
<1>2. SuiteInv /\ [VerifyNext]_allVars => SuiteInv'
  BY SuiteStep
<1>3. SuiteInv => TypeOK
  <2>1. PipeInv => PipeTypeOK
    BY DEF PipeInv, PipeType, PipeTypeOK, Datum
  <2> QED  BY <2>1, ResultsFollow, BenchTypes DEF SuiteInv, VerifyInv, DriverType, TypeOK
<1> QED  BY <1>1, <1>2, <1>3, PTL DEF VerifySpec

\* No false alarm: a verification whose simulation ended exits with 0.  No
\* permutation, pipeline or hash design is reported as failing by its testbench.
THEOREM NoFalseAlarm == SqueezeFits => (VerifySpec => []Reported)
<1> SUFFICES ASSUME SqueezeFits PROVE VerifySpec => []Reported
  OBVIOUS
<1>1. VerifyInit => SuiteInv
  BY SuiteInit
<1>2. SuiteInv /\ [VerifyNext]_allVars => SuiteInv'
  BY SuiteStep
<1>3. SuiteInv => Reported
  BY DEF SuiteInv
<1> QED  BY <1>1, <1>2, <1>3, PTL DEF VerifySpec
=============================================================================
