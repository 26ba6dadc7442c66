------------------------------ MODULE PermPipe ------------------------------
(***************************************************************************)
(* The fully pipelined permutation (generator/permutation.py), the wrapper *)
(* that interleaves contexts through it and the top that puts several such *)
(* lanes side by side (generator/structural.py), with their testbenches.   *)
(*                                                                         *)
(* Nothing in the hardware ties a result to its context: the data, the     *)
(* valid bit and the context tag travel through three shift registers of   *)
(* their own.  A datum is named by its position in its lane's input queue  *)
(* and carries the round constants applied to it so far.                   *)
(*                                                                         *)
(* One step is a falling edge, at which the testbench checks and drives,   *)
(* and the rising edge after it.  A lane may be left without an input in   *)
(* any cycle, which the testbenches never do.                              *)
(***************************************************************************)
EXTENDS Naturals, Sequences, FiniteSets

CONSTANTS
    PipeDesigns,    \* [rounds, lanes, contexts]; one lane and one context: the bare core
    PipeBeats       \* cycles in which the testbench drives inputs

ASSUME PipeAssumption ==
    /\ PipeDesigns \subseteq [rounds : 1..16, lanes : Nat \ {0}, contexts : Nat \ {0}]
    /\ PipeBeats \in Nat

VARIABLES
    pdesign,        \* the pipeline that was generated
    pdata,          \* stage[] of each lane
    pvld,           \* vld
    pctx,           \* ctx_stage[]
    pq,             \* ctxq: the contexts of the inputs so far (wr is its length)
    prd,            \* rd: results checked so far
    perr,           \* errors
    pcyc,           \* cycles since reset
    pend            \* $finish

pipeVars == <<pdesign, pdata, pvld, pctx, pq, prd, perr, pcyc, pend>>

N      == pdesign.rounds
Lanes  == 0..(pdesign.lanes - 1)
Stages == 0..(N - 1)

\* Mutant: the testbench gives up before the pipeline is empty.
M_Drain == N - 2

Drain    == N + 6                   \* cycles the testbench waits at the end
PipeLast == PipeBeats + 1 + Drain

\* The constants of the first n rounds of p[N], in order.
Schedule(n) == [i \in 1..n |-> 16 - N + (i - 1)]

\* An input register nobody has driven.
NoData == [id |-> 0, rounds |-> <<>>]

-----------------------------------------------------------------------------
\* Stage j applies round constant 16 - N + j.
StageRound(j, d) == [d EXCEPT !.rounds = Append(@, 16 - N + j)]

\* A register of stage j takes that of the stage before, stage 0 the input.
Shift(regs, in) == [j \in Stages |-> IF j = 0 THEN in ELSE regs[j - 1]]

\* Round-robin over the contexts, offset by the lane.
CtxIn(g) == (pcyc + g) % pdesign.contexts

DataIn(g, present) ==
    IF g \in present THEN [id |-> Len(pq[g]) + 1, rounds |-> <<>>] ELSE NoData

\* Mutant: the tag register moves only when there is a new input.
M_PipeEdge(present) ==
    /\ pdata' = [g \in Lanes |->
                   LET moved == Shift(pdata[g], DataIn(g, present))
                   IN  [j \in Stages |-> StageRound(j, moved[j])]]
    /\ pvld' = [g \in Lanes |-> Shift(pvld[g], g \in present)]
    /\ pctx' = [g \in Lanes |-> IF g \in present THEN Shift(pctx[g], CtxIn(g)) ELSE pctx[g]]

\* The rising edge of every lane.
PipeEdge(present) ==
    /\ pdata' = [g \in Lanes |->
                   LET moved == Shift(pdata[g], DataIn(g, present))
                   IN  [j \in Stages |-> StageRound(j, moved[j])]]
    /\ pvld' = [g \in Lanes |-> Shift(pvld[g], g \in present)]
    /\ pctx' = [g \in Lanes |-> Shift(pctx[g], CtxIn(g))]

\* valid_o of a lane, and what its testbench queue expects there.
Valid(g)  == pvld[g][N - 1]
DataOK(g) == prd[g] < Len(pq[g]) /\ pdata[g][N - 1] = [id |-> prd[g] + 1, rounds |-> Schedule(N)]
CtxOK(g)  == prd[g] < Len(pq[g]) /\ pctx[g][N - 1] = pq[g][prd[g] + 1]
InStep(g) == DataOK(g) /\ CtxOK(g)

\* The checker looks at every valid output.
PipeCheck ==
    /\ prd' = [g \in Lanes |-> IF Valid(g) THEN prd[g] + 1 ELSE prd[g]]
    /\ perr' = perr + Cardinality({g \in Lanes : Valid(g) /\ ~DataOK(g)})
                    + Cardinality({g \in Lanes : Valid(g) /\ ~CtxOK(g)})

\* The driver presents an input to the lanes in `present' and queues it.
PipeDrive(present) ==
    pq' = [g \in Lanes |-> IF g \in present THEN Append(pq[g], CtxIn(g)) ELSE pq[g]]

PipeStep(present) ==
    /\ pcyc < PipeLast
    /\ present # {} => pcyc < PipeBeats
    /\ PipeCheck
    /\ PipeDrive(present)
    /\ PipeEdge(present)
    /\ pcyc' = pcyc + 1
    /\ UNCHANGED <<pdesign, pend>>

PipeFinish ==
    /\ pcyc = PipeLast /\ ~pend
    /\ pend' = TRUE
    /\ UNCHANGED <<pdesign, pdata, pvld, pctx, pq, prd, perr, pcyc>>

-----------------------------------------------------------------------------
\* Reset clears the valid bits and the tags; the data registers keep anything.
PipeInit ==
    /\ pdesign \in PipeDesigns
    /\ pdata = [g \in Lanes |-> [j \in Stages |-> NoData]]
    /\ pvld = [g \in Lanes |-> [j \in Stages |-> FALSE]]
    /\ pctx = [g \in Lanes |-> [j \in Stages |-> 0]]
    /\ pq = [g \in Lanes |-> <<>>] /\ prd = [g \in Lanes |-> 0]
    /\ perr = 0 /\ pcyc = 0 /\ pend = FALSE

PipeNext == (\E present \in SUBSET Lanes : PipeStep(present)) \/ PipeFinish

PipeSpec == PipeInit /\ [][PipeNext]_pipeVars /\ WF_pipeVars(PipeNext)

-----------------------------------------------------------------------------
(* Properties.                                                             *)

PipeTypeOK ==
    /\ pdesign \in PipeDesigns
    /\ pdata \in [Lanes -> [Stages -> [id : Nat, rounds : Seq(Nat)]]]
    /\ pvld \in [Lanes -> [Stages -> BOOLEAN]]
    /\ pctx \in [Lanes -> [Stages -> Nat]]
    /\ pq \in [Lanes -> Seq(Nat)] /\ prd \in [Lanes -> Nat]
    /\ perr \in Nat /\ pcyc \in 0..PipeLast /\ pend \in BOOLEAN

\* Data, valid bit and tag stay in step: whenever a lane shows a result, it is
\* that of the oldest input not answered yet, after all N rounds in order, and
\* it carries the context that input came with, whatever gaps lie between.
LabelsInStep == \A g \in Lanes : Valid(g) => InStep(g)

\* When the testbench ends every input of every lane has been answered and
\* checked, and none was found wrong: the drain is long enough for any gaps.
EveryVectorChecked ==
    pend => perr = 0 /\ \A g \in Lanes : prd[g] = Len(pq[g])
=============================================================================
