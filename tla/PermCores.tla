----------------------------- MODULE PermCores ------------------------------
(***************************************************************************)
(* The generated permutation cores that share the start/valid interface,   *)
(*                                                                         *)
(*   iter    R rounds a cycle               (generator/permutation.py)     *)
(*   colser  K S-box columns a cycle        (generator/serial.py)          *)
(*   bitser  one column or one bit a cycle  (generator/serial.py)          *)
(*   ucode   one round a cycle, from a ROM  (generator/control.py)         *)
(*                                                                         *)
(* the self-checking testbench that every one of them is simulated with    *)
(* and the smoke top that is flashed to a board.  States are bit-exact     *)
(* 320-bit vectors (PermGolden).                                           *)
(*                                                                         *)
(* One step is a falling edge, at which the testbench looks and drives,    *)
(* and the rising edge after it, at which every register changes.          *)
(***************************************************************************)
EXTENDS PermGolden

CONSTANTS
    PermDesigns,    \* the designs: [kind, par]; par is R or K
    PermBenches,    \* who drives the core: "bench" and "smoke"
    PermVectors,    \* what the testbench's random vectors may be
    PermRandoms,    \* how often the testbench tries the three round counts
    NoAnswer        \* the contract's "no request" and "no answer"

ASSUME PermAssumption ==
    /\ PermDesigns \subseteq
          ({"iter"} \X (1..12)) \cup ({"colser"} \X {1, 2, 4, 8, 16, 32})
          \cup {<<"bitser", 1>>, <<"ucode", 1>>}
    /\ PermBenches \subseteq {"bench", "smoke"}
    /\ \A v \in PermVectors : v \subseteq 0..319
    /\ PermRandoms \in Nat

VARIABLES
    design,                              \* the core that was generated
    fst, fs, ft, fidx, fcol,             \* state, s, t, idx or pc, col or j
    fvalid, fout,                        \* valid_o, state_o
    bphase, btrial, bin, bcode, bcyc, berr,   \* the testbench
    por, sstart, sstarted, smatch, sdone      \* the smoke top

fregs    == <<fst, fs, ft, fidx, fcol, fvalid, fout>>
bregs    == <<bphase, btrial, bin, bcode, bcyc, berr>>
sregs    == <<por, sstart, sstarted, smatch, sdone>>
permVars == <<design, fregs, bregs, sregs>>

DONE == 16      \* one past the last round-constant index

\* start_index: 0 is p6, 1 is p8, 2 is p12.
StartIndex(code) == CASE code = 0 -> 10 [] code = 1 -> 8 [] code = 2 -> 4 [] OTHER -> DONE

Ones == 0..319

\* Everything the testbench and the smoke top ask, with the golden answer and
\* the one the testbench computes with the emitted functions.
PermRequests == (PermVectors \cup {{}, Ones}) \X (0..2)
Golden       == [r \in PermRequests |-> GoldenPerm(r[1], r[2])]
Reference    == [r \in PermRequests |-> RtlPerm(r[1], r[2])]

\* "No answer" is neither a request nor an answer.
ASSUME ContractAssumption ==
    NoAnswer \notin PermRequests /\ \A r \in PermRequests : Golden[r] # NoAnswer

FsmInit ==
    /\ fst = "IDLE" /\ fs = {} /\ ft = {} /\ fcol = 0 /\ fvalid = FALSE /\ fout = {}
    /\ fidx = IF design[1] = "ucode" THEN 0 ELSE DONE

\* The last state of every design: the permuted state is shown for a cycle.
Show(result) ==
    /\ fout' = result
    /\ fvalid' = TRUE
    /\ fst' = "IDLE"

\* Mutant: valid_o stays up until the next result.
M_Quiet == UNCHANGED <<fvalid, fout>>

Quiet == fvalid' = FALSE /\ UNCHANGED fout

-----------------------------------------------------------------------------
(* The iterative core.                                                     *)

\* r_rounds: R rounds in one cycle, each guarded by idx + k < DONE.
RRounds(v, i, R) ==
    LET t[k \in 0..R] ==
            IF k = 0 THEN v
            ELSE IF i + (k - 1) < DONE THEN RtlRound(t[k - 1], i + (k - 1)) ELSE t[k - 1]
    IN  t[R]

IterStart(start, code, in) ==
    /\ start
    /\ fs' = in
    /\ fidx' = StartIndex(code)
    /\ fst' = "RUN"
    /\ Quiet /\ UNCHANGED <<ft, fcol>>

IterRun(start, R) ==
    /\ ~start /\ fst = "RUN"
    /\ fs' = RRounds(fs, fidx, R)
    /\ IF fidx + R >= DONE
       THEN Show(RRounds(fs, fidx, R)) /\ UNCHANGED fidx
       ELSE fidx' = fidx + R /\ Quiet /\ UNCHANGED fst
    /\ UNCHANGED <<ft, fcol>>

IterEdge(start, code, in) ==
    \/ IterStart(start, code, in)
    \/ IterRun(start, design[2])
    \/ ~start /\ fst = "IDLE" /\ Quiet /\ UNCHANGED <<fst, fs, ft, fidx, fcol>>

-----------------------------------------------------------------------------
(* The column-serial and the bit-serial core: one action per state.        *)

\* S_IDLE of both; an unknown round count never leaves it.
SerialIdle(start, code, in) ==
    /\ fst = "IDLE"
    /\ IF start
       THEN /\ fs' = in /\ fidx' = StartIndex(code) /\ fcol' = 0
            /\ fst' = IF StartIndex(code) >= DONE THEN "IDLE" ELSE "PC"
       ELSE UNCHANGED <<fs, fidx, fcol, fst>>
    /\ Quiet /\ UNCHANGED ft

SerialPC ==
    /\ fst = "PC"
    /\ fs' = RtlPC(fs, fidx)
    /\ fcol' = 0
    /\ fst' = "SBOX"
    /\ Quiet /\ UNCHANGED <<ft, fidx>>

\* sbox_chunk: K columns from `base' on, one after the other, in place.
SboxChunk(v, base, K) ==
    LET o[m \in 0..K] ==
            IF m = 0 THEN v
            ELSE IF base + (m - 1) < 64 THEN RtlSboxAt(o[m - 1], base + (m - 1)) ELSE o[m - 1]
    IN  o[K]

\* Mutant: one more cycle when the 64 columns are already done.
M_ColSbox(K) ==
    /\ fst = "SBOX"
    /\ fs' = SboxChunk(fs, fcol, K)
    /\ IF fcol + K > 64
       THEN fst' = "LIN" /\ UNCHANGED fcol
       ELSE fcol' = fcol + K /\ UNCHANGED fst
    /\ Quiet /\ UNCHANGED <<ft, fidx>>

ColSbox(K) ==
    /\ fst = "SBOX"
    /\ fs' = SboxChunk(fs, fcol, K)
    /\ IF fcol + K >= 64
       THEN fst' = "LIN" /\ UNCHANGED fcol
       ELSE fcol' = fcol + K /\ UNCHANGED fst
    /\ Quiet /\ UNCHANGED <<ft, fidx>>

\* The state after a round is `result': shown if it was the last one.
RoundDone(result) ==
    IF fidx + 1 >= DONE
    THEN Show(result) /\ UNCHANGED fidx
    ELSE fidx' = fidx + 1 /\ fst' = "PC" /\ Quiet

ColLin ==
    /\ fst = "LIN"
    /\ fs' = RtlPL(fs)
    /\ RoundDone(RtlPL(fs))
    /\ UNCHANGED <<ft, fcol>>

ColumnEdge(start, code, in) ==
    SerialIdle(start, code, in) \/ SerialPC \/ ColSbox(design[2]) \/ ColLin

\* j counts the 64 columns, then the 64 bits of the linear layer.
Count64(next) ==
    IF fcol = 63 THEN fcol' = 0 /\ fst' = next ELSE fcol' = fcol + 1 /\ UNCHANGED fst

BitSbox ==
    /\ fst = "SBOX"
    /\ fs' = RtlSboxAt(fs, fcol)
    /\ Count64("LIN")
    /\ Quiet /\ UNCHANGED <<ft, fidx>>

Rot == <<<<19, 28>>, <<61, 39>>, <<1, 6>>, <<10, 17>>, <<7, 41>>>>

\* Bit j of word i after the linear layer, computed from the old word.
LinBit(v, i, j) ==
    LET at(k) == IF 64 * i + (k % 64) \in v THEN 1 ELSE 0
    IN  (at(j) + at(j + Rot[i + 1][1]) + at(j + Rot[i + 1][2])) % 2 = 1

\* Mutant: the linear layer is computed in place, from bits already replaced.
M_BitLin ==
    /\ fst = "LIN"
    /\ ft' = (ft \ {64 * i + fcol : i \in Words})
                 \cup {64 * i + fcol : i \in {i \in Words : LinBit(fs, i, fcol)}}
    /\ fs' = (fs \ {64 * i + fcol : i \in Words})
                 \cup {64 * i + fcol : i \in {i \in Words : LinBit(fs, i, fcol)}}
    /\ Count64("LSWAP")
    /\ Quiet /\ UNCHANGED fidx

\* One bit of each word goes to the working register t; s stays as it is.
BitLin ==
    /\ fst = "LIN"
    /\ ft' = (ft \ {64 * i + fcol : i \in Words})
                 \cup {64 * i + fcol : i \in {i \in Words : LinBit(fs, i, fcol)}}
    /\ Count64("LSWAP")
    /\ Quiet /\ UNCHANGED <<fs, fidx>>

BitSwap ==
    /\ fst = "LSWAP"
    /\ fs' = ft
    /\ RoundDone(ft)
    /\ fcol' = IF fidx + 1 >= DONE THEN fcol ELSE 0
    /\ UNCHANGED ft

BitEdge(start, code, in) ==
    SerialIdle(start, code, in) \/ SerialPC \/ BitSbox \/ BitLin \/ BitSwap

-----------------------------------------------------------------------------
(* The microcoded core: fidx is the program counter.                       *)

UcodeConst(pc) == pc + 4
UcodeHalt(pc)  == pc = 11
EntryPc(code)  == CASE code = 0 -> 6 [] code = 1 -> 4 [] code = 2 -> 0 [] OTHER -> 12

UcodeIdle(start, code, in) ==
    /\ fst = "IDLE"
    /\ IF start
       THEN /\ fs' = in /\ fidx' = EntryPc(code)
            /\ fst' = IF EntryPc(code) >= 12 THEN "IDLE" ELSE "RUN"
       ELSE UNCHANGED <<fs, fidx, fst>>
    /\ Quiet /\ UNCHANGED <<ft, fcol>>

UcodeRun ==
    /\ fst = "RUN"
    /\ fs' = RtlRound(fs, UcodeConst(fidx))
    /\ IF UcodeHalt(fidx)
       THEN Show(RtlRound(fs, UcodeConst(fidx))) /\ UNCHANGED fidx
       ELSE fidx' = fidx + 1 /\ Quiet /\ UNCHANGED fst
    /\ UNCHANGED <<ft, fcol>>

UcodeEdge(start, code, in) == UcodeIdle(start, code, in) \/ UcodeRun

-----------------------------------------------------------------------------
CoreEdge(start, code, in) ==
    \/ design[1] = "iter"   /\ IterEdge(start, code, in)
    \/ design[1] = "colser" /\ ColumnEdge(start, code, in)
    \/ design[1] = "bitser" /\ BitEdge(start, code, in)
    \/ design[1] = "ucode"  /\ UcodeEdge(start, code, in)

-----------------------------------------------------------------------------
(* The testbench: PermRandoms times the three round counts on a random     *)
(* vector, then on all zeros and on all ones.                              *)

PermTrials == 3 * PermRandoms + 6

TrialVectors(t) ==
    CASE t < 3 * PermRandoms     -> PermVectors
      [] t \in 3 * PermRandoms .. 3 * PermRandoms + 2 -> {{}}
      [] OTHER                   -> {Ones}

\* run_one: present the vector with start up for one cycle.
Present(v) ==
    /\ bphase = "present" /\ btrial < PermTrials
    /\ v \in TrialVectors(btrial)
    /\ bin' = v /\ bcode' = btrial % 3 /\ bcyc' = 0
    /\ bphase' = "wait"
    /\ CoreEdge(TRUE, btrial % 3, v)
    /\ UNCHANGED <<btrial, berr, sregs, design>>

Wait ==
    /\ bphase = "wait" /\ ~fvalid
    /\ bcyc' = bcyc + 1
    /\ CoreEdge(FALSE, bcode, bin)
    /\ UNCHANGED <<bphase, btrial, bin, bcode, berr, sregs, design>>

Check ==
    /\ bphase = "wait" /\ fvalid
    /\ btrial' = btrial + 1
    /\ berr' = IF fout = Reference[<<bin, bcode>>] THEN berr ELSE berr + 1
    /\ bphase' = "present"
    /\ CoreEdge(FALSE, bcode, bin)
    /\ UNCHANGED <<bin, bcode, bcyc, sregs, design>>

PermFinish ==
    /\ bphase = "present" /\ btrial = PermTrials
    /\ bphase' = "end"
    /\ UNCHANGED <<design, fregs, sregs, btrial, bin, bcode, bcyc, berr>>

-----------------------------------------------------------------------------
(* The smoke top: p12 of a fixed input, once after reset, against the      *)
(* golden value embedded when it was generated.                            *)

SmokeInput == {}

\* The power-on counter holds rst_n down for its first 15 values.
SmokeReset ==
    /\ bphase = "smoke" /\ por < 15
    /\ por' = por + 1
    /\ UNCHANGED <<design, fregs, bregs, sstart, sstarted, smatch, sdone>>

SmokeEdge ==
    /\ bphase = "smoke" /\ por = 15 /\ ~sdone
    /\ CoreEdge(sstart, 2, SmokeInput)
    /\ sstart' = ~sstarted /\ sstarted' = TRUE
    /\ smatch' = IF fvalid THEN fout = Golden[<<SmokeInput, 2>>] ELSE smatch
    /\ sdone' = (sdone \/ fvalid)
    /\ UNCHANGED <<design, bregs, por>>

-----------------------------------------------------------------------------
\* A board with a reset button starts past the counter (por = 15).
PermInit ==
    /\ design \in PermDesigns
    /\ FsmInit
    /\ bphase \in {IF b = "smoke" THEN "smoke" ELSE "present" : b \in PermBenches}
    /\ bphase = "smoke" => design[1] = "iter"
    /\ btrial = 0 /\ bin = {} /\ bcode = 2 /\ bcyc = 0 /\ berr = 0
    /\ por \in {0, 15} /\ (bphase # "smoke" => por = 15)
    /\ sstart = FALSE /\ sstarted = FALSE /\ smatch = FALSE /\ sdone = FALSE

PermNext ==
    \/ \E v \in TrialVectors(btrial) : Present(v)
    \/ Wait \/ Check \/ PermFinish
    \/ SmokeReset \/ SmokeEdge

\* The simulation has ended, or the board has its verdict.
PermStopped == bphase = "end" \/ sdone

\* The clock never stops: weak fairness of PermNext, with "enabled" spelt out
\* (a step is possible until PermStopped).
PermClock == []<>PermStopped \/ []<><<PermNext>>_permVars

PermSpec == PermInit /\ [][PermNext]_permVars /\ PermClock

-----------------------------------------------------------------------------
(* Properties.                                                             *)

PermTypeOK ==
    /\ fst \in {"IDLE", "RUN", "PC", "SBOX", "LIN", "LSWAP"}
    /\ fs \subseteq Ones /\ ft \subseteq Ones /\ fout \subseteq Ones
    /\ fidx \in 0..DONE /\ fcol \in 0..64 /\ fvalid \in BOOLEAN
    /\ bphase \in {"present", "wait", "end", "smoke"}
    /\ btrial \in 0..PermTrials /\ berr \in 0..btrial /\ bcode \in 0..2

\* Whatever the design, the state shown with valid_o is bit for bit the golden
\* p6, p8 or p12 of the vector that was presented: the serial datapaths replace
\* the state piece by piece while they read it, the others skip rounds of a
\* shared schedule.
PermResultIsGolden == fvalid => fout = Golden[<<bin, bcode>>]

\* The cycles each design is documented to take: n rounds, R at a time; 2 +
\* ceil(64/K) a round; 2 + 64 + 64 a round; one a round.
Latency(d, n) ==
    CASE d[1] = "iter"   -> (n + d[2] - 1) \div d[2]
      [] d[1] = "colser" -> n * (2 + ((64 + d[2] - 1) \div d[2]))
      [] d[1] = "bitser" -> n * (2 + 64 + 64)
      [] d[1] = "ucode"  -> n

\* An answer comes in exactly the documented number of cycles.
LatencyAsDocumented ==
    (bphase = "wait" /\ fvalid) => bcyc = Latency(design, RoundsOf(bcode))

\* The refinement: busy_o with what was asked, and what valid_o shows.
Asked == <<bin, bcode>>

PermAbs == INSTANCE PermContract WITH
    Requests <- PermRequests,
    Result   <- LAMBDA r : Golden[r],
    None     <- NoAnswer,
    working  <- (IF fst # "IDLE" THEN Asked ELSE NoAnswer),
    answer   <- (IF fvalid THEN fout ELSE NoAnswer)

\* Every design implements the contract, fairness included: an accepted vector
\* is always answered, once, with its own permuted state.
ImplementsPerm == PermAbs!Spec
=============================================================================
