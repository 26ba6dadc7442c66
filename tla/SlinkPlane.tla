----------------------------- MODULE SlinkPlane -----------------------------
(***************************************************************************)
(* The SLINK data plane, hardware and driver together:                     *)
(*                                                                         *)
(*   driver run() --- register writes/reads ---> ascon_aead128_slink_mmio  *)
(*     |                                           |  start_pulse          *)
(*    DMA --> SLINK TX FIFO --> ascon_slink_shim --+--> ascon_aead128_axis *)
(*    DMA <-- SLINK RX FIFO <------------------------------- m_axis        *)
(*                                                                         *)
(* One step is one clock edge.  At every edge all of the hardware moves    *)
(* (HwEdge) and the bus carries at most one access, of the driver or of    *)
(* the DMA.  SLINK FIFOs, DMA and the neorv32_* calls are external; they   *)
(* are modelled as the code and its comments use them.                     *)
(***************************************************************************)
EXTENDS AxisEngine

CONSTANTS
    Calls,          \* what the application may ask of the driver
    TxDepth,        \* IO_SLINK_TX_FIFO, in words
    RxDepth,        \* IO_SLINK_RX_FIFO, in words
    SetupFlushes,   \* whether neorv32_slink_setup empties the FIFOs
    MaxTimeouts     \* bound: how many driver calls may time out in a run

\* A call: the job and whether req->output is non-NULL.  ascon_slink_encrypt
\* has no tag to present.
ASSUME PlaneAssumption ==
    /\ Calls \subseteq [job : Jobs, out : BOOLEAN] /\ None \notin Calls
    /\ \A c \in Calls : c.job.tagok => c.job.dec
    /\ TxDepth \in Nat /\ RxDepth \in Nat
    /\ SetupFlushes \in BOOLEAN
    /\ MaxTimeouts \in Nat

VARIABLES
    sst, sad, smsg, cnt,                        \* the shim
    preg, decryptR, startPulse,                 \* parameter registers, start
    busyR, doneR, tagR, tagvR, errR,            \* status registers
    txf, rxf,                                   \* the SLINK FIFOs
    dmaq,                                       \* moves the DMA has still to make
    pc, call, rxbuf, status,                    \* the driver's run()
    output, tagOut, ret,                        \* what the caller gets back
    fresh,      \* history: the call's START found the data plane at rest
    timeouts

shimVars   == <<sst, sad, smsg, cnt>>
regVars    == <<preg, decryptR, startPulse, busyR, doneR, tagR, tagvR, errR>>
hwVars     == <<axisVars, shimVars, regVars>>
driverVars == <<pc, call, rxbuf, status, output, tagOut, ret, fresh, timeouts>>
vars       == <<hwVars, txf, rxf, dmaq, driverVars>>

WordsFor(n) == (n + BeatBytes - 1) \div BeatBytes

-----------------------------------------------------------------------------
(* The shim: sidebands from the two lengths and a byte count.              *)

Rem   == Wrap8((IF sst = "AD" THEN sad ELSE smsg) - cnt)

\* Mutant: no byte mask, so that the engine is sent the padding of a last word.
M_KeepN == BeatBytes

KeepN == IF Rem >= BeatBytes THEN BeatBytes ELSE Rem

ShimValid == (sst \in {"AD", "MSG"} /\ txf # <<>>) \/ sst = "NULL"

ShimBeat ==
    CASE sst = "AD"  -> Beat(SubSeq(Head(txf), 1, KeepN), 0, FALSE)
      [] sst = "MSG" -> Beat(SubSeq(Head(txf), 1, KeepN), 1, Rem <= BeatBytes)
      [] OTHER       -> Beat(<<>>, 1, TRUE)

BeatTaken == ShimValid /\ SReady
WordTaken == BeatTaken /\ sst \in {"AD", "MSG"}

\* Mutant: an empty message is waited for like any other.
M_MsgPhase(len) == "MSG"

\* Phases that carry no bytes are skipped.
MsgPhase(len)    == IF len # 0 THEN "MSG" ELSE "NULL"
FirstPhase(a, m) == IF a # 0 THEN "AD" ELSE MsgPhase(m)

ShimStarts ==
    /\ sst = "IDLE" /\ startPulse
    /\ sad' = preg.adlen /\ smsg' = preg.msglen
    /\ cnt' = 0
    /\ sst' = FirstPhase(preg.adlen, preg.msglen)

\* Mutant: a full last word is not seen to be the last one.
M_ShimForwards ==
    /\ BeatTaken
    /\ IF sst = "NULL" THEN sst' = "IDLE" /\ UNCHANGED cnt
       ELSE IF Rem >= BeatBytes THEN cnt' = Wrap8(cnt + BeatBytes) /\ UNCHANGED sst
       ELSE IF sst = "AD" THEN cnt' = 0 /\ sst' = MsgPhase(smsg)
       ELSE sst' = "IDLE" /\ UNCHANGED cnt
    /\ UNCHANGED <<sad, smsg>>

ShimForwards ==
    /\ BeatTaken
    /\ IF sst = "NULL" THEN sst' = "IDLE" /\ UNCHANGED cnt
       ELSE IF Rem > BeatBytes THEN cnt' = Wrap8(cnt + BeatBytes) /\ UNCHANGED sst
       ELSE IF sst = "AD" THEN cnt' = 0 /\ sst' = MsgPhase(smsg)
       ELSE sst' = "IDLE" /\ UNCHANGED cnt
    /\ UNCHANGED <<sad, smsg>>

ShimHolds ==
    /\ ~BeatTaken /\ ~(sst = "IDLE" /\ startPulse)
    /\ UNCHANGED shimVars

ShimEdge == ShimStarts \/ ShimForwards \/ ShimHolds

-----------------------------------------------------------------------------
(* The registers of ascon_aead128_slink_mmio.                              *)

NoWrite      == [reg |-> "none"]
ClearWrite   == [reg |-> "clear"]
StartWrite(dec) == [reg |-> "start", dec |-> dec]
\* KEY, NONCE, AD_LEN and TEXT_LEN, and for a decryption TAG, are looked at
\* only at the start pulse, so the twelve or so writes are one.
ParamWrite(j) == [reg |-> "params", job |-> j]

\* What is latched with the start pulse; an encryption does not look at TAG.
StartJob == [preg EXCEPT !.dec = decryptR, !.tagok = decryptR /\ @]

\* Mutant: neither CLEAR nor START takes DONE down.
M_RegEdge(w) ==
    LET control == w.reg \in {"clear", "start"}
        reject  == decryptR /\ ~validO
    IN  /\ startPulse' = (w.reg = "start")
        /\ decryptR' = IF w.reg = "start" THEN w.dec ELSE decryptR
        /\ preg' = IF w.reg = "params"
                   THEN [w.job EXCEPT !.tagok = IF w.job.dec THEN @ ELSE preg.tagok]
                   ELSE preg
        /\ busyR'  = ((w.reg = "start") \/ (busyR /\ ~control /\ ~doneO))
        /\ doneR'  = (doneO \/ doneR)
        /\ tagvR'  = (~control /\ IF doneO THEN ~reject ELSE tagvR)
        /\ errR'   = (~control /\ ((doneO /\ reject) \/ errR))
        /\ tagR'   = IF doneO THEN res ELSE tagR

\* A control write comes after, and so overrides, the engine's done.
RegEdge(w) ==
    LET control == w.reg \in {"clear", "start"}
        reject  == decryptR /\ ~validO
    IN  /\ startPulse' = (w.reg = "start")
        /\ decryptR' = IF w.reg = "start" THEN w.dec ELSE decryptR
        /\ preg' = IF w.reg = "params"
                   THEN [w.job EXCEPT !.tagok = IF w.job.dec THEN @ ELSE preg.tagok]
                   ELSE preg
        /\ busyR'  = ((w.reg = "start") \/ (busyR /\ ~control /\ ~doneO))
        /\ doneR'  = (~control /\ (doneO \/ doneR))
        /\ tagvR'  = (~control /\ IF doneO THEN ~reject ELSE tagvR)
        /\ errR'   = (~control /\ ((doneO /\ reject) \/ errR))
        /\ tagR'   = IF doneO THEN res ELSE tagR

-----------------------------------------------------------------------------
(* One edge of all the hardware: register write w, words `pushed' into the *)
(* TX FIFO (a word written to a full FIFO is lost), `popped' words taken   *)
(* from the RX FIFO.                                                       *)

RxWord == [of |-> res, pos |-> txpos]

HwEdge(w, pushed, popped) ==
    LET rxReady == Len(rxf) < RxDepth
        kept    == IF Len(txf) < TxDepth THEN pushed ELSE <<>>
    IN  /\ EngineEdge(startPulse, StartJob, IF ShimValid THEN ShimBeat ELSE NoBeat, rxReady)
        /\ CoreEdge
        /\ ShimEdge
        /\ RegEdge(w)
        /\ txf' = (IF WordTaken THEN Tail(txf) ELSE txf) \o kept
        /\ rxf' = SubSeq(rxf, popped + 1, Len(rxf))
                    \o (IF MValid /\ rxReady THEN <<RxWord>> ELSE <<>>)

-----------------------------------------------------------------------------
(* The DMA: a queue of moves, one bus access each.                         *)

RxMove == [dir |-> "rx"]
TxMove(word) == [dir |-> "tx", word |-> word]
DmaIdle == dmaq = <<>>

Junk == [of |-> None, pos |-> 0]            \* read from an empty RX FIFO

DmaTxWord ==
    /\ ~DmaIdle /\ Head(dmaq).dir = "tx"
    /\ HwEdge(NoWrite, <<Head(dmaq).word>>, 0)
    /\ dmaq' = Tail(dmaq)
    /\ UNCHANGED driverVars

DmaRxWord ==
    /\ ~DmaIdle /\ Head(dmaq).dir = "rx"
    /\ HwEdge(NoWrite, <<>>, IF rxf = <<>> THEN 0 ELSE 1)
    /\ dmaq' = Tail(dmaq)
    /\ rxbuf' = IF pc = "dmarx" THEN Append(rxbuf, IF rxf = <<>> THEN Junk ELSE Head(rxf))
                                ELSE rxbuf
    /\ UNCHANGED <<pc, call, status, output, tagOut, ret, fresh, timeouts>>

-----------------------------------------------------------------------------
(* The driver: run() of firmware/ascon_slink/ascon_slink.c.                *)

Statuses == {"OK", "TIMEOUT", "TAG_INVALID", "HARDWARE"}

\* load_le32 pads the last word of a segment with zero bytes.
WordOf(j, segment, len, k) ==
    [i \in 1..BeatBytes |->
        LET n == (k - 1) * BeatBytes + (i - 1)
        IN  IF n < len THEN <<j.id, segment, n>> ELSE Zero]

TxBuf(j) ==
    [k \in 1..WordsFor(j.adlen) |-> WordOf(j, "ad", j.adlen, k)]
    \o [k \in 1..WordsFor(j.msglen) |-> WordOf(j, "msg", j.msglen, k)]

\* An edge at which the driver makes register write w and goes on to `next'.
DriverWrites(w, next) ==
    /\ HwEdge(w, <<>>, 0)
    /\ pc' = next

\* An edge at which the driver leaves run() with status code.
Returns(code) ==
    /\ pc' = "returned" /\ ret' = code
    /\ HwEdge(NoWrite, <<>>, 0)

\* The application calls; the scratch buffer is filled and SLINK set up.
Call(c) ==
    /\ pc = "returned"
    /\ call' = c
    /\ pc' = "clear"
    /\ rxbuf' = <<>> /\ output' = <<>> /\ tagOut' = None /\ ret' = "OK"
    /\ IF SetupFlushes
       THEN /\ EngineEdge(startPulse, StartJob, IF ShimValid THEN ShimBeat ELSE NoBeat, FALSE)
            /\ CoreEdge /\ ShimEdge /\ RegEdge(NoWrite)
            /\ txf' = <<>> /\ rxf' = <<>>
       ELSE HwEdge(NoWrite, <<>>, 0)
    /\ UNCHANGED <<dmaq, status, fresh, timeouts>>

WriteClear ==
    /\ pc = "clear"
    /\ DriverWrites(ClearWrite, "params")
    /\ UNCHANGED <<dmaq, call, rxbuf, status, output, tagOut, ret, fresh, timeouts>>

\* Mutant: the payload is sent before START.
M_WriteParams ==
    /\ pc = "params"
    /\ DriverWrites(ParamWrite(call.job), "dmatx")
    /\ UNCHANGED <<dmaq, call, rxbuf, status, output, tagOut, ret, fresh, timeouts>>

WriteParams ==
    /\ pc = "params"
    /\ DriverWrites(ParamWrite(call.job), "start")
    /\ UNCHANGED <<dmaq, call, rxbuf, status, output, tagOut, ret, fresh, timeouts>>

\* START comes before the payload.
WriteStart ==
    /\ pc = "start"
    /\ DriverWrites(StartWrite(call.job.dec), "dmatx")
    /\ fresh' = (est' = "IDLE" /\ ~doneO' /\ sst' = "IDLE" /\ txf' = <<>> /\ rxf' = <<>> /\ DmaIdle)
    /\ UNCHANGED <<dmaq, call, rxbuf, status, output, tagOut, ret, timeouts>>

\* dma_to_slink: one descriptor; an empty payload needs none and waits for nothing.
DmaToSlink ==
    /\ pc = "dmatx"
    /\ HwEdge(NoWrite, <<>>, 0)
    /\ pc' = IF TxBuf(call.job) = <<>> THEN "poll" ELSE "dmatxwait"
    /\ dmaq' = dmaq \o [k \in DOMAIN TxBuf(call.job) |-> TxMove(TxBuf(call.job)[k])]
    /\ UNCHANGED <<call, rxbuf, status, output, tagOut, ret, fresh, timeouts>>

DmaTxDone ==
    /\ pc = "dmatxwait" /\ DmaIdle
    /\ HwEdge(NoWrite, <<>>, 0)
    /\ pc' = "poll"
    /\ UNCHANGED <<dmaq, call, rxbuf, status, output, tagOut, ret, fresh, timeouts>>

\* Mutant: a partial last word of the result is not collected.
M_PollDone ==
    /\ pc = "poll" /\ doneR
    /\ HwEdge(NoWrite, <<>>, 0)
    /\ status' = [tagv |-> tagvR, err |-> errR]
    /\ IF call.job.msglen > 0 /\ call.out
       THEN /\ pc' = "dmarx"
            /\ dmaq' = dmaq \o [k \in 1..(call.job.msglen \div BeatBytes) |-> RxMove]
       ELSE pc' = "tag" /\ UNCHANGED dmaq
    /\ UNCHANGED <<call, rxbuf, output, tagOut, ret, fresh, timeouts>>

\* The poll that sees DONE; the flags read with it are judged later.
PollDone ==
    /\ pc = "poll" /\ doneR
    /\ HwEdge(NoWrite, <<>>, 0)
    /\ status' = [tagv |-> tagvR, err |-> errR]
    /\ IF call.job.msglen > 0 /\ call.out
       THEN /\ pc' = "dmarx"
            /\ dmaq' = dmaq \o [k \in 1..WordsFor(call.job.msglen) |-> RxMove]
       ELSE pc' = "tag" /\ UNCHANGED dmaq
    /\ UNCHANGED <<call, rxbuf, output, tagOut, ret, fresh, timeouts>>

\* The result reaches the caller's buffer before the tag is looked at.
DmaRxDone ==
    /\ pc = "dmarx" /\ DmaIdle
    /\ HwEdge(NoWrite, <<>>, 0)
    /\ output' = rxbuf
    /\ pc' = "tag"
    /\ UNCHANGED <<dmaq, call, rxbuf, status, tagOut, ret, fresh, timeouts>>

Finish ==
    /\ pc = "tag"
    /\ tagOut' = IF call.job.dec THEN tagOut ELSE tagR
    /\ Returns(CASE call.job.dec /\ ~status.tagv -> "TAG_INVALID"
                 [] ~(call.job.dec /\ ~status.tagv) /\ status.err -> "HARDWARE"
                 [] OTHER -> "OK")
    /\ UNCHANGED <<dmaq, call, rxbuf, status, output, fresh, timeouts>>

\* run() fills its scratch buffer on the stack: a DMA that outlives the call
\* reads the words as they were, or whatever the stack holds by then.
DeadWord  == [i \in 1..BeatBytes |-> Zero]
Abandoned == {dmaq, [k \in DOMAIN dmaq |-> IF dmaq[k].dir = "tx" THEN TxMove(DeadWord) ELSE dmaq[k]]}

\* A wait that gives up returns at once: nothing is aborted or reset.
Timeout ==
    /\ \/ pc \in {"dmatxwait", "dmarx"} /\ ~DmaIdle
       \/ pc = "poll" /\ ~doneR
    /\ timeouts < MaxTimeouts
    /\ timeouts' = timeouts + 1
    /\ Returns("TIMEOUT")
    /\ dmaq' \in Abandoned
    /\ UNCHANGED <<call, rxbuf, status, output, tagOut, fresh>>

\* An edge without a bus access that matters.
Tick ==
    /\ HwEdge(NoWrite, <<>>, 0)
    /\ UNCHANGED <<dmaq, driverVars>>

-----------------------------------------------------------------------------
Init ==
    /\ EngineInit
    /\ sst = "IDLE" /\ sad = 0 /\ smsg = 0 /\ cnt = 0
    /\ preg = [id |-> CHOOSE i \in Ids : TRUE, dec |-> FALSE, tagok |-> FALSE,
               adlen |-> 0, msglen |-> 0]
    /\ decryptR = FALSE /\ startPulse = FALSE
    /\ busyR = FALSE /\ doneR = FALSE /\ tagR = None /\ tagvR = FALSE /\ errR = FALSE
    /\ txf = <<>> /\ rxf = <<>> /\ dmaq = <<>>
    /\ pc = "returned" /\ call = None /\ rxbuf = <<>>
    /\ status = [tagv |-> FALSE, err |-> FALSE]
    /\ output = <<>> /\ tagOut = None /\ ret = "TIMEOUT"
    /\ fresh = FALSE /\ timeouts = 0

Driver == \/ WriteClear \/ WriteParams \/ WriteStart \/ DmaToSlink
          \/ DmaTxDone \/ PollDone \/ DmaRxDone \/ Finish

Dma == DmaTxWord \/ DmaRxWord

Next == (\E c \in Calls : Call(c)) \/ Driver \/ Dma \/ Timeout \/ Tick

\* The CPU goes on, the DMA goes on, the clock goes on and the core ends what
\* it accepted (CoreContract).
CoreFinishes == Next /\ cbusy /\ ~cbusy'

Fairness == WF_vars(Driver) /\ WF_vars(Dma) /\ WF_vars(Tick) /\ WF_vars(CoreFinishes)

Spec == Init /\ [][Next]_vars /\ Fairness

-----------------------------------------------------------------------------
(* Properties.                                                             *)

RxWordType == [of : CoreInputs, pos : 0..255]
Word       == [1..BeatBytes -> Bytes \cup {Zero}]

\* Type invariant.
TypeOK ==
    /\ EngineTypeOK
    /\ sst \in {"IDLE", "AD", "MSG", "NULL"}
    /\ sad \in 0..AdMax /\ smsg \in 0..MsgMax /\ cnt \in 0..255
    /\ preg \in JobType
    /\ decryptR \in BOOLEAN /\ startPulse \in BOOLEAN
    /\ busyR \in BOOLEAN /\ doneR \in BOOLEAN /\ tagvR \in BOOLEAN /\ errR \in BOOLEAN
    /\ tagR \in CoreInputs \cup {None}
    /\ txf \in Seq(Word) /\ Len(txf) <= TxDepth
    /\ rxf \in Seq(RxWordType) /\ Len(rxf) <= RxDepth
    /\ \A k \in DOMAIN dmaq : dmaq[k] = RxMove \/ dmaq[k] \in [dir : {"tx"}, word : Word]
    /\ pc \in {"returned", "clear", "params", "start", "dmatx", "dmatxwait", "poll",
               "dmarx", "tag"}
    /\ call \in Calls \cup {None} /\ (pc # "returned" => call # None)
    /\ rxbuf \in Seq(RxWordType \cup {Junk})
    /\ status \in [tagv : BOOLEAN, err : BOOLEAN]
    /\ ret \in Statuses
    /\ fresh \in BOOLEAN
    /\ timeouts \in 0..MaxTimeouts

\* What the caller should get for job j.
ResultWords(j) ==
    [k \in 1..WordsFor(j.msglen) |-> [of |-> Ideal(j), pos |-> (k - 1) * BeatBytes]]

Answered == pc = "returned" /\ call # None

\* The call's answer is the whole result and the tag of its job and no other,
\* TAG_INVALID exactly for a tag that is not the genuine one, and never the
\* hardware-error status.
AnswerIsOwn ==
    LET j == call.job
    IN  /\ ret = IF j.dec /\ ~j.tagok THEN "TAG_INVALID" ELSE "OK"
        /\ call.out => output = ResultWords(j)
        /\ ~j.dec => tagOut = Ideal(j)

\* A call that returns without a timeout answers its own request.
OwnResult == (Answered /\ ret # "TIMEOUT") => AnswerIsOwn

\* With calls that time out and leave the engine, the shim and the DMA where
\* they are, a later call that does not time out still answers its own request
\* provided that its START found all of them at rest.
OwnResultIfFresh == (Answered /\ ret # "TIMEOUT" /\ fresh) => AnswerIsOwn

\* No call leaves anything behind for the next: FIFOs and DMA empty, shim and
\* engine ready for a start.
NothingLeftBehind ==
    Answered =>
        /\ txf = <<>> /\ rxf = <<>> /\ DmaIdle
        /\ sst = "IDLE" /\ ~startPulse
        /\ est = "IDLE" /\ ~doneO /\ ~busyR

\* The DMA never meets a full TX FIFO, where its word would be lost.
NoWordLost == (~DmaIdle /\ Head(dmaq).dir = "tx") => Len(txf) < TxDepth

\* Shim and engine, started by the same pulse and each counting for itself,
\* agree on where in the payload they are; the shim never pulls a word that
\* the engine is not in its receive state for.
ShimInStep ==
    /\ (sst # "IDLE") = (est = "RX")
    /\ sst = "AD" => cnt = adpos /\ msgpos = 0 /\ cnt < sad
    /\ sst = "MSG" => cnt = msgpos /\ adpos = sad /\ cnt < smsg
    /\ sst = "NULL" => adpos = sad /\ smsg = 0
    /\ sst # "IDLE" => sad = job.adlen /\ smsg = job.msglen

\* When a beat arrives the engine is in its receive state, asserting tready:
\* what writing START before the payload is meant to ensure.
ReadyBeforeBeats == ShimValid => SReady

\* Every call returns.
EveryCallReturns == (pc = "clear") ~> (pc = "returned")
=============================================================================
