--------------------------- MODULE SlinkPlaneProofs ---------------------------
(***************************************************************************)
(* Proofs about SlinkPlane, for every beat, buffer and FIFO size and every *)
(* set of calls.  Whatever times out: the types, and that a call whose     *)
(* START found the data plane at rest gets its own answer.  As long as no  *)
(* call gives up: shim and engine, started by the same pulse and each      *)
(* counting for itself, agree at every edge, no word is lost in a TX FIFO  *)
(* of two words or more, and every call gets its own answer and leaves     *)
(* nothing behind.                                                         *)
(***************************************************************************)
EXTENDS SlinkPlane, AxisEngineProofs

-----------------------------------------------------------------------------
(* What holds whatever times out.                                          *)

Move == {RxMove} \cup [dir : {"tx"}, word : Word]

PCs   == {"returned", "clear", "params", "start", "dmatx", "dmatxwait", "poll", "dmarx", "tag"}
Early == {"clear", "params", "start"}
Live  == {"dmatx", "dmatxwait", "poll", "dmarx", "tag"}     \* START has been written

Types ==
    /\ est \in EngineStates /\ sst \in {"IDLE", "AD", "MSG", "NULL"}
    /\ sad \in 0..AdMax /\ smsg \in 0..MsgMax /\ cnt \in 0..255
    /\ preg \in JobType
    /\ txf \in Seq(Word) /\ dmaq \in Seq(Move)
    /\ pc \in PCs /\ call \in Calls \cup {None} /\ (pc # "returned" => call \in Calls)

\* What START latches is the call's job, and the pulse is over before the
\* driver waits; DONE and BUSY exclude each other.
Latched ==
    /\ pc = "start" \/ startPulse =>
          preg = [call.job EXCEPT !.tagok = IF call.job.dec THEN call.job.tagok ELSE preg.tagok]
    /\ startPulse => pc = "dmatx" /\ decryptR = call.job.dec
    /\ doneR => ~busyR

RegTypes ==
    /\ decryptR \in BOOLEAN /\ startPulse \in BOOLEAN
    /\ busyR \in BOOLEAN /\ doneR \in BOOLEAN /\ tagvR \in BOOLEAN /\ errR \in BOOLEAN
    /\ tagR \in CoreInputs \cup {None}

FifoTypes ==
    /\ Len(txf) <= TxDepth
    /\ rxf \in Seq(RxWordType) /\ Len(rxf) <= RxDepth

\* Until the result is fetched the caller's buffers are as the call left them.
DriverTypes ==
    /\ rxbuf \in Seq(RxWordType \cup {Junk})
    /\ status \in [tagv : BOOLEAN, err : BOOLEAN]
    /\ ret \in Statuses /\ fresh \in BOOLEAN /\ timeouts \in 0..MaxTimeouts
    /\ pc # "returned" => ret = "OK"
    /\ pc \in Early \cup {"dmatx", "dmatxwait", "poll"} => rxbuf = <<>> /\ output = <<>>

PlaneInv == Types /\ EngineSound /\ Latched /\ RegTypes /\ FifoTypes /\ DriverTypes

LEMMA InitPlane == Init => PlaneInv
<1> SUFFICES ASSUME Init PROVE PlaneInv
  OBVIOUS
<1>1. preg \in JobType
  <2>1. (CHOOSE i \in Ids : TRUE) \in Ids
    BY EngineAssumption
  <2>2. 0 \in 0..AdMax /\ 0 \in 0..MsgMax /\ FALSE \in BOOLEAN
    BY Sizes
  <2> QED  BY <2>1, <2>2 DEF Init, JobType
<1>2. txf = <<>> /\ dmaq = <<>> /\ rxf = <<>> /\ rxbuf = <<>>
  BY DEF Init
<1>3. Types
  <2>1. txf \in Seq(Word) /\ dmaq \in Seq(Move)
    BY <1>2, EmptySeq
  <2>2. 0 \in 0..AdMax /\ 0 \in 0..MsgMax /\ 0 \in 0..255
    BY Sizes
  <2> QED  BY <1>1, <2>1, <2>2 DEF Init, EngineInit, Types, EngineStates, PCs
<1>4. EngineSound
  BY InitSound DEF Init
<1>5. Latched
  BY DEF Init, Latched
<1>6. RegTypes
  BY DEF Init, RegTypes
<1>7. FifoTypes
  <2>1. Len(txf) = 0 /\ Len(rxf) = 0 /\ rxf \in Seq(RxWordType)
    BY <1>2, EmptySeq
  <2> QED  BY <2>1, PlaneAssumption DEF FifoTypes
<1>8. DriverTypes
  <2>1. rxbuf \in Seq(RxWordType \cup {Junk}) /\ 0 \in 0..MaxTimeouts
    BY <1>2, EmptySeq, PlaneAssumption
  <2>2. status \in [tagv : BOOLEAN, err : BOOLEAN] /\ fresh \in BOOLEAN
    BY DEF Init
  <2> QED  BY <2>1, <2>2 DEF Init, DriverTypes, Statuses, Early
<1> QED  BY <1>3, <1>4, <1>5, <1>6, <1>7, <1>8 DEF PlaneInv

\* A call's job and the lengths in it.
LEMMA CallFacts ==
    ASSUME Types, pc # "returned"
    PROVE  /\ call \in Calls /\ call.job \in Jobs /\ call.job \in JobType
           /\ call.out \in BOOLEAN
           /\ call.job.dec \in BOOLEAN /\ call.job.tagok \in BOOLEAN
           /\ (call.job.tagok => call.job.dec)
           /\ call.job.adlen \in 0..AdMax /\ call.job.msglen \in 0..MsgMax
<1>1. call \in Calls
  BY DEF Types
<1>2. call.job \in Jobs /\ call.out \in BOOLEAN /\ (call.job.tagok => call.job.dec)
  BY <1>1, PlaneAssumption
<1> QED  BY <1>1, <1>2, JobFacts, EngineAssumption

\* The job the engine accepts is the call's.
LEMMA StartsCall ==
    ASSUME PlaneInv, startPulse
    PROVE  StartJob = call.job /\ call.job \in Jobs
<1>1. pc = "dmatx" /\ decryptR = call.job.dec
      /\ preg = [call.job EXCEPT !.tagok = IF call.job.dec THEN call.job.tagok ELSE preg.tagok]
  BY DEF PlaneInv, Latched
<1> DEFINE j == call.job
<1>2. j \in Jobs /\ j \in JobType /\ j.dec \in BOOLEAN /\ j.tagok \in BOOLEAN /\ (j.tagok => j.dec)
  BY <1>1, CallFacts DEF PlaneInv
<1>3. preg = [j EXCEPT !.tagok = IF j.dec THEN j.tagok ELSE preg.tagok] /\ decryptR = j.dec
  BY <1>1
<1> HIDE DEF j
<1>4. preg.tagok = IF j.dec THEN j.tagok ELSE preg.tagok
  BY <1>2, <1>3 DEF JobType
<1>5. (decryptR /\ preg.tagok) = j.tagok
  BY <1>2, <1>3, <1>4
<1>6. StartJob = [preg EXCEPT !.dec = j.dec, !.tagok = j.tagok]
  BY <1>3, <1>5 DEF StartJob
<1>7. StartJob = j
  BY <1>2, <1>3, <1>6 DEF JobType
<1> QED  BY <1>2, <1>7 DEF j

-----------------------------------------------------------------------------
(* Facts about words and eight-bit counters.                               *)

LEMMA WordsAreSeqs ==
    ASSUME NEW word \in Word, NEW n \in 0..BeatBytes
    PROVE  /\ SubSeq(word, 1, n) \in Seq(Bytes \cup {Zero}) /\ Len(SubSeq(word, 1, n)) = n
           /\ SubSeq(word, 1, n) = [i \in 1..n |-> word[i]]
<1> DEFINE S == Bytes \cup {Zero}
<1>1. word \in [1..BeatBytes -> S]
  BY DEF Word
<1> HIDE DEF S
<1>2. word \in Seq(S) /\ Len(word) = BeatBytes
  BY <1>1, Sizes, FunctionIsSeq
<1>3. \A i \in 1..n : i \in 1..Len(word)
  BY <1>2, Sizes
<1>4. SubSeq(word, 1, n) \in Seq(S) /\ Len(SubSeq(word, 1, n)) = n
  BY <1>2, <1>3, Sizes, SubSeqProperties
<1>5. SubSeq(word, 1, n) = [i \in 1..n |-> word[i]]
  <2>1. n \in Int /\ SubSeq(word, 1, n) = [i \in 1..(1 + n - 1) |-> word[i + 1 - 1]]
    BY <1>2
  <2>2. \A i \in 1..n : word[i + 1 - 1] = word[i]
    BY <2>1
  <2>3. 1 + n - 1 = n
    BY <2>1
  <2> QED  BY <2>1, <2>2, <2>3
<1> QED  BY <1>4, <1>5 DEF S

LEMMA HeadWord ==
    ASSUME Types, txf # <<>>
    PROVE  Head(txf) \in Word
BY DEF Types

-----------------------------------------------------------------------------
(* One edge of the hardware.                                               *)

ShimOutput == IF ShimValid THEN ShimBeat ELSE NoBeat

Edge ==
    /\ ShimEdge /\ CoreEdge
    /\ \E ready \in BOOLEAN : EngineEdge(startPulse, StartJob, ShimOutput, ready)

LEMMA EngineMoves ==
    ASSUME Edge
    PROVE  /\ est = "IDLE" => ~doneO' /\ IdleEdge(startPulse, StartJob)
           /\ est = "RX" => RxEdge(ShimOutput)
           /\ est' = "RX" => est \in {"IDLE", "RX"}
           /\ doneO' => est = "DONE" /\ est' = "IDLE"
           /\ est' \in EngineStates \/ est' = est
<1>1. CASE IdleEdge(startPulse, StartJob)
  BY <1>1 DEF IdleEdge, EngineStates
<1>2. CASE RxEdge(ShimOutput)
  BY <1>2 DEF RxEdge, EngineStates
<1>3. ASSUME NEW ready, RunEdge \/ BusyEdge \/ WaitEdge \/ TxEdge(ready) \/ DoneEdge
      PROVE  est \notin {"IDLE", "RX"} /\ est' # "RX" /\ (doneO' => est = "DONE" /\ est' = "IDLE")
             /\ (est' \in EngineStates \/ est' = est)
  BY <1>3 DEF RunEdge, BusyEdge, WaitEdge, TxEdge, DoneEdge, EngineStates
<1> QED  BY <1>1, <1>2, <1>3 DEF Edge, EngineEdge

\* The words a beat is cut from are words, so that its bytes are bytes.
LEMMA BeatTyped == ASSUME Types PROVE ShimOutput.bytes \in Seq(Bytes \cup {Zero})
<1>1. CASE ShimValid /\ sst \in {"AD", "MSG"}
  <2>1. Head(txf) \in Word
    BY <1>1, HeadWord DEF ShimValid
  <2>2. KeepN \in 0..BeatBytes
    <3>1. (IF sst = "AD" THEN sad ELSE smsg) - cnt \in Int
      BY Sizes DEF Types
    <3>2. Rem \in 0..255
      BY <3>1 DEF Rem, Wrap8
    <3> QED  BY <3>2, Sizes DEF KeepN
  <2>3. ShimOutput.bytes = SubSeq(Head(txf), 1, KeepN)
    BY <1>1 DEF ShimOutput, ShimBeat, Beat
  <2> QED  BY <2>1, <2>2, <2>3, WordsAreSeqs
<1>2. CASE ~(ShimValid /\ sst \in {"AD", "MSG"})
  <2>1. ShimOutput.bytes = <<>>
    BY <1>2 DEF ShimOutput, ShimValid, ShimBeat, NoBeat, Beat
  <2> QED  BY <2>1, EmptySeq
<1> QED  BY <1>1, <1>2

LEMMA ShimTypes ==
    ASSUME Types, Edge
    PROVE  /\ sst' \in {"IDLE", "AD", "MSG", "NULL"}
           /\ sad' \in 0..AdMax /\ smsg' \in 0..MsgMax /\ cnt' \in 0..255
<1>1. Wrap8(cnt + BeatBytes) \in 0..255
  <2>1. cnt + BeatBytes \in Nat
    BY Sizes DEF Types
  <2> QED  BY <2>1, WrapTyped
<1>2. preg.adlen \in 0..AdMax /\ preg.msglen \in 0..MsgMax
  BY DEF Types, JobType
<1>3. CASE ShimStarts
  BY <1>2, <1>3 DEF Types, ShimStarts, FirstPhase, MsgPhase
<1>4. CASE ShimForwards
  <2>1. UNCHANGED <<sad, smsg>>
    BY <1>4 DEF ShimForwards
  <2>2. sst' \in {sst, "IDLE", MsgPhase(smsg)} /\ cnt' \in {cnt, 0, Wrap8(cnt + BeatBytes)}
    BY <1>4 DEF ShimForwards
  <2>3. MsgPhase(smsg) \in {"MSG", "NULL"}
    BY DEF MsgPhase
  <2>4. cnt \in 0..255 /\ 0 \in 0..255
    BY DEF Types
  <2>5. cnt' \in 0..255
    BY <1>1, <2>2, <2>4, Zenon
  <2> QED  BY <2>1, <2>2, <2>3, <2>5 DEF Types
<1>5. CASE ShimHolds
  BY <1>5 DEF Types, ShimHolds, shimVars
<1> QED  BY <1>3, <1>4, <1>5 DEF Edge, ShimEdge

LEMMA NextSound == ASSUME PlaneInv, Edge PROVE EngineSound'
<1>1. EngineSound /\ Types /\ CoreEdge
  BY DEF PlaneInv, Edge
<1>2. PICK ready \in BOOLEAN : EngineEdge(startPulse, StartJob, ShimOutput, ready)
  BY DEF Edge
<1>3. startPulse /\ est = "IDLE" => StartJob \in Jobs
  BY StartsCall
<1> QED  BY <1>1, <1>2, <1>3, BeatTyped, SoundStep

\* What a register write, or none, does to the registers.
LEMMA RegMoves ==
    ASSUME NEW w, RegEdge(w), tagvR \in BOOLEAN
    PROVE  /\ startPulse' = (w.reg = "start")
           /\ decryptR' = IF w.reg = "start" THEN w.dec ELSE decryptR
           /\ preg' = IF w.reg = "params"
                      THEN [w.job EXCEPT !.tagok = IF w.job.dec THEN w.job.tagok ELSE preg.tagok]
                      ELSE preg
           /\ tagR' = IF doneO THEN res ELSE tagR
           /\ w.reg \in {"start", "clear"} => ~doneR' /\ ~errR'
           /\ w.reg \notin {"start", "clear"} =>
                 /\ doneR' = (doneO \/ doneR)
                 /\ tagvR' = IF doneO THEN ~(decryptR /\ ~validO) ELSE tagvR
                 /\ errR' = ((doneO /\ decryptR /\ ~validO) \/ errR)
                 /\ busyR' = (busyR /\ ~doneO)
           /\ doneR' => w.reg # "start" /\ (doneO \/ doneR) /\ (busyR' => busyR /\ ~doneO)
           /\ w.reg # "start" => (busyR' => busyR)
<1>1. /\ startPulse' = (w.reg = "start")
      /\ decryptR' = IF w.reg = "start" THEN w.dec ELSE decryptR
      /\ preg' = IF w.reg = "params"
                 THEN [w.job EXCEPT !.tagok = IF w.job.dec THEN w.job.tagok ELSE preg.tagok]
                 ELSE preg
      /\ tagR' = IF doneO THEN res ELSE tagR
  BY DEF RegEdge
<1>2. CASE w.reg \in {"start", "clear"}
  BY <1>1, <1>2 DEF RegEdge
<1>3. CASE w.reg \notin {"start", "clear"}
  <2>1. /\ doneR' = (doneO \/ doneR) /\ busyR' = (busyR /\ ~doneO)
        /\ errR' = ((doneO /\ decryptR /\ ~validO) \/ errR)
    BY <1>3 DEF RegEdge
  <2>2. tagvR' = IF doneO THEN ~(decryptR /\ ~validO) ELSE tagvR
    <3>1. CASE doneO
      BY <1>3, <3>1 DEF RegEdge
    <3>2. CASE ~doneO
      BY <1>3, <3>2 DEF RegEdge
    <3> QED  BY <3>1, <3>2
  <2> QED  BY <1>1, <1>3, <2>1, <2>2
<1> QED  BY <1>1, <1>2, <1>3

LEMMA NextRegs ==
    ASSUME PlaneInv, NEW w, RegEdge(w), w.reg = "start" => w.dec \in BOOLEAN
    PROVE  RegTypes'
<1>1. RegTypes /\ EngineTypeOK
  BY DEF PlaneInv, EngineSound, EngineTyped
<1>2. /\ busyR' \in BOOLEAN /\ doneR' \in BOOLEAN /\ tagvR' \in BOOLEAN /\ errR' \in BOOLEAN
  BY DEF RegEdge
<1>3. startPulse' \in BOOLEAN /\ decryptR' \in BOOLEAN
  <2>1. startPulse' = (w.reg = "start") /\ decryptR' = (IF w.reg = "start" THEN w.dec ELSE decryptR)
    BY <1>1, RegMoves DEF RegTypes
  <2>2. startPulse' \in BOOLEAN
    BY <2>1
  <2> QED  BY <1>1, <2>1, <2>2 DEF RegTypes
<1>4. tagR' \in CoreInputs \cup {None}
  BY <1>1, RegMoves DEF RegTypes, EngineTypeOK
<1> QED  BY <1>2, <1>3, <1>4 DEF RegTypes

\* What a beat of the result is called.
LEMMA RxWordTyped == ASSUME PlaneInv, MValid PROVE RxWord \in RxWordType
<1>1. est = "TX" /\ EngineTyped
  BY DEF MValid, PlaneInv, EngineSound
<1>2. res \in CoreInputs /\ txpos \in 0..255
  BY <1>1, Transmitting DEF EngineTyped, EngineTypeOK
<1> QED  BY <1>2 DEF RxWord, RxWordType

-----------------------------------------------------------------------------
(* What the steps are, in terms of the hardware.                           *)

\* The register write of a step.
Written(w) ==
    \/ w = StartWrite(call.job.dec) /\ WriteStart
    \/ w = ParamWrite(call.job) /\ WriteParams
    \/ w = ClearWrite /\ WriteClear
    \/ w = NoWrite /\ ~WriteStart /\ ~WriteParams /\ ~WriteClear

LEMMA Fits ==
    \A a, b, n, d \in Nat : a <= n /\ n <= d /\ b <= 1 /\ (b = 1 => n < d) => a + b <= d
OBVIOUS

\* The hardware's part of a step, for the types.
TypedEdge(w) == Edge /\ RegEdge(w) /\ txf' \in Seq(Word) /\ FifoTypes'

LEMMA HardwareStep ==
    ASSUME PlaneInv, NEW w, NEW pushed \in Seq(Word), Len(pushed) <= 1,
           NEW popped \in 0..Len(rxf), HwEdge(w, pushed, popped)
    PROVE  TypedEdge(w)
<1>1. Edge /\ RegEdge(w)
  <2>1. (Len(rxf) < RxDepth) \in BOOLEAN
    OBVIOUS
  <2> QED  BY <2>1 DEF HwEdge, Edge, ShimOutput
<1>2. Types /\ FifoTypes
  BY DEF PlaneInv
<1>3. txf' \in Seq(Word) /\ Len(txf') <= TxDepth
  <2> DEFINE pulled == IF WordTaken THEN Tail(txf) ELSE txf
             kept   == IF Len(txf) < TxDepth THEN pushed ELSE <<>>
  <2>1. txf' = pulled \o kept
    BY DEF HwEdge
  <2>2. txf \in Seq(Word) /\ Len(txf) \in Nat /\ Len(txf) <= TxDepth /\ TxDepth \in Nat
    BY <1>2, PlaneAssumption, LenProperties DEF Types, FifoTypes
  <2>3. pulled \in Seq(Word) /\ Len(pulled) \in Nat /\ Len(pulled) <= Len(txf)
    <3>1. WordTaken => txf # <<>>
      BY DEF WordTaken, BeatTaken, ShimValid
    <3>2. WordTaken => Tail(txf) \in Seq(Word) /\ Len(Tail(txf)) = Len(txf) - 1 /\ Len(txf) # 0
      BY <2>2, <3>1
    <3> QED  BY <2>2, <3>2
  <2>4. kept \in Seq(Word) /\ Len(kept) \in Nat /\ Len(kept) <= 1
        /\ (Len(kept) = 1 => Len(txf) < TxDepth)
    <3>1. Len(pushed) \in Nat /\ <<>> \in Seq(Word) /\ Len(<<>>) = 0
      BY LenProperties, EmptySeq
    <3> QED  BY <3>1
  <2> HIDE DEF pulled, kept
  <2>5. pulled \o kept \in Seq(Word) /\ Len(pulled \o kept) = Len(pulled) + Len(kept)
    BY <2>3, <2>4, ConcatProperties
  <2>6. Len(pulled) + Len(kept) <= TxDepth
    BY <2>2, <2>3, <2>4, Fits
  <2> QED  BY <2>1, <2>5, <2>6
<1>4. rxf' \in Seq(RxWordType) /\ Len(rxf') <= RxDepth
  <2> DEFINE left == SubSeq(rxf, popped + 1, Len(rxf))
             new  == IF MValid /\ Len(rxf) < RxDepth THEN <<RxWord>> ELSE <<>>
  <2>1. rxf' = left \o new
    BY DEF HwEdge
  <2>2. rxf \in Seq(RxWordType) /\ Len(rxf) \in Nat /\ Len(rxf) <= RxDepth /\ RxDepth \in Nat
    BY <1>2, PlaneAssumption, LenProperties DEF FifoTypes
  <2>3. left \in Seq(RxWordType) /\ Len(left) \in Nat /\ Len(left) <= Len(rxf)
    <3>1. \A i \in popped + 1 .. Len(rxf) : i \in 1..Len(rxf)
      BY <2>2
    <3>2. popped + 1 \in 1 .. Len(rxf) + 1 /\ Len(rxf) \in Int
      BY <2>2
    <3> QED  BY <2>2, <3>1, <3>2, SubSeqProperties
  <2>4. new \in Seq(RxWordType) /\ Len(new) \in Nat /\ Len(new) <= 1
        /\ (Len(new) = 1 => Len(rxf) < RxDepth)
    <3>1. MValid => <<RxWord>> \in Seq(RxWordType) /\ Len(<<RxWord>>) = 1
      BY RxWordTyped
    <3>2. <<>> \in Seq(RxWordType) /\ Len(<<>>) = 0
      BY EmptySeq
    <3> QED  BY <3>1, <3>2
  <2> HIDE DEF left, new
  <2>5. left \o new \in Seq(RxWordType) /\ Len(left \o new) = Len(left) + Len(new)
    BY <2>3, <2>4, ConcatProperties
  <2>6. Len(left) + Len(new) <= RxDepth
    BY <2>2, <2>3, <2>4, Fits
  <2> QED  BY <2>1, <2>5, <2>6
<1> QED  BY <1>1, <1>3, <1>4 DEF TypedEdge, FifoTypes

\* An edge with no access to a FIFO.
LEMMA PlainEdge ==
    ASSUME PlaneInv, NEW w, HwEdge(w, <<>>, 0)
    PROVE  TypedEdge(w)
<1>1. <<>> \in Seq(Word) /\ Len(<<>>) <= 1
  BY EmptySeq
<1>2. 0 \in 0..Len(rxf)
  BY LenProperties DEF PlaneInv, FifoTypes
<1> QED  BY <1>1, <1>2, HardwareStep

\* The setup that empties the FIFOs.
LEMMA FlushEdge ==
    ASSUME PlaneInv, NEW c \in Calls, Call(c)
    PROVE  TypedEdge(NoWrite)
<1>1. CASE SetupFlushes
  <2>1. Edge /\ RegEdge(NoWrite) /\ txf' = <<>> /\ rxf' = <<>>
    BY <1>1 DEF Call, Edge, ShimOutput
  <2>2. FifoTypes' /\ txf' \in Seq(Word)
    BY <2>1, EmptySeq, PlaneAssumption DEF FifoTypes
  <2> QED  BY <2>1, <2>2 DEF TypedEdge
<1>2. CASE ~SetupFlushes
  BY <1>2, PlainEdge DEF Call
<1> QED  BY <1>1, <1>2

\* The DMA's two accesses.
LEMMA DmaEdge ==
    ASSUME PlaneInv, Dma
    PROVE  TypedEdge(NoWrite) /\ dmaq # <<>> /\ Tail(dmaq) \in Seq(Move) /\ dmaq' = Tail(dmaq)
<1>1. /\ dmaq \in Seq(Move) /\ dmaq # <<>> /\ dmaq' = Tail(dmaq) /\ Head(dmaq) \in Move
      /\ Tail(dmaq) \in Seq(Move)
  BY DEF PlaneInv, Types, Dma, DmaTxWord, DmaRxWord, DmaIdle
<1>2. CASE DmaTxWord
  <2>1. Head(dmaq).word \in Word
    BY <1>1, <1>2 DEF DmaTxWord, Move, RxMove
  <2>2. <<Head(dmaq).word>> \in Seq(Word) /\ Len(<<Head(dmaq).word>>) = 1
    BY <2>1
  <2>3. 0 \in 0..Len(rxf)
    BY LenProperties DEF PlaneInv, FifoTypes
  <2> DEFINE pushed == <<Head(dmaq).word>>
  <2>4. HwEdge(NoWrite, pushed, 0) /\ pushed \in Seq(Word) /\ Len(pushed) <= 1
    BY <1>2, <2>2 DEF DmaTxWord
  <2> HIDE DEF pushed
  <2>5. TypedEdge(NoWrite)
    BY <2>3, <2>4, HardwareStep
  <2> QED  BY <1>1, <2>5
<1>3. CASE DmaRxWord
  <2>1. (IF rxf = <<>> THEN 0 ELSE 1) \in 0..Len(rxf)
    BY LenProperties DEF PlaneInv, FifoTypes
  <2>2. <<>> \in Seq(Word) /\ Len(<<>>) <= 1
    BY EmptySeq
  <2>3. HwEdge(NoWrite, <<>>, IF rxf = <<>> THEN 0 ELSE 1)
    BY <1>3 DEF DmaRxWord
  <2>4. TypedEdge(NoWrite)
    BY <2>1, <2>2, <2>3, HardwareStep
  <2> QED  BY <1>1, <2>4
<1> QED  BY <1>1, <1>2, <1>3 DEF Dma

LEMMA Steps ==
    ASSUME PlaneInv, Next
    PROVE  \E w : Written(w) /\ TypedEdge(w)
<1>1. CASE WriteStart
  BY <1>1, PlainEdge DEF WriteStart, DriverWrites, Written
<1>2. CASE WriteParams
  BY <1>2, PlainEdge DEF WriteParams, DriverWrites, Written
<1>3. CASE WriteClear
  BY <1>3, PlainEdge DEF WriteClear, DriverWrites, Written
<1>4. CASE ~WriteStart /\ ~WriteParams /\ ~WriteClear
  <2>1. \/ \E c \in Calls : Call(c)
        \/ Dma
        \/ DmaToSlink \/ DmaTxDone \/ PollDone \/ DmaRxDone \/ Finish \/ Timeout \/ Tick
    BY <1>4 DEF Next, Driver
  <2>2. TypedEdge(NoWrite)
    <3>1. CASE DmaToSlink \/ DmaTxDone \/ PollDone \/ DmaRxDone \/ Finish \/ Timeout \/ Tick
      BY <3>1, PlainEdge DEF DmaToSlink, DmaTxDone, PollDone, DmaRxDone, Finish, Timeout, Tick,
                             Returns
    <3> QED  BY <2>1, <3>1, FlushEdge, DmaEdge
  <2> QED  BY <1>4, <2>2 DEF Written
<1> QED  BY <1>1, <1>2, <1>3, <1>4

-----------------------------------------------------------------------------
(* PlaneInv is inductive.                                                  *)

LEMMA NextLatched == ASSUME PlaneInv, Next PROVE Latched'
<1>1. PICK w : Written(w) /\ TypedEdge(w)
  BY Steps
<1>2. RegEdge(w) /\ Types /\ Latched /\ tagvR \in BOOLEAN
  BY <1>1 DEF TypedEdge, PlaneInv, RegTypes
<1>3. doneR' => ~busyR'
  BY <1>2, RegMoves DEF Latched
<1>4. CASE WriteStart
  <2>1. w = StartWrite(call.job.dec) /\ pc = "start" /\ pc' = "dmatx" /\ call' = call
    BY <1>1, <1>4 DEF Written, WriteStart, WriteParams, WriteClear, DriverWrites
  <2>2. w.reg = "start" /\ w.dec = call.job.dec
    BY <2>1 DEF StartWrite
  <2>3. preg' = preg /\ decryptR' = call.job.dec
    BY <1>2, <2>2, RegMoves
  <2> QED  BY <1>2, <1>3, <2>1, <2>3 DEF Latched
<1>5. CASE WriteParams
  <2>1. w = ParamWrite(call.job) /\ pc = "params" /\ call' = call
    BY <1>1, <1>5 DEF Written, WriteStart, WriteParams, WriteClear
  <2>2. w.reg = "params" /\ w.job = call.job
    BY <2>1 DEF ParamWrite
  <2> DEFINE t == IF call.job.dec THEN call.job.tagok ELSE preg.tagok
  <2>3. preg' = [call.job EXCEPT !.tagok = t] /\ startPulse' = FALSE
    BY <1>2, <2>2, RegMoves
  <2>4. call.job \in JobType
    BY <1>2, <2>1, CallFacts
  <2>5. preg'.tagok = t
    BY <2>3, <2>4 DEF JobType
  <2>6. (IF call.job.dec THEN call.job.tagok ELSE preg'.tagok) = t
    BY <2>5
  <2> QED  BY <1>3, <2>1, <2>3, <2>6 DEF Latched
<1>6. CASE ~WriteStart /\ ~WriteParams
  <2>1. w.reg \in {"none", "clear"}
    BY <1>1, <1>6 DEF Written, NoWrite, ClearWrite
  <2>2. preg' = preg /\ startPulse' = FALSE
    BY <1>2, <2>1, RegMoves
  <2>3. pc' = "start" => pc = "start" /\ call' = call
    BY <1>6 DEF Next, Driver, Dma, Call, WriteClear, DriverWrites, DmaToSlink, DmaTxDone, PollDone,
                DmaRxDone, Finish, Returns, Timeout, Tick, DmaTxWord, DmaRxWord, driverVars
  <2> QED  BY <1>2, <1>3, <2>2, <2>3 DEF Latched
<1> QED  BY <1>4, <1>5, <1>6

LEMMA ParamsTyped == ASSUME PlaneInv, NEW w, Written(w), RegEdge(w) PROVE preg' \in JobType
<1>1. preg \in JobType /\ tagvR \in BOOLEAN /\ Types
  BY DEF PlaneInv, Types, RegTypes
<1>2. CASE w.reg = "params"
  <2>1. w.job = call.job /\ pc = "params"
    BY <1>2 DEF Written, NoWrite, ClearWrite, StartWrite, ParamWrite, WriteParams
  <2>2. call.job \in JobType
    BY <1>1, <2>1, CallFacts
  <2> DEFINE t == IF call.job.dec THEN call.job.tagok ELSE preg.tagok
  <2>3. preg' = [call.job EXCEPT !.tagok = t]
    BY <1>1, <1>2, <2>1, RegMoves
  <2>4. t \in BOOLEAN
    BY <1>1, <2>2 DEF JobType
  <2> QED  BY <2>2, <2>3, <2>4 DEF JobType
<1>3. CASE w.reg # "params"
  BY <1>1, <1>3, RegMoves
<1> QED  BY <1>2, <1>3

\* The words of a payload, and the DMA's moves for them.
LEMMA CeilNat == ASSUME NEW n \in Nat PROVE WordsFor(n) \in Nat
BY Sizes DEF WordsFor

LEMMA PayloadTypes ==
    ASSUME NEW j \in Jobs
    PROVE  /\ WordsFor(j.adlen) \in Nat /\ WordsFor(j.msglen) \in Nat
           /\ TxBuf(j) \in Seq(Word)
           /\ Len(TxBuf(j)) = WordsFor(j.adlen) + WordsFor(j.msglen)
           /\ DOMAIN TxBuf(j) = 1 .. WordsFor(j.adlen) + WordsFor(j.msglen)
           /\ \A k \in 1..WordsFor(j.adlen) : TxBuf(j)[k] = WordOf(j, "ad", j.adlen, k)
           /\ \A k \in 1..WordsFor(j.msglen) :
                 TxBuf(j)[WordsFor(j.adlen) + k] = WordOf(j, "msg", j.msglen, k)
<1> DEFINE a == WordsFor(j.adlen)
           m == WordsFor(j.msglen)
           ads  == [k \in 1..a |-> WordOf(j, "ad", j.adlen, k)]
           msgs == [k \in 1..m |-> WordOf(j, "msg", j.msglen, k)]
<1>1. a \in Nat /\ m \in Nat
  BY JobFacts, Sizes, CeilNat
<1>2. ASSUME NEW k \in Nat \ {0}, NEW s \in {"ad", "msg"}, NEW len
      PROVE  WordOf(j, s, len, k) \in Word
  <2>1. j.id \in Ids
    BY JobFacts
  <2>2. \A i \in 1..BeatBytes : (k - 1) * BeatBytes + (i - 1) \in Nat
    BY EngineAssumption
  <2> QED  BY <2>1, <2>2 DEF WordOf, Word, Bytes
<1> HIDE DEF a, m
<1>3. ads \in [1..a -> Word] /\ msgs \in [1..m -> Word]
  BY <1>1, <1>2
<1>4. /\ ads \in Seq(Word) /\ Len(ads) = a /\ msgs \in Seq(Word) /\ Len(msgs) = m
      /\ \A k \in 1..a : ads[k] = WordOf(j, "ad", j.adlen, k)
      /\ \A k \in 1..m : msgs[k] = WordOf(j, "msg", j.msglen, k)
  BY <1>1, <1>3, FunctionIsSeq
<1>5. TxBuf(j) = ads \o msgs
  BY DEF TxBuf, a, m
<1> HIDE DEF ads, msgs
<1>6. /\ ads \o msgs \in Seq(Word) /\ Len(ads \o msgs) = a + m
      /\ \A i \in 1 .. a + m : (ads \o msgs)[i] = IF i <= a THEN ads[i] ELSE msgs[i - a]
  BY <1>1, <1>4, ConcatProperties
<1>7. \A k \in 1..a : (ads \o msgs)[k] = WordOf(j, "ad", j.adlen, k)
  <2> TAKE k \in 1..a
  <2>1. k \in 1 .. a + m /\ k <= a
    BY <1>1
  <2> QED  BY <1>4, <1>6, <2>1
<1>8. \A k \in 1..m : (ads \o msgs)[a + k] = WordOf(j, "msg", j.msglen, k)
  <2> TAKE k \in 1..m
  <2>1. a + k \in 1 .. a + m /\ ~(a + k <= a) /\ a + k - a = k
    BY <1>1
  <2> QED  BY <1>4, <1>6, <2>1
<1>9. DOMAIN (ads \o msgs) = 1 .. a + m
  BY <1>6, LenProperties
<1> QED  BY <1>1, <1>5, <1>6, <1>7, <1>8, <1>9 DEF a, m

LEMMA MovesTyped ==
    ASSUME NEW j \in Jobs
    PROVE  /\ [k \in DOMAIN TxBuf(j) |-> TxMove(TxBuf(j)[k])] \in Seq(Move)
           /\ \A n \in Nat : [k \in 1..n |-> RxMove] \in Seq(Move)
<1> DEFINE n == WordsFor(j.adlen) + WordsFor(j.msglen)
<1>1. n \in Nat /\ TxBuf(j) \in Seq(Word) /\ DOMAIN TxBuf(j) = 1..n /\ Len(TxBuf(j)) = n
  BY PayloadTypes
<1> HIDE DEF n
<1>2. \A k \in 1..n : TxMove(TxBuf(j)[k]) \in Move
  BY <1>1, ElementOfSeq DEF TxMove, Move
<1>3. [k \in DOMAIN TxBuf(j) |-> TxMove(TxBuf(j)[k])] \in Seq(Move)
  BY <1>1, <1>2, SeqDef
<1>4. \A i \in Nat : [k \in 1..i |-> RxMove] \in Seq(Move)
  BY SeqDef DEF Move
<1> QED  BY <1>3, <1>4

\* A DMA that outlives its call still moves words.
LEMMA AbandonedTyped == ASSUME Types, NEW q \in Abandoned PROVE q \in Seq(Move)
<1>1. dmaq \in Seq(Move) /\ Len(dmaq) \in Nat /\ DOMAIN dmaq = 1..Len(dmaq)
  BY LenProperties DEF Types
<1>2. CASE q = dmaq
  BY <1>1, <1>2
<1>3. CASE q = [k \in DOMAIN dmaq |-> IF dmaq[k].dir = "tx" THEN TxMove(DeadWord) ELSE dmaq[k]]
  <2>1. DeadWord \in Word
    BY DEF DeadWord, Word
  <2>2. TxMove(DeadWord) \in Move
    BY <2>1 DEF TxMove, Move
  <2>3. \A k \in 1..Len(dmaq) : dmaq[k] \in Move
    BY <1>1, ElementOfSeq
  <2>4. \A k \in 1..Len(dmaq) :
           (IF dmaq[k].dir = "tx" THEN TxMove(DeadWord) ELSE dmaq[k]) \in Move
    BY <2>2, <2>3
  <2> QED  BY <1>1, <1>3, <2>4, SeqDef
<1> QED  BY <1>2, <1>3 DEF Abandoned

\* The driver and the DMA.
LEMMA NextDriver ==
    ASSUME PlaneInv, Next
    PROVE  /\ DriverTypes' /\ dmaq' \in Seq(Move)
           /\ pc' \in PCs /\ call' \in Calls \cup {None} /\ (pc' # "returned" => call' \in Calls)
<1> DEFINE Goal == /\ DriverTypes' /\ dmaq' \in Seq(Move)
                   /\ pc' \in PCs /\ call' \in Calls \cup {None}
                   /\ (pc' # "returned" => call' \in Calls)
<1> USE DEF Early
<1>1. Types /\ DriverTypes /\ dmaq \in Seq(Move)
  BY DEF PlaneInv, Types
<1>2. ASSUME NEW c \in Calls, Call(c) PROVE Goal
  <2>1. /\ pc' = "clear" /\ call' = c /\ rxbuf' = <<>> /\ output' = <<>> /\ ret' = "OK"
        /\ UNCHANGED <<dmaq, status, fresh, timeouts>>
    BY <1>2 DEF Call
  <2>2. rxbuf' \in Seq(RxWordType \cup {Junk})
    BY <2>1, EmptySeq
  <2> QED  BY <1>1, <2>1, <2>2 DEF DriverTypes, PCs, Statuses
<1>3. CASE WriteClear \/ WriteParams
  <2>1. /\ pc \in Early /\ pc' \in {"params", "start"}
        /\ UNCHANGED <<dmaq, call, rxbuf, status, output, ret, fresh, timeouts>>
    BY <1>3 DEF WriteClear, WriteParams, DriverWrites
  <2> QED  BY <1>1, <2>1 DEF DriverTypes, PCs, Types
<1>4. CASE WriteStart
  <2>1. /\ pc = "start" /\ pc' = "dmatx"
        /\ UNCHANGED <<dmaq, call, rxbuf, status, output, ret, timeouts>>
    BY <1>4 DEF WriteStart, DriverWrites
  <2>2. fresh' \in BOOLEAN
    BY <1>4 DEF WriteStart
  <2> QED  BY <1>1, <2>1, <2>2 DEF DriverTypes, PCs, Types
<1>5. CASE DmaToSlink
  <2>1. /\ pc = "dmatx" /\ pc' \in {"dmatxwait", "poll"}
        /\ dmaq' = dmaq \o [k \in DOMAIN TxBuf(call.job) |-> TxMove(TxBuf(call.job)[k])]
        /\ UNCHANGED <<call, rxbuf, status, output, ret, fresh, timeouts>>
    BY <1>5 DEF DmaToSlink
  <2>2. call.job \in Jobs
    BY <1>1, <2>1, CallFacts
  <2>3. dmaq' \in Seq(Move)
    BY <1>1, <2>1, <2>2, MovesTyped, ConcatProperties
  <2> QED  BY <1>1, <2>1, <2>3 DEF DriverTypes, PCs, Types
<1>6. CASE DmaTxDone
  BY <1>1, <1>6 DEF DmaTxDone, DriverTypes, PCs, Types
<1>7. CASE PollDone
  <2>1. /\ pc = "poll" /\ pc' \in {"dmarx", "tag"}
        /\ dmaq' \in {dmaq, dmaq \o [k \in 1..WordsFor(call.job.msglen) |-> RxMove]}
        /\ UNCHANGED <<call, rxbuf, output, ret, fresh, timeouts>>
    BY <1>7 DEF PollDone
  <2>2. status' \in [tagv : BOOLEAN, err : BOOLEAN]
    BY <1>7 DEF PollDone, PlaneInv, RegTypes
  <2>3. call.job \in Jobs
    BY <1>1, <2>1, CallFacts
  <2>4. WordsFor(call.job.msglen) \in Nat
    BY <2>3, PayloadTypes
  <2>5. [k \in 1..WordsFor(call.job.msglen) |-> RxMove] \in Seq(Move)
    BY <2>3, <2>4, MovesTyped
  <2>6. dmaq' \in Seq(Move)
    BY <1>1, <2>1, <2>5, ConcatProperties
  <2> QED  BY <1>1, <2>1, <2>2, <2>6 DEF DriverTypes, PCs, Types
<1>8. CASE DmaRxDone
  BY <1>1, <1>8 DEF DmaRxDone, DriverTypes, PCs, Types
<1>9. CASE Finish
  <2>1. /\ pc' = "returned" /\ UNCHANGED <<dmaq, call, rxbuf, status, output, fresh, timeouts>>
        /\ ret' \in Statuses
    BY <1>9 DEF Finish, Returns, Statuses
  <2> QED  BY <1>1, <2>1 DEF DriverTypes, PCs, Types
<1>10. CASE Timeout
  <2>1. /\ pc' = "returned" /\ UNCHANGED <<call, rxbuf, status, output, fresh>>
        /\ ret' = "TIMEOUT" /\ timeouts < MaxTimeouts /\ timeouts' = timeouts + 1
        /\ dmaq' \in Abandoned
    BY <1>10 DEF Timeout, Returns
  <2>2. dmaq' \in Seq(Move)
    BY <1>1, <2>1, AbandonedTyped
  <2>3. timeouts' \in 0..MaxTimeouts
    BY <1>1, <2>1, PlaneAssumption DEF DriverTypes
  <2> QED  BY <1>1, <2>1, <2>2, <2>3 DEF DriverTypes, PCs, Types, Statuses
<1>11. CASE DmaTxWord \/ Tick
  <2>1. UNCHANGED driverVars /\ dmaq' \in Seq(Move)
    BY <1>1, <1>11, DmaEdge DEF DmaTxWord, Tick, Dma
  <2>2. UNCHANGED <<pc, call, rxbuf, status, output, ret, fresh, timeouts>>
    BY <2>1 DEF driverVars
  <2> QED  BY <1>1, <2>1, <2>2 DEF DriverTypes, Types
<1>12. CASE DmaRxWord
  <2>1. /\ UNCHANGED <<pc, call, status, output, ret, fresh, timeouts>>
        /\ rxbuf' = IF pc = "dmarx" THEN Append(rxbuf, IF rxf = <<>> THEN Junk ELSE Head(rxf))
                                    ELSE rxbuf
        /\ dmaq' \in Seq(Move)
    BY <1>1, <1>12, DmaEdge DEF DmaRxWord, Dma
  <2>2. rxbuf' \in Seq(RxWordType \cup {Junk})
    <3>1. rxf # <<>> => Head(rxf) \in RxWordType
      BY DEF PlaneInv, FifoTypes
    <3> DEFINE e == IF rxf = <<>> THEN Junk ELSE Head(rxf)
    <3>2. e \in RxWordType \cup {Junk}
      BY <3>1
    <3> HIDE DEF e
    <3>3. rxbuf' = (IF pc = "dmarx" THEN Append(rxbuf, e) ELSE rxbuf)
      BY <2>1 DEF e
    <3>4. Append(rxbuf, e) \in Seq(RxWordType \cup {Junk})
      BY <1>1, <3>2, AppendProperties DEF DriverTypes
    <3> QED  BY <1>1, <3>3, <3>4 DEF DriverTypes
  <2> QED  BY <1>1, <2>1, <2>2 DEF DriverTypes, Types
<1> QED  BY <1>2, <1>3, <1>4, <1>5, <1>6, <1>7, <1>8, <1>9, <1>10, <1>11, <1>12
         DEF Next, Driver, Dma

LEMMA PlaneStays == PlaneInv /\ UNCHANGED vars => PlaneInv'
<1> SUFFICES ASSUME PlaneInv, UNCHANGED vars PROVE PlaneInv'
  OBVIOUS
<1>1. UNCHANGED axisVars /\ UNCHANGED shimVars /\ UNCHANGED regVars /\ UNCHANGED driverVars
      /\ UNCHANGED <<txf, rxf, dmaq>>
  BY DEF vars, hwVars
<1>2. EngineSound'
  BY <1>1, SoundStays DEF PlaneInv
<1>3. /\ UNCHANGED est /\ UNCHANGED <<sst, sad, smsg, cnt>>
      /\ UNCHANGED <<preg, decryptR, startPulse, busyR, doneR, tagR, tagvR, errR>>
      /\ UNCHANGED <<pc, call, rxbuf, status, output, ret, fresh, timeouts>>
  BY <1>1 DEF axisVars, engineVars, shimVars, regVars, driverVars
<1>4. Types' /\ Latched'
  BY <1>1, <1>3 DEF PlaneInv, Types, Latched
<1>5. RegTypes' /\ FifoTypes' /\ DriverTypes'
  BY <1>1, <1>3 DEF PlaneInv, RegTypes, FifoTypes, DriverTypes
<1> QED  BY <1>2, <1>4, <1>5 DEF PlaneInv

LEMMA NextPlane == PlaneInv /\ [Next]_vars => PlaneInv'
<1>1. ASSUME PlaneInv, Next PROVE PlaneInv'
  <2>1. PICK w : Written(w) /\ TypedEdge(w)
    BY <1>1, Steps
  <2>2. Edge /\ RegEdge(w) /\ txf' \in Seq(Word) /\ FifoTypes' /\ Types
    BY <1>1, <2>1 DEF TypedEdge, PlaneInv
  <2>3. EngineSound'
    BY <1>1, <2>2, NextSound
  <2>4. preg' \in JobType
    BY <1>1, <2>1, <2>2, ParamsTyped
  <2>5. RegTypes'
    <3>1. w.reg = "start" => w.dec \in BOOLEAN
      <4> SUFFICES ASSUME w.reg = "start" PROVE w.dec \in BOOLEAN
        OBVIOUS
      <4>1. w = StartWrite(call.job.dec) /\ pc = "start"
        BY <2>1 DEF Written, NoWrite, ClearWrite, ParamWrite, WriteStart
      <4>2. call.job.dec \in BOOLEAN
        BY <2>2, <4>1, CallFacts
      <4> QED  BY <4>1, <4>2 DEF StartWrite
    <3> QED  BY <1>1, <2>2, <3>1, NextRegs
  <2>6. est' \in EngineStates
    BY <2>2, EngineMoves DEF Types
  <2>7. Types' /\ DriverTypes'
    BY <1>1, <2>2, <2>4, <2>6, ShimTypes, NextDriver DEF Types
  <2> QED  BY <1>1, <2>2, <2>3, <2>5, <2>7, NextLatched DEF PlaneInv
<1> QED  BY <1>1, PlaneStays

\* The types, for any number of calls that give up: the FIFOs never hold more
\* words than they are deep, and the engine is only ever started with a call's
\* job (rtl/soc/ascon_slink_shim.v, ascon_aead128_slink_mmio.v,
\* firmware/ascon_slink/ascon_slink.c).
THEOREM TypeCorrect == Spec => []TypeOK
<1>1. PlaneInv => TypeOK
  <2> SUFFICES ASSUME PlaneInv PROVE TypeOK
    OBVIOUS
  <2>1. \A k \in DOMAIN dmaq : dmaq[k] = RxMove \/ dmaq[k] \in [dir : {"tx"}, word : Word]
    <3>1. dmaq \in Seq(Move)
      BY DEF PlaneInv, Types
    <3>2. \A k \in DOMAIN dmaq : dmaq[k] \in Move
      BY <3>1, ElementOfSeq, LenProperties
    <3> QED  BY <3>2 DEF Move
  <2>2. pc # "returned" => call # None
    BY PlaneAssumption DEF PlaneInv, Types
  <2>3. EngineTypeOK
    BY DEF PlaneInv, EngineSound, EngineTyped
  <2> QED  BY <2>1, <2>2, <2>3
           DEF PlaneInv, Types, RegTypes, FifoTypes, DriverTypes, TypeOK, PCs
<1> QED  BY <1>1, InitPlane, NextPlane, PTL DEF Spec

-----------------------------------------------------------------------------
(* Shim and engine, started together, stay together.                       *)

\* While the shim is in a segment it has bytes left, and says how many.
LEMMA RemLeft ==
    ASSUME Types, ShimInStep, sst \in {"AD", "MSG"}
    PROVE  /\ Rem = (IF sst = "AD" THEN sad ELSE smsg) - cnt
           /\ Rem \in 1..255 /\ cnt + Rem < 256 /\ KeepN \in 0..BeatBytes /\ KeepN <= Rem
           /\ Rem > BeatBytes => KeepN = BeatBytes
           /\ ~(Rem > BeatBytes) => KeepN = Rem
<1> DEFINE len == IF sst = "AD" THEN sad ELSE smsg
<1>1. len \in 0..255 /\ cnt \in 0..255 /\ cnt < len
  <2>1. cnt \in 0..255 /\ sad \in 0..AdMax /\ smsg \in 0..MsgMax
    BY DEF Types
  <2>2. sad \in 0..255 /\ smsg \in 0..255
    BY <2>1, EngineAssumption
  <2>3. cnt < len
    BY DEF ShimInStep
  <2> QED  BY <2>1, <2>2, <2>3
<1>2. Rem = Wrap8(len - cnt)
  BY DEF Rem
<1> HIDE DEF len
<1>3. len - cnt \in 1..255 /\ len - cnt \in 0..255
  BY <1>1
<1>4. Rem = len - cnt
  BY <1>2, <1>3, Wraps
<1>5. KeepN = IF Rem >= BeatBytes THEN BeatBytes ELSE Rem
  BY DEF KeepN
<1>6. BeatBytes \in Nat \ {0}
  BY EngineAssumption
<1>7. /\ Rem \in 1..255 /\ cnt + Rem < 256 /\ KeepN \in 0..BeatBytes /\ KeepN <= Rem
      /\ Rem > BeatBytes => KeepN = BeatBytes
      /\ ~(Rem > BeatBytes) => KeepN = Rem
  BY <1>1, <1>3, <1>4, <1>5, <1>6
<1> QED  BY <1>4, <1>7 DEF len

\* What the shim's beat does to the engine.
LEMMA BeatLength ==
    ASSUME Types, ShimInStep, sst \in {"AD", "MSG"}, ShimValid
    PROVE  /\ Len(ShimOutput.bytes) = KeepN
           /\ ShimOutput.user = IF sst = "AD" THEN 0 ELSE 1
           /\ sst = "AD" => ~ShimOutput.last
           /\ sst = "MSG" => ShimOutput.last = (Rem <= BeatBytes)
<1>1. Head(txf) \in Word /\ KeepN \in 0..BeatBytes
  <2>1. txf # <<>>
    BY DEF ShimValid
  <2> QED  BY <2>1, HeadWord, RemLeft
<1>2. Len(SubSeq(Head(txf), 1, KeepN)) = KeepN
  BY <1>1, WordsAreSeqs
<1>3. CASE sst = "AD"
  BY <1>2, <1>3 DEF ShimOutput, ShimBeat, Beat
<1>4. CASE sst = "MSG"
  <2>1. ShimOutput = Beat(SubSeq(Head(txf), 1, KeepN), 1, Rem <= BeatBytes)
    BY <1>4 DEF ShimOutput, ShimBeat
  <2>2. /\ ShimOutput.bytes = SubSeq(Head(txf), 1, KeepN) /\ ShimOutput.user = 1
        /\ ShimOutput.last = (Rem <= BeatBytes)
    BY <2>1 DEF Beat
  <2> QED  BY <1>2, <1>4, <2>2
<1> QED  BY <1>3, <1>4

\* The pulse that starts both.
LEMMA StartStep ==
    ASSUME Types, ShimInStep, Edge, est = "IDLE", startPulse
    PROVE  ShimInStep'
<1>1. sst = "IDLE" /\ ~ShimValid
  BY DEF ShimInStep, ShimValid
<1>2. /\ est' = "RX" /\ job' = StartJob /\ adpos' = 0 /\ msgpos' = 0
  BY EngineMoves DEF IdleEdge
<1>3. /\ sad' = preg.adlen /\ smsg' = preg.msglen /\ cnt' = 0
      /\ sst' = FirstPhase(preg.adlen, preg.msglen)
  BY <1>1 DEF Edge, ShimEdge, ShimStarts, ShimForwards, ShimHolds, BeatTaken
<1>4. StartJob.adlen = preg.adlen /\ StartJob.msglen = preg.msglen
  BY DEF Types, JobType, StartJob
<1>5. preg.adlen \in Nat /\ preg.msglen \in Nat
  BY EngineAssumption DEF Types, JobType
<1> QED  BY <1>2, <1>3, <1>4, <1>5 DEF ShimInStep, FirstPhase, MsgPhase

\* Both rest, or the engine alone works.
LEMMA IdleStep ==
    ASSUME Types, ShimInStep, Edge, sst = "IDLE", ~startPulse
    PROVE  ShimInStep' /\ UNCHANGED shimVars
<1>1. ~BeatTaken /\ est # "RX"
  BY DEF ShimInStep, BeatTaken, ShimValid
<1>2. UNCHANGED shimVars
  BY <1>1 DEF Edge, ShimEdge, ShimStarts, ShimForwards, ShimHolds
<1>3. est' # "RX"
  BY <1>1, EngineMoves DEF IdleEdge
<1> QED  BY <1>2, <1>3 DEF shimVars, ShimInStep

\* A beat of a segment that is not its last word, or is.
LEMMA WordStep ==
    ASSUME Types, ShimInStep, Edge, sst \in {"AD", "MSG"}, ShimValid, ~startPulse
    PROVE  ShimInStep'
<1>1. est = "RX" /\ BeatTaken
  BY DEF ShimInStep, BeatTaken, SReady
<1>2. /\ sad' = sad /\ smsg' = smsg
      /\ IF Rem > BeatBytes THEN cnt' = Wrap8(cnt + BeatBytes) /\ sst' = sst
         ELSE IF sst = "AD" THEN cnt' = 0 /\ sst' = MsgPhase(smsg)
         ELSE sst' = "IDLE"
  BY <1>1 DEF Edge, ShimEdge, ShimStarts, ShimForwards, ShimHolds
<1>3. /\ job' = job
      /\ adpos' = IF sst = "AD" THEN Wrap8(adpos + KeepN) ELSE adpos
      /\ msgpos' = IF sst = "AD" THEN msgpos ELSE Wrap8(msgpos + KeepN)
      /\ est' = IF sst = "MSG" /\ Rem <= BeatBytes THEN "RUN" ELSE "RX"
  <2>1. RxEdge(ShimOutput)
    BY <1>1, EngineMoves
  <2>2. CASE sst = "AD"
    BY <2>1, <2>2, BeatLength DEF RxEdge
  <2>3. CASE sst = "MSG"
    <3>1. /\ Len(ShimOutput.bytes) = KeepN /\ ShimOutput.user = 1
          /\ ShimOutput.last = (Rem <= BeatBytes)
      BY <2>3, BeatLength
    <3>2. /\ job' = job /\ adpos' = adpos /\ msgpos' = Wrap8(msgpos + KeepN)
          /\ est' = IF ShimOutput.last /\ ShimOutput.user = 1 THEN "RUN" ELSE "RX"
      BY <2>1, <3>1 DEF RxEdge
    <3> QED  BY <2>3, <3>1, <3>2
  <2> QED  BY <2>2, <2>3
<1>4. BeatBytes \in Nat \ {0} /\ cnt \in 0..255 /\ sad \in Nat /\ smsg \in Nat
  BY EngineAssumption DEF Types
<1>5. CASE Rem > BeatBytes
  <2>1. /\ cnt + BeatBytes \in 0..255 /\ KeepN = BeatBytes
        /\ cnt + BeatBytes < IF sst = "AD" THEN sad ELSE smsg
    BY <1>4, <1>5, RemLeft
  <2>2. cnt' = cnt + BeatBytes /\ sst' = sst
    BY <1>2, <1>5, <2>1, Wraps
  <2>3. est' = "RX"
    BY <1>3, <1>4, <1>5, RemLeft
  <2>4. CASE sst = "AD"
    BY <1>2, <1>3, <2>1, <2>2, <2>3, <2>4, Wraps DEF ShimInStep
  <2>5. CASE sst = "MSG"
    BY <1>2, <1>3, <2>1, <2>2, <2>3, <2>5, Wraps DEF ShimInStep
  <2> QED  BY <2>4, <2>5
<1>6. CASE ~(Rem > BeatBytes) /\ sst = "AD"
  <2>1. adpos' = sad /\ msgpos' = 0 /\ est' = "RX"
    <3>1. cnt + KeepN = sad /\ sad \in 0..255
      <4>1. KeepN = sad - cnt
        BY <1>6, RemLeft
      <4>2. sad \in 0..255
        BY EngineAssumption DEF Types
      <4> QED  BY <1>4, <4>1, <4>2
    <3>2. adpos' = Wrap8(cnt + KeepN) /\ msgpos' = 0
      BY <1>3, <1>6 DEF ShimInStep
    <3> QED  BY <1>3, <1>6, <3>1, <3>2, Wraps
  <2>2. cnt' = 0 /\ sst' = MsgPhase(smsg)
    BY <1>2, <1>6
  <2> QED  BY <1>2, <1>3, <1>4, <1>6, <2>1, <2>2 DEF ShimInStep, MsgPhase
<1>7. CASE ~(Rem > BeatBytes) /\ sst = "MSG"
  <2>1. est' = "RUN"
    BY <1>3, <1>4, <1>7, RemLeft
  <2> QED  BY <1>2, <1>7, <2>1 DEF ShimInStep
<1> QED  BY <1>5, <1>6, <1>7

\* The beat that stands for an empty message.
LEMMA NullStep ==
    ASSUME Types, ShimInStep, Edge, sst = "NULL", ~startPulse
    PROVE  ShimInStep'
<1>1. est = "RX" /\ BeatTaken /\ ShimValid
  BY DEF ShimInStep, BeatTaken, SReady, ShimValid
<1>2. sst' = "IDLE"
  BY <1>1 DEF Edge, ShimEdge, ShimStarts, ShimForwards, ShimHolds
<1>3. est' = "RUN"
  BY <1>1, EngineMoves DEF RxEdge, ShimOutput, ShimBeat, Beat
<1> QED  BY <1>2, <1>3 DEF ShimInStep

\* The shim waits for a word.
LEMMA WaitStep ==
    ASSUME Types, ShimInStep, Edge, sst \in {"AD", "MSG"}, ~ShimValid, ~startPulse
    PROVE  ShimInStep'
<1>1. est = "RX" /\ ~BeatTaken
  BY DEF ShimInStep, BeatTaken
<1>2. UNCHANGED shimVars
  BY <1>1 DEF Edge, ShimEdge, ShimStarts, ShimForwards, ShimHolds
<1>3. est' = "RX" /\ adpos' = adpos /\ msgpos' = msgpos /\ job' = job
  BY <1>1, EngineMoves DEF RxEdge, ShimOutput, NoBeat, Beat
<1> QED  BY <1>1, <1>2, <1>3 DEF shimVars, ShimInStep

LEMMA EdgeInStep ==
    ASSUME Types, ShimInStep, Edge, startPulse => est = "IDLE"
    PROVE  ShimInStep'
<1>1. startPulse => est = "IDLE" /\ sst = "IDLE"
  BY DEF ShimInStep
<1> QED  BY <1>1, StartStep, IdleStep, WordStep, NullStep, WaitStep DEF Types

-----------------------------------------------------------------------------
(* As long as no call gives up, START finds shim and engine at rest.       *)

\* Nothing is under way in the engine, and no pulse to or from it.
AtRest == est = "IDLE" /\ ~startPulse /\ ~doneO

Idling == PCs \ {"dmatx", "dmatxwait", "poll"}

\* The driver writes START only when the operation before is over.
Turns ==
    /\ doneR => AtRest
    /\ doneO => est = "IDLE" /\ ~startPulse
    /\ startPulse => est = "IDLE"
    /\ pc \in Idling => AtRest

StepInv == PlaneInv /\ Turns /\ ShimInStep /\ timeouts = 0

LEMMA InitStep == Init => StepInv
<1> SUFFICES ASSUME Init PROVE StepInv  OBVIOUS
<1> QED  BY InitPlane DEF Init, EngineInit, StepInv, Turns, AtRest, ShimInStep

\* The driver leaves its waits only after DONE.
LEMMA DriverMoves ==
    ASSUME Next, pc \in PCs, MaxTimeouts = 0, timeouts = 0
    PROVE  /\ timeouts' = 0
           /\ pc' \in Idling => ~WriteStart /\ (pc \in Idling \/ doneR)
           /\ WriteStart => pc = "start" /\ pc' = "dmatx"
<1>1. ~Timeout
  BY DEF Timeout
<1>2. CASE WriteStart
  BY <1>2 DEF WriteStart, DriverWrites, Idling
<1>3. CASE ~WriteStart
  <2>1. \/ \E c \in Calls : Call(c)
        \/ WriteClear \/ WriteParams \/ DmaToSlink \/ DmaTxDone \/ PollDone \/ DmaRxDone \/ Finish
        \/ DmaTxWord \/ DmaRxWord \/ Tick
    BY <1>1, <1>3 DEF Next, Driver, Dma
  <2>2. timeouts' = 0
    BY <2>1 DEF Call, WriteClear, WriteParams, DmaToSlink, DmaTxDone, PollDone, DmaRxDone, Finish,
                DmaTxWord, DmaRxWord, Tick, driverVars
  <2>3. pc' \in Idling => pc \in Idling \/ doneR
    BY <2>1 DEF Call, WriteClear, WriteParams, DriverWrites, DmaToSlink, DmaTxDone, PollDone,
                DmaRxDone, Finish, DmaTxWord, DmaRxWord, Tick, driverVars, Idling, PCs
  <2> QED  BY <1>3, <2>2, <2>3
<1> QED  BY <1>2, <1>3

LEMMA NextStep == MaxTimeouts = 0 /\ StepInv /\ [Next]_vars => StepInv'
<1> SUFFICES ASSUME MaxTimeouts = 0, StepInv, [Next]_vars PROVE StepInv'  OBVIOUS
<1>1. PlaneInv'
  BY NextPlane DEF StepInv
<1>2. CASE UNCHANGED vars
  <2>1. Turns' /\ ShimInStep' /\ timeouts' = 0
    BY <1>2 DEF vars, hwVars, axisVars, engineVars, shimVars, regVars, driverVars, StepInv,
                Turns, AtRest, ShimInStep
  <2> QED  BY <1>1, <2>1 DEF StepInv
<1>3. CASE Next
  <2>1. PICK w : Written(w) /\ TypedEdge(w)
    BY <1>3, Steps DEF StepInv
  <2>2. Edge /\ RegEdge(w) /\ Types /\ Turns /\ ShimInStep /\ tagvR \in BOOLEAN /\ pc \in PCs
    BY <2>1 DEF TypedEdge, StepInv, PlaneInv, RegTypes, Types
  <2>3. timeouts' = 0 /\ (pc' \in Idling => ~WriteStart /\ (pc \in Idling \/ doneR))
        /\ (WriteStart => pc = "start" /\ pc' = "dmatx")
    BY <1>3, <2>2, DriverMoves DEF StepInv
  <2>4. ShimInStep'
    BY <2>2, EdgeInStep DEF Turns
  <2>5. (w.reg = "start") => WriteStart
    BY <2>1 DEF Written, NoWrite, ClearWrite, ParamWrite
  <2>6. startPulse' = (w.reg = "start") /\ (doneR' => w.reg # "start" /\ (doneO \/ doneR))
    BY <2>2, RegMoves
  <2>7. est = "IDLE" => ~doneO' /\ est' = (IF startPulse THEN "RX" ELSE "IDLE")
    BY <2>2, EngineMoves DEF IdleEdge
  <2>8. AtRest /\ w.reg # "start" => AtRest'
    BY <2>6, <2>7 DEF AtRest
  <2>9. WriteStart => AtRest
    BY <2>2, <2>3 DEF Turns, Idling, PCs
  <2>10. doneR' => AtRest'
    <3>1. doneO => est' = "IDLE" /\ ~doneO'
      BY <2>2, <2>7 DEF Turns
    <3> QED  BY <2>2, <2>6, <2>8, <3>1 DEF Turns, AtRest
  <2>11. doneO' => est' = "IDLE" /\ ~startPulse'
    <3> SUFFICES ASSUME doneO' PROVE est' = "IDLE" /\ ~startPulse'
      OBVIOUS
    <3>1. est = "DONE" /\ est' = "IDLE"
      BY <2>2, EngineMoves
    <3> QED  BY <2>5, <2>6, <2>9, <3>1 DEF AtRest
  <2>12. startPulse' => est' = "IDLE"
    BY <2>5, <2>6, <2>7, <2>9 DEF AtRest
  <2>13. pc' \in Idling => AtRest'
    BY <2>2, <2>3, <2>5, <2>8 DEF Turns
  <2>14. Turns'
    BY <2>10, <2>11, <2>12, <2>13 DEF Turns
  <2> QED  BY <1>1, <2>3, <2>4, <2>14 DEF StepInv
<1> QED  BY <1>2, <1>3

\* As long as no call gave up: shim and engine agree on where in the payload
\* they are at every edge, so that no word is pulled that the engine does not
\* take (rtl/soc/ascon_slink_shim.v, ascon_aead128_axis.v).
THEOREM ShimStaysInStep == MaxTimeouts = 0 => (Spec => []ShimInStep)
<1> SUFFICES ASSUME MaxTimeouts = 0 PROVE Spec => []ShimInStep
  OBVIOUS
<1>1. Init => StepInv
  BY InitStep
<1>2. StepInv /\ [Next]_vars => StepInv'
  BY NextStep
<1>3. StepInv => ShimInStep
  BY DEF StepInv
<1> QED  BY <1>1, <1>2, <1>3, PTL DEF Spec

\* As long as no call gave up: the engine receives whenever a beat arrives,
\* which is what writing START before the payload is for
\* (firmware/ascon_slink/ascon_slink.c).
THEOREM ReadyForEveryBeat == MaxTimeouts = 0 => (Spec => []ReadyBeforeBeats)
<1> SUFFICES ASSUME MaxTimeouts = 0 PROVE Spec => []ReadyBeforeBeats
  OBVIOUS
<1>1. ShimInStep => ReadyBeforeBeats
  BY DEF ShimInStep, ReadyBeforeBeats, ShimValid, SReady
<1> QED  BY <1>1, ShimStaysInStep, PTL
-----------------------------------------------------------------------------
(* Words and bytes of a segment.                                           *)

LEMMA Multiples ==
    ASSUME NEW a \in Nat, NEW b \in Nat, a < b
    PROVE  a * BeatBytes + BeatBytes <= b * BeatBytes
<1>1. PICK d \in Nat : b = a + 1 + d
  <2>1. b - a - 1 \in Nat /\ b = a + 1 + (b - a - 1)
    OBVIOUS
  <2> QED  BY <2>1
<1>2. b * BeatBytes = a * BeatBytes + BeatBytes + d * BeatBytes
  BY <1>1, Sizes
<1>3. d * BeatBytes >= 0
  BY Sizes
<1>4. a * BeatBytes \in Nat /\ b * BeatBytes \in Nat /\ d * BeatBytes \in Nat
  BY Sizes
<1> QED  BY <1>2, <1>3, <1>4, Sizes

\* The words of n bytes are those that begin within them.
LEMMA Ceil ==
    ASSUME NEW n \in Nat, NEW k \in Nat
    PROVE  /\ WordsFor(n) \in Nat
           /\ k < WordsFor(n) <=> k * BeatBytes < n
<1> DEFINE q == WordsFor(n)
           p == q * BeatBytes
<1>1. q \in Nat /\ p \in Nat /\ p <= n + BeatBytes - 1 /\ n + BeatBytes - 1 < p + BeatBytes
  BY Sizes DEF WordsFor
<1>2. k * BeatBytes \in Nat
  BY Sizes
<1>3. CASE k < q
  <2>1. k * BeatBytes + BeatBytes <= q * BeatBytes
    BY <1>1, <1>3, Multiples
  <2> QED  BY <1>1, <1>2, <1>3, <2>1, Sizes
<1>4. CASE ~(k < q)
  <2>1. q = k \/ q < k
    BY <1>1, <1>4
  <2>2. p <= k * BeatBytes
    <3>1. CASE q = k
      BY <3>1, <1>1
    <3>2. CASE q < k
      BY <3>2, <1>1, <1>2, Multiples, Sizes
    <3> QED  BY <2>1, <3>1, <3>2
  <2> QED  BY <1>1, <1>2, <1>4, <2>2, Sizes
<1> QED  BY <1>1, <1>3, <1>4

\* Byte position p = k * BeatBytes is the start of word k + 1.  With more than
\* a word left there is another one after it, with less it is the last.
LEMMA NextWord ==
    ASSUME NEW n \in Nat, NEW k \in Nat, NEW p, p = k * BeatBytes, p < n
    PROVE  /\ p \in Nat /\ k < WordsFor(n) /\ p + BeatBytes = (k + 1) * BeatBytes
           /\ n - p > BeatBytes => k + 1 < WordsFor(n)
           /\ ~(n - p > BeatBytes) => k + 1 = WordsFor(n)
<1>1. p \in Nat /\ p + BeatBytes = (k + 1) * BeatBytes
  BY Sizes
<1>2. WordsFor(n) \in Nat /\ k < WordsFor(n) /\ (k + 1 < WordsFor(n) <=> p + BeatBytes < n)
  BY <1>1, Ceil
<1> QED  BY <1>1, <1>2, Sizes

LEMMA NoWords == WordsFor(0) = 0 /\ 0 * BeatBytes = 0
<1>1. 0 * BeatBytes = 0
  BY Sizes
<1>2. WordsFor(0) \in Nat /\ ~(0 < WordsFor(0))
  BY <1>1, Ceil
<1> QED  BY <1>1, <1>2

LEMMA SomeWords == ASSUME NEW n \in Nat, n # 0 PROVE WordsFor(n) \in Nat /\ 0 < WordsFor(n)
<1>1. 0 * BeatBytes = 0
  BY Sizes
<1> QED  BY <1>1, Ceil

-----------------------------------------------------------------------------
(* The call's payload on its way: of its words, n have been pulled by the  *)
(* shim and m written by the DMA.                                          *)

PayloadLen(j) == WordsFor(j.adlen) + WordsFor(j.msglen)

\* Where the shim is after n words.
Pulled(n) ==
    /\ startPulse => n = 0
    /\ ~startPulse /\ sst = "AD" => n < WordsFor(call.job.adlen) /\ cnt = n * BeatBytes
    /\ ~startPulse /\ sst = "MSG" =>
          /\ WordsFor(call.job.adlen) <= n /\ n < PayloadLen(call.job)
          /\ cnt = (n - WordsFor(call.job.adlen)) * BeatBytes
    /\ ~startPulse /\ sst \in {"NULL", "IDLE"} => n = PayloadLen(call.job)

\* The shim pulls at every edge, so there is never more than one word waiting.
Stored(n, m) ==
    \/ m = n /\ txf = <<>>
    \/ m = n + 1 /\ txf = <<TxBuf(call.job)[m]>>

ToSend(m) == [k \in 1..(PayloadLen(call.job) - m) |-> TxMove(TxBuf(call.job)[m + k])]

\* Where driver and DMA are after m words.
Sent(m) ==
    /\ pc = "dmatx" => m = 0 /\ dmaq = <<>>
    /\ pc = "dmatxwait" => dmaq = ToSend(m)
    /\ pc \in {"poll", "dmarx", "tag"} => m = PayloadLen(call.job)
    /\ pc \in {"poll", "tag"} => dmaq = <<>>
    /\ pc = "dmarx" => dmaq \in Seq({RxMove})

Genuine(j) == j.dec => j.tagok

\* The status registers after DONE.
Answer ==
    /\ tagR = Ideal(call.job)
    /\ tagvR = Genuine(call.job) /\ errR = ~Genuine(call.job)

\* The engine is about to start, at work on, or done with the call's job.
OwnJob ==
    /\ startPulse \/ HasJob \/ doneR
    /\ startPulse => est = "IDLE" /\ ~doneO /\ ~doneR
    /\ HasJob => job = call.job /\ ~startPulse /\ ~doneR
    /\ doneR => Answer
    /\ ~doneR => ~errR
    /\ decryptR = call.job.dec
    /\ pc \in {"dmarx", "tag"} =>
          doneR /\ status = [tagv |-> Genuine(call.job), err |-> ~Genuine(call.job)]

Flow == \E n, m \in 0..PayloadLen(call.job) : Pulled(n) /\ Stored(n, m) /\ Sent(m)

Sends == EngineOwn /\ ShimInStep /\ OwnJob /\ Flow

\* What is kept of a word is what is left of the segment, or all of it.
LEMMA KeepLeft ==
    ASSUME Types, ShimInStep, sst \in {"AD", "MSG"}, NEW len,
           len = IF sst = "AD" THEN sad ELSE smsg
    PROVE  /\ cnt \in Nat /\ len \in Nat /\ KeepN \in Nat /\ KeepN \in 0..BeatBytes
           /\ cnt < len /\ KeepN <= len - cnt
           /\ (Rem <= BeatBytes) = (len - cnt <= BeatBytes)
           /\ KeepN = IF len - cnt <= BeatBytes THEN len - cnt ELSE BeatBytes
<1>1. cnt \in Nat /\ len \in Nat
  <2>1. sad \in 0..AdMax /\ smsg \in 0..MsgMax /\ cnt \in 0..255
    BY DEF Types
  <2> QED  BY <2>1, Sizes
<1>2. /\ Rem = len - cnt /\ Rem \in 1..255 /\ KeepN \in 0..BeatBytes /\ KeepN <= Rem
      /\ Rem > BeatBytes => KeepN = BeatBytes
      /\ ~(Rem > BeatBytes) => KeepN = Rem
  BY RemLeft
<1> QED  BY <1>1, <1>2, Sizes

LEMMA Within == ASSUME NEW p \in Nat, NEW k \in Nat, NEW n \in Nat, k <= n - p
                PROVE  p + k <= n /\ \A i \in 1..k : p + (i - 1) < n
OBVIOUS

\* Byte i of word w of a segment.
LEMMA WordAt ==
    ASSUME NEW j, NEW seg, NEW len, NEW w, NEW i \in 1..BeatBytes,
           (w - 1) * BeatBytes + (i - 1) < len
    PROVE  WordOf(j, seg, len, w)[i] = <<j.id, seg, (w - 1) * BeatBytes + (i - 1)>>
<1> DEFINE at(x) == (w - 1) * BeatBytes + (x - 1)
           byte(x) == IF at(x) < len THEN <<j.id, seg, at(x)>> ELSE Zero
<1>1. WordOf(j, seg, len, w) = [x \in 1..BeatBytes |-> byte(x)]
  BY DEF WordOf
<1>2. byte(i) = <<j.id, seg, (w - 1) * BeatBytes + (i - 1)>>
  OBVIOUS
<1> HIDE DEF byte
<1> QED  BY <1>1, <1>2

\* In a segment, the next word is the payload's from where the engine is.
LEMMA NextBytes ==
    ASSUME PlaneInv, Sends, sst \in {"AD", "MSG"}, ShimValid, ~startPulse
    PROVE  /\ job = call.job /\ est = "RX"
           /\ sst = "AD" => /\ adpos = cnt /\ sad = job.adlen
                            /\ SubSeq(Head(txf), 1, KeepN) =
                                  [i \in 1..KeepN |-> AdByte(job, adpos + (i - 1))]
           /\ sst = "MSG" => /\ msgpos = cnt /\ smsg = job.msglen /\ adpos = job.adlen
                             /\ SubSeq(Head(txf), 1, KeepN) =
                                   [i \in 1..KeepN |-> MsgByte(job, msgpos + (i - 1))]
<1>1. Types /\ ShimInStep /\ OwnJob
  BY DEF PlaneInv, Sends
<1>2. est = "RX" /\ txf # <<>>
  BY <1>1 DEF ShimInStep, ShimValid
<1>3. job = call.job
  BY <1>1, <1>2 DEF OwnJob, HasJob
<1>4. PICK n \in 0..PayloadLen(call.job), m \in 0..PayloadLen(call.job) :
         Pulled(n) /\ Stored(n, m)
  BY DEF Sends, Flow
<1>5. job \in Jobs /\ job.adlen \in Nat /\ job.msglen \in Nat
  <2>1. job \in Jobs
    BY <1>2 DEF PlaneInv, EngineSound, EngineTyped
  <2> QED  BY <2>1, JobFacts, Sizes
<1>6. Head(txf) = TxBuf(job)[n + 1] /\ Head(txf) \in Word
  BY <1>1, <1>2, <1>3, <1>4, HeadWord DEF Stored
<1>7. KeepN \in 0..BeatBytes /\ KeepN \in Nat /\ cnt \in Nat
      /\ KeepN <= (IF sst = "AD" THEN sad ELSE smsg) - cnt
  BY <1>1, KeepLeft
<1>8. SubSeq(Head(txf), 1, KeepN) = [i \in 1..KeepN |-> Head(txf)[i]]
  BY <1>6, <1>7, WordsAreSeqs
<1>9. \A i \in 1..KeepN : i \in 1..BeatBytes
  BY <1>7, Sizes
<1>10. WordsFor(job.adlen) \in Nat /\ WordsFor(job.msglen) \in Nat
  BY <1>5, CeilNat
<1>11. CASE sst = "AD"
  <2>1. n < WordsFor(job.adlen) /\ cnt = n * BeatBytes /\ adpos = cnt /\ sad = job.adlen
    BY <1>1, <1>3, <1>4, <1>11 DEF Pulled, ShimInStep
  <2>2. n + 1 \in 1..WordsFor(job.adlen)
    BY <1>10, <2>1
  <2>3. Head(txf) = WordOf(job, "ad", job.adlen, n + 1)
    BY <1>5, <1>6, <2>2, PayloadTypes
  <2>4. ASSUME NEW i \in 1..KeepN PROVE Head(txf)[i] = AdByte(job, adpos + (i - 1))
    <3>1. adpos + (i - 1) < job.adlen
      <4>1. adpos \in Nat /\ KeepN <= job.adlen - adpos
        BY <1>7, <1>11, <2>1
      <4> QED  BY <1>5, <1>7, <4>1, Within
    <3>2. Head(txf)[i] = <<job.id, "ad", adpos + (i - 1)>>
      <4>1. adpos \in Nat /\ n \in Nat /\ adpos = n * BeatBytes /\ i \in 1..BeatBytes
        BY <1>7, <1>9, <2>1, <2>2
      <4> DEFINE w == n + 1
      <4>2. (w - 1) * BeatBytes + (i - 1) = adpos + (i - 1)
        <5>1. w - 1 = n
          BY <4>1
        <5> QED  BY <4>1, <5>1
      <4> HIDE DEF w
      <4>3. WordOf(job, "ad", job.adlen, w)[i] = <<job.id, "ad", (w - 1) * BeatBytes + (i - 1)>>
        BY <3>1, <4>1, <4>2, WordAt
      <4> QED  BY <2>3, <4>2, <4>3 DEF w
    <3> QED  BY <3>2 DEF AdByte
  <2> QED  BY <1>2, <1>3, <1>8, <1>11, <2>1, <2>4
<1>12. CASE sst = "MSG"
  <2> DEFINE a == WordsFor(job.adlen)
             k == n - a
  <2>1. /\ a <= n /\ n < PayloadLen(job) /\ cnt = k * BeatBytes /\ msgpos = cnt
        /\ smsg = job.msglen /\ adpos = job.adlen
    BY <1>1, <1>3, <1>4, <1>12 DEF Pulled, ShimInStep
  <2>2. k + 1 \in 1..WordsFor(job.msglen) /\ a + (k + 1) = n + 1
    BY <1>10, <2>1 DEF PayloadLen
  <2>3. Head(txf) = WordOf(job, "msg", job.msglen, k + 1)
    BY <1>5, <1>6, <2>2, PayloadTypes
  <2> HIDE DEF k
  <2>4. ASSUME NEW i \in 1..KeepN PROVE Head(txf)[i] = MsgByte(job, msgpos + (i - 1))
    <3>1. k \in Nat
      BY <2>2, <1>10, <2>1 DEF k
    <3>2. msgpos + (i - 1) < job.msglen
      <4>1. msgpos \in Nat /\ KeepN <= job.msglen - msgpos
        BY <1>7, <1>12, <2>1
      <4> QED  BY <1>5, <1>7, <4>1, Within
    <3>3. Head(txf)[i] = <<job.id, "msg", msgpos + (i - 1)>>
      <4>1. msgpos \in Nat /\ msgpos = k * BeatBytes /\ i \in 1..BeatBytes
        BY <1>7, <1>9, <2>1
      <4> DEFINE w == k + 1
      <4>2. (w - 1) * BeatBytes + (i - 1) = msgpos + (i - 1)
        <5>1. w - 1 = k
          BY <3>1
        <5> QED  BY <4>1, <5>1
      <4> HIDE DEF w
      <4>3. WordOf(job, "msg", job.msglen, w)[i] = <<job.id, "msg", (w - 1) * BeatBytes + (i - 1)>>
        BY <3>2, <4>1, <4>2, WordAt
      <4> QED  BY <2>3, <4>2, <4>3 DEF w
    <3> QED  BY <3>3 DEF MsgByte
  <2> QED  BY <1>2, <1>3, <1>8, <1>12, <2>1, <2>4
<1> QED  BY <1>11, <1>12

\* What the shim offers is the payload of the engine's job, in order.
LEMMA OffersPayload ==
    ASSUME PlaneInv, Sends, est = "RX"
    PROVE  PayloadBeat(ShimOutput)
<1>1. Types /\ ShimInStep /\ OwnJob /\ EngineInv
  BY DEF PlaneInv, Sends, EngineInv
<1>2. job \in Jobs /\ job.adlen \in Nat /\ job.msglen \in Nat
  <2>1. job \in Jobs
    BY <1>1, Receiving
  <2> QED  BY <2>1, JobFacts, Sizes
<1>3. ~startPulse /\ sst \in {"AD", "MSG", "NULL"}
  BY <1>1 DEF ShimInStep, OwnJob, Types
<1>4. CASE ~ShimValid
  BY <1>4 DEF ShimOutput, PayloadBeat
<1>5. CASE ShimValid /\ sst = "AD"
  <2>1. /\ KeepN \in Nat /\ cnt \in Nat /\ sad \in Nat /\ KeepN <= sad - cnt
    BY <1>1, <1>5, KeepLeft
  <2>2. /\ adpos = cnt /\ sad = job.adlen
        /\ SubSeq(Head(txf), 1, KeepN) = [i \in 1..KeepN |-> AdByte(job, adpos + (i - 1))]
    BY <1>3, <1>5, NextBytes
  <2>3. ShimOutput = Beat([i \in 1..KeepN |-> AdByte(job, adpos + (i - 1))], 0, FALSE)
    BY <1>5, <2>2 DEF ShimOutput, ShimBeat
  <2>4. adpos + KeepN <= job.adlen
    BY <2>1, <2>2
  <2> QED  BY <2>1, <2>3, <2>4 DEF PayloadBeat
<1>6. CASE ShimValid /\ sst = "MSG"
  <2>1. /\ KeepN \in Nat /\ cnt \in Nat /\ smsg \in Nat /\ KeepN <= smsg - cnt
        /\ (Rem <= BeatBytes) = (smsg - cnt <= BeatBytes)
        /\ KeepN = IF smsg - cnt <= BeatBytes THEN smsg - cnt ELSE BeatBytes
    BY <1>1, <1>6, KeepLeft
  <2>2. /\ msgpos = cnt /\ smsg = job.msglen /\ adpos = job.adlen
        /\ SubSeq(Head(txf), 1, KeepN) = [i \in 1..KeepN |-> MsgByte(job, msgpos + (i - 1))]
    BY <1>3, <1>6, NextBytes
  <2> DEFINE last == Rem <= BeatBytes
  <2>3. /\ ShimOutput = Beat([i \in 1..KeepN |-> MsgByte(job, msgpos + (i - 1))], 1, last)
        /\ last \in BOOLEAN
    <3>1. ShimOutput = Beat(SubSeq(Head(txf), 1, KeepN), 1, last)
      BY <1>6 DEF ShimOutput, ShimBeat
    <3>2. (smsg - cnt <= BeatBytes) \in BOOLEAN
      BY <2>1, Sizes
    <3>3. last \in BOOLEAN
      BY <2>1, <3>2
    <3> QED  BY <2>2, <3>1, <3>3
  <2>4. msgpos + KeepN <= job.msglen /\ (last => msgpos + KeepN = job.msglen /\ adpos = job.adlen)
    BY <2>1, <2>2
  <2> HIDE DEF last
  <2> QED  BY <2>1, <2>3, <2>4 DEF PayloadBeat
<1>7. CASE ShimValid /\ sst = "NULL"
  <2>1. adpos = job.adlen /\ job.msglen = 0 /\ msgpos \in Nat /\ msgpos <= job.msglen
    BY <1>1, <1>7, Receiving DEF ShimInStep
  <2>2. msgpos + 0 = job.msglen /\ msgpos + 0 <= job.msglen
    BY <2>1
  <2>3. [i \in 1..0 |-> MsgByte(job, msgpos + (i - 1))] = <<>>
    OBVIOUS
  <2>4. ShimOutput = Beat([i \in 1..0 |-> MsgByte(job, msgpos + (i - 1))], 1, TRUE)
    <3>1. ShimOutput = Beat(<<>>, 1, TRUE)
      BY <1>7 DEF ShimOutput, ShimBeat
    <3> QED  BY <2>3, <3>1
  <2> DEFINE n == 0
             last == TRUE
  <2>5. /\ n \in Nat /\ last \in BOOLEAN /\ msgpos + n <= job.msglen
        /\ last => msgpos + n = job.msglen /\ adpos = job.adlen
        /\ ShimOutput = Beat([i \in 1..n |-> MsgByte(job, msgpos + (i - 1))], 1, last)
    BY <2>1, <2>2, <2>4
  <2> HIDE DEF n, last
  <2> QED  BY <2>5 DEF PayloadBeat
<1> QED  BY <1>3, <1>4, <1>5, <1>6, <1>7

\* The engine takes what it is offered.
LEMMA OwnStep ==
    ASSUME PlaneInv, Sends, Edge
    PROVE  EngineOwn'
<1>1. EngineInv /\ CoreEdge
  BY DEF PlaneInv, Sends, EngineInv, Edge
<1>2. PICK ready \in BOOLEAN : EngineEdge(startPulse, StartJob, ShimOutput, ready)
  BY DEF Edge
<1>3. startPulse /\ est = "IDLE" => StartJob \in Jobs
  BY StartsCall
<1>4. EngineInv'
  BY <1>1, <1>2, <1>3, OffersPayload, EngineStep
<1> QED  BY <1>4 DEF EngineInv


-----------------------------------------------------------------------------
(* A word that has been written is pulled at the next edge.                *)

\* The lengths of the call's segments, in bytes and in words.
LEMMA Lengths ==
    ASSUME PlaneInv, pc \in Live
    PROVE  /\ call.job \in Jobs /\ call.job.adlen \in Nat /\ call.job.msglen \in Nat
           /\ WordsFor(call.job.adlen) \in Nat /\ WordsFor(call.job.msglen) \in Nat
           /\ PayloadLen(call.job) \in Nat
<1>1. Types /\ pc # "returned"
  BY DEF PlaneInv, Live
<1>2. call.job \in Jobs /\ call.job.adlen \in Nat /\ call.job.msglen \in Nat
  BY <1>1, CallFacts
<1>3. WordsFor(call.job.adlen) \in Nat /\ WordsFor(call.job.msglen) \in Nat
  BY <1>2, CeilNat
<1> QED  BY <1>2, <1>3 DEF PayloadLen

\* The shim works on the call's lengths.
LEMMA ShimLengths ==
    ASSUME Sends, sst # "IDLE"
    PROVE  /\ est = "RX" /\ sad = call.job.adlen /\ smsg = call.job.msglen
           /\ ~startPulse
<1>1. est = "RX" /\ sad = job.adlen /\ smsg = job.msglen
  BY DEF Sends, ShimInStep
<1> QED  BY <1>1 DEF Sends, OwnJob, HasJob

\* At the start nothing has been pulled.
LEMMA PullStart ==
    ASSUME PlaneInv, Sends, pc \in Live, Edge, startPulse, startPulse' = FALSE, call' = call
    PROVE  Pulled(0)'
<1>1. est = "IDLE" /\ sst = "IDLE"
  BY DEF Sends, OwnJob, ShimInStep
<1>2. StartJob = call.job
  BY StartsCall
<1>3. preg.adlen = call.job.adlen /\ preg.msglen = call.job.msglen
  <2>1. StartJob.adlen = preg.adlen /\ StartJob.msglen = preg.msglen
    BY DEF PlaneInv, Types, JobType, StartJob
  <2> QED  BY <1>2, <2>1
<1>4. cnt' = 0 /\ sst' = FirstPhase(call.job.adlen, call.job.msglen)
  BY <1>1, <1>3 DEF Edge, ShimEdge, ShimStarts, ShimForwards, ShimHolds, BeatTaken, ShimValid
<1>5. call.job.adlen # 0 => 0 < WordsFor(call.job.adlen)
  BY Lengths, SomeWords
<1>6. call.job.msglen # 0 => 0 < WordsFor(call.job.msglen)
  BY Lengths, SomeWords
<1>7. WordsFor(0) = 0 /\ 0 * BeatBytes = 0
  BY NoWords
<1>8. CASE call.job.adlen # 0
  <2>1. sst' = "AD"
    BY <1>4, <1>8 DEF FirstPhase
  <2> QED  BY <1>4, <1>5, <1>7, <1>8, <2>1 DEF Pulled
<1>9. CASE call.job.adlen = 0
  <2>1. sst' = IF call.job.msglen # 0 THEN "MSG" ELSE "NULL"
    BY <1>4, <1>9 DEF FirstPhase, MsgPhase
  <2>2. WordsFor(call.job.adlen) = 0 /\ PayloadLen(call.job) = WordsFor(call.job.msglen)
    BY <1>7, <1>9, Lengths DEF PayloadLen
  <2>3. CASE call.job.msglen # 0
    <3>1. (0 - WordsFor(call.job.adlen)) * BeatBytes = 0
      BY <1>7, <2>2
    <3> QED  BY <1>4, <1>6, <2>1, <2>2, <2>3, <3>1 DEF Pulled
  <2>4. CASE call.job.msglen = 0
    BY <1>7, <2>1, <2>2, <2>4 DEF Pulled
  <2> QED  BY <2>3, <2>4
<1> QED  BY <1>8, <1>9

\* A word of the associated data.
LEMMA PullAd ==
    ASSUME PlaneInv, Sends, pc \in Live, Edge, sst = "AD", txf # <<>>,
           startPulse' = FALSE, call' = call, NEW n \in Nat, Pulled(n)
    PROVE  Pulled(n + 1)'
<1> DEFINE a == WordsFor(call.job.adlen)
<1>1. /\ est = "RX" /\ sad = call.job.adlen /\ smsg = call.job.msglen /\ ~startPulse
      /\ BeatTaken
  BY ShimLengths DEF BeatTaken, ShimValid, SReady
<1>2. n < a /\ cnt = n * BeatBytes /\ cnt < sad
  BY <1>1 DEF Pulled, Sends, ShimInStep
<1>3. IF Rem > BeatBytes THEN cnt' = Wrap8(cnt + BeatBytes) /\ sst' = "AD"
      ELSE cnt' = 0 /\ sst' = MsgPhase(smsg)
  BY <1>1 DEF Edge, ShimEdge, ShimStarts, ShimForwards, ShimHolds
<1>4. Rem = sad - cnt /\ Rem \in 1..255 /\ cnt + Rem < 256
  BY RemLeft DEF PlaneInv, Sends
<1>5. /\ cnt \in Nat /\ cnt + BeatBytes = (n + 1) * BeatBytes
      /\ sad - cnt > BeatBytes => n + 1 < a
      /\ ~(sad - cnt > BeatBytes) => n + 1 = a
  BY <1>1, <1>2, Lengths, NextWord
<1>6. CASE Rem > BeatBytes
  <2>1. cnt + BeatBytes \in 0..255
    BY <1>4, <1>5, <1>6, Sizes
  <2>2. cnt' = (n + 1) * BeatBytes /\ sst' = "AD" /\ n + 1 < a
    BY <1>3, <1>4, <1>5, <1>6, <2>1, Wraps
  <2> QED  BY <2>2 DEF Pulled
<1>7. CASE ~(Rem > BeatBytes)
  <2>1. cnt' = 0 /\ sst' = MsgPhase(call.job.msglen) /\ n + 1 = a
    BY <1>1, <1>3, <1>4, <1>5, <1>7
  <2>2. (n + 1 - a) * BeatBytes = 0
    <3>1. n + 1 - a = 0 /\ 0 * BeatBytes = 0
      BY <2>1, NoWords
    <3> QED  BY <3>1
  <2>3. CASE call.job.msglen # 0
    <3>1. sst' = "MSG" /\ a <= n + 1 /\ n + 1 < PayloadLen(call.job)
      <4>1. sst' = "MSG"
        BY <2>1, <2>3 DEF MsgPhase
      <4>2. 0 < WordsFor(call.job.msglen) /\ WordsFor(call.job.msglen) \in Nat
        BY <2>3, Lengths, SomeWords
      <4> QED  BY <2>1, <4>1, <4>2 DEF PayloadLen
    <3> QED  BY <2>1, <2>2, <3>1 DEF Pulled
  <2>4. CASE call.job.msglen = 0
    <3>1. sst' = "NULL" /\ n + 1 = PayloadLen(call.job)
      BY <2>1, <2>4, Lengths, NoWords DEF MsgPhase, PayloadLen
    <3> QED  BY <3>1 DEF Pulled
  <2> QED  BY <2>3, <2>4
<1> QED  BY <1>6, <1>7

\* A word of the message.
LEMMA PullMsg ==
    ASSUME PlaneInv, Sends, pc \in Live, Edge, sst = "MSG", txf # <<>>,
           startPulse' = FALSE, call' = call, NEW n \in Nat, Pulled(n)
    PROVE  Pulled(n + 1)'
<1> DEFINE a == WordsFor(call.job.adlen)
           b == WordsFor(call.job.msglen)
           k == n - a
<1>1. /\ est = "RX" /\ sad = call.job.adlen /\ smsg = call.job.msglen /\ ~startPulse
      /\ BeatTaken
  BY ShimLengths DEF BeatTaken, ShimValid, SReady
<1>2. /\ a <= n /\ n < a + b /\ cnt = k * BeatBytes /\ cnt < smsg
      /\ a \in Nat /\ b \in Nat /\ PayloadLen(call.job) = a + b
  BY <1>1, Lengths DEF Pulled, Sends, ShimInStep, PayloadLen
<1>3. IF Rem > BeatBytes THEN cnt' = Wrap8(cnt + BeatBytes) /\ sst' = "MSG" ELSE sst' = "IDLE"
  BY <1>1 DEF Edge, ShimEdge, ShimStarts, ShimForwards, ShimHolds
<1>4. Rem = smsg - cnt /\ Rem \in 1..255 /\ cnt + Rem < 256
  BY RemLeft DEF PlaneInv, Sends
<1>5. k \in Nat /\ n + 1 - a = k + 1 /\ (k + 1 < b => n + 1 < a + b) /\ (k + 1 = b => n + 1 = a + b)
      /\ a <= n + 1
  BY <1>2
<1> HIDE DEF k
<1>6. /\ cnt \in Nat /\ cnt + BeatBytes = (k + 1) * BeatBytes
      /\ smsg - cnt > BeatBytes => k + 1 < b
      /\ ~(smsg - cnt > BeatBytes) => k + 1 = b
  BY <1>1, <1>2, <1>5, Lengths, NextWord
<1>7. CASE Rem > BeatBytes
  <2>1. cnt + BeatBytes \in 0..255
    BY <1>4, <1>6, <1>7, Sizes
  <2>2. cnt' = (k + 1) * BeatBytes /\ sst' = "MSG" /\ n + 1 < a + b
    BY <1>3, <1>4, <1>5, <1>6, <1>7, <2>1, Wraps
  <2>3. cnt' = (n + 1 - a) * BeatBytes
    BY <1>5, <2>2
  <2> QED  BY <1>2, <1>5, <2>2, <2>3 DEF Pulled
<1>8. CASE ~(Rem > BeatBytes)
  <2>1. sst' = "IDLE" /\ n + 1 = a + b
    BY <1>3, <1>4, <1>5, <1>6, <1>8
  <2> QED  BY <1>2, <2>1 DEF Pulled
<1> QED  BY <1>7, <1>8

\* No word waits, and none is pulled.
LEMMA PullNone ==
    ASSUME PlaneInv, Sends, Edge, txf = <<>>, ~startPulse, startPulse' = FALSE, call' = call,
           NEW n, Pulled(n)
    PROVE  Pulled(n)'
<1>1. CASE sst = "NULL"
  <2>1. BeatTaken
    BY <1>1, ShimLengths DEF BeatTaken, ShimValid, SReady
  <2>2. sst' = "IDLE"
    BY <1>1, <2>1 DEF Edge, ShimEdge, ShimStarts, ShimForwards, ShimHolds
  <2> QED  BY <1>1, <2>2 DEF Pulled
<1>2. CASE sst # "NULL"
  <2>1. ~BeatTaken
    BY <1>2 DEF BeatTaken, ShimValid
  <2>2. UNCHANGED <<sst, cnt>>
    BY <2>1 DEF Edge, ShimEdge, ShimStarts, ShimForwards, ShimHolds, shimVars
  <2> QED  BY <2>2 DEF Pulled
<1> QED  BY <1>1, <1>2

\* After an edge the TX FIFO holds what was written at that edge, and nothing
\* else: START came before the payload, so that the shim is never behind.
LEMMA FlowStep ==
    ASSUME TxDepth > 1, PlaneInv, Sends, pc \in Live, call' = call, NEW pushed, NEW popped,
           HwEdge(NoWrite, pushed, popped), Edge, pushed \in Seq(Word),
           NEW n \in 0..PayloadLen(call.job), NEW m \in 0..PayloadLen(call.job),
           Pulled(n), Stored(n, m), startPulse => m = 0
    PROVE  Pulled(m)' /\ txf' = pushed
<1>1. startPulse' = FALSE
  <2>1. RegEdge(NoWrite) /\ tagvR \in BOOLEAN
    BY DEF HwEdge, PlaneInv, RegTypes
  <2>2. startPulse' = (NoWrite.reg = "start")
    BY <2>1, RegMoves
  <2> QED  BY <2>2 DEF NoWrite
<1>2. n \in Nat /\ m \in Nat
  BY Lengths
<1>3. txf \in Seq(Word) /\ sst \in {"IDLE", "AD", "MSG", "NULL"}
  BY DEF PlaneInv, Types
<1> DEFINE word == TxBuf(call.job)[m]
<1>4. \/ m = n /\ txf = <<>>
      \/ m = n + 1 /\ txf = <<word>>
  BY DEF Stored
<1> HIDE DEF word
<1>5. Len(txf) < TxDepth
  <2>1. CASE txf = <<>>
    BY <1>3, <2>1, EmptySeq, PlaneAssumption
  <2>2. CASE txf = <<word>>
    <3>1. Len(txf) = 1
      BY <2>2
    <3> QED  BY <3>1, PlaneAssumption
  <2> QED  BY <1>4, <2>1, <2>2
<1>6. txf' = (IF WordTaken THEN Tail(txf) ELSE txf) \o pushed
  BY <1>5 DEF HwEdge
<1>7. <<>> \o pushed = pushed
  BY ConcatEmptySeq
<1>8. CASE startPulse
  <2>1. n = 0 /\ m = 0
    BY <1>8 DEF Pulled
  <2>2. txf = <<>>
    BY <2>1 DEF Stored
  <2>3. ~WordTaken
    BY <2>2 DEF WordTaken, BeatTaken, ShimValid
  <2> QED  BY <1>1, <1>6, <1>7, <1>8, <2>1, <2>2, <2>3, PullStart
<1>9. CASE ~startPulse /\ txf # <<>>
  <2>1. m = n + 1 /\ txf = <<word>>
    BY <1>4, <1>9
  <2>4. Tail(txf) = <<>>
    BY <2>1
  <2>2. sst \notin {"NULL", "IDLE"}
    BY <1>2, <1>9, <2>1 DEF Pulled
  <2>3. WordTaken
    BY <1>3, <1>9, <2>2, ShimLengths DEF WordTaken, BeatTaken, ShimValid, SReady
  <2> QED  BY <1>1, <1>2, <1>3, <1>6, <1>7, <1>9, <2>1, <2>2, <2>3, <2>4, PullAd, PullMsg
<1>10. CASE ~startPulse /\ txf = <<>>
  <2>1. m = n
    BY <1>4, <1>10
  <2>2. ~WordTaken
    BY <1>10 DEF WordTaken, BeatTaken, ShimValid
  <2> QED  BY <1>1, <1>6, <1>7, <1>10, <2>1, <2>2, PullNone
<1> QED  BY <1>8, <1>9, <1>10

-----------------------------------------------------------------------------
(* The driver and the DMA send the payload of the call.                    *)

\* A sequence without its first element.
LEMMA Shifts ==
    ASSUME NEW S, NEW n \in Nat \ {0}, NEW s \in [1..n -> S]
    PROVE  /\ s # <<>> /\ Head(s) = s[1]
           /\ Tail(s) = [k \in 1..(n - 1) |-> s[k + 1]]
<1>1. s \in Seq(S) /\ Len(s) = n
  BY FunctionIsSeq
<1>2. s # <<>> /\ Head(s) = s[1]
  BY <1>1
<1>3. /\ Len(Tail(s)) = n - 1 /\ Tail(s) \in Seq(S)
      /\ \A k \in 1..Len(Tail(s)) : Tail(s)[k] = s[k + 1]
  BY <1>1, <1>2, HeadTailProperties
<1>4. Tail(s) = [k \in 1..Len(Tail(s)) |-> Tail(s)[k]]
  BY <1>3, LenProperties
<1> QED  BY <1>2, <1>3, <1>4

LEMMA SendsNext ==
    ASSUME PlaneInv, pc \in Live, NEW m \in 0..PayloadLen(call.job)
    PROVE  /\ m = PayloadLen(call.job) <=> ToSend(m) = <<>>
           /\ m < PayloadLen(call.job) =>
                 /\ Head(ToSend(m)) = TxMove(TxBuf(call.job)[m + 1])
                 /\ Tail(ToSend(m)) = ToSend(m + 1)
           /\ TxBuf(call.job) \in Seq(Word) /\ DOMAIN TxBuf(call.job) = 1..PayloadLen(call.job)
<1> DEFINE l == PayloadLen(call.job)
           b == TxBuf(call.job)
<1>1. l \in Nat /\ m \in Nat
  BY Lengths
<1>2. b \in Seq(Word) /\ DOMAIN b = 1..l
  BY Lengths, PayloadTypes DEF PayloadLen
<1> HIDE DEF l, b
<1>3. ToSend(m) = [k \in 1..(l - m) |-> TxMove(b[m + k])]
      /\ ToSend(m + 1) = [k \in 1..(l - (m + 1)) |-> TxMove(b[m + 1 + k])]
  BY DEF ToSend, l, b
<1>4. CASE m = l
  <2>1. ToSend(m) = [k \in 1..0 |-> TxMove(b[m + k])]
    BY <1>1, <1>3, <1>4
  <2>2. ToSend(m) = <<>>
    BY <2>1
  <2> QED  BY <1>1, <1>2, <1>4, <2>2 DEF l, b
<1>5. CASE m < l
  <2> DEFINE s == ToSend(m)
             n == l - m
             S == {TxMove(b[m + k]) : k \in 1..n}
  <2>1. n \in Nat \ {0} /\ l - (m + 1) = n - 1
    BY <1>1, <1>5
  <2> HIDE DEF n
  <2>2. s = [k \in 1..n |-> TxMove(b[m + k])]
    BY <1>3 DEF n
  <2>3. s \in [1..n -> S]
    BY <2>2
  <2> HIDE DEF s, S
  <2>4. s # <<>> /\ Head(s) = s[1] /\ Tail(s) = [k \in 1..(n - 1) |-> s[k + 1]]
    BY <2>1, <2>3, Shifts
  <2>5. s[1] = TxMove(b[m + 1])
    BY <2>1, <2>2
  <2>6. \A k \in 1..(n - 1) : s[k + 1] = TxMove(b[m + 1 + k])
    <3> TAKE k \in 1..(n - 1)
    <3>1. k + 1 \in 1..n /\ m + (k + 1) = m + 1 + k
      BY <1>1, <2>1
    <3>2. s[k + 1] = TxMove(b[m + (k + 1)])
      BY <2>2, <3>1
    <3> QED  BY <3>1, <3>2
  <2>7. Tail(s) = ToSend(m + 1)
    BY <1>3, <2>1, <2>4, <2>6
  <2> QED  BY <1>1, <1>2, <1>5, <2>4, <2>5, <2>7 DEF l, b, s
<1>6. m = l \/ m < l
  BY <1>1 DEF l
<1> QED  BY <1>4, <1>5, <1>6

\* One edge of engine and status registers on the way from START to DONE.
LEMMA OwnJobStep ==
    ASSUME PlaneInv, Sends, Edge, RegEdge(NoWrite), call' = call,
           pc' \in {"dmarx", "tag"} =>
              doneR /\ status' = [tagv |-> Genuine(call.job), err |-> ~Genuine(call.job)]
    PROVE  OwnJob'
<1> DEFINE g == Genuine(call.job)
<1>1. /\ OwnJob /\ tagvR \in BOOLEAN /\ doneR \in BOOLEAN /\ errR \in BOOLEAN
      /\ (doneO => est = "IDLE") /\ OwnAnswer /\ est \in EngineStates
  BY DEF Sends, EngineOwn, Received, PlaneInv, RegTypes, Types
<1>2. /\ startPulse' = FALSE /\ decryptR' = decryptR
      /\ tagR' = IF doneO THEN res ELSE tagR
      /\ doneR' = (doneO \/ doneR)
      /\ tagvR' = IF doneO THEN ~(decryptR /\ ~validO) ELSE tagvR
      /\ errR' = ((doneO /\ decryptR /\ ~validO) \/ errR)
  <2>1. NoWrite.reg = "none"
    BY DEF NoWrite
  <2> QED  BY <1>1, <2>1, RegMoves
<1>3. call' = call /\ decryptR' = call.job.dec
  BY <1>1, <1>2 DEF OwnJob
<1>4. /\ est = "IDLE" => ~doneO' /\ IdleEdge(startPulse, StartJob)
      /\ doneO' => est = "DONE" /\ est' = "IDLE"
  BY EngineMoves
<1>5. CASE startPulse
  <2>1. est = "IDLE" /\ ~doneO /\ ~doneR /\ ~errR
    BY <1>1, <1>5 DEF OwnJob
  <2>2. est' = "RX" /\ job' = call.job /\ ~doneR' /\ ~errR' /\ ~startPulse'
    BY <1>2, <1>4, <1>5, <2>1, StartsCall DEF IdleEdge
  <2> QED  BY <1>3, <2>1, <2>2 DEF OwnJob, HasJob
<1>6. CASE doneO
  <2>1. est = "IDLE" /\ ~startPulse /\ ~doneR /\ ~errR /\ job = call.job
    BY <1>1, <1>6 DEF OwnJob, HasJob
  <2>2. est' = "IDLE" /\ ~doneO'
    BY <1>4, <2>1 DEF IdleEdge
  <2>3. res = Ideal(call.job) /\ validO = (call.job.dec => call.job.tagok)
    BY <1>1, <1>6, <2>1 DEF OwnAnswer, HasResult
  <2>4. validO = g
    BY <2>3 DEF Genuine
  <2>5. decryptR /\ ~validO <=> ~g
    <3>1. decryptR = call.job.dec
      BY <1>1 DEF OwnJob
    <3>2. ~g => call.job.dec
      BY DEF Genuine
    <3> QED  BY <2>4, <3>1, <3>2
  <2>6. g \in BOOLEAN
    BY DEF Genuine
  <2>7. doneR' /\ tagR' = Ideal(call.job) /\ tagvR' = g /\ errR' = ~g
    <3>1. doneR' /\ tagR' = Ideal(call.job)
      BY <1>2, <1>6, <2>3
    <3>2. tagvR' = ~(decryptR /\ ~validO) /\ errR' = (decryptR /\ ~validO)
      BY <1>1, <1>2, <1>6, <2>1
    <3> QED  BY <2>5, <2>6, <3>1, <3>2
  <2>8. Answer'
    BY <1>3, <2>7 DEF Answer, Genuine
  <2> QED  BY <1>2, <1>3, <2>1, <2>2, <2>7, <2>8 DEF OwnJob, HasJob
<1>7. CASE est # "IDLE"
  <2>1. ~doneO /\ ~startPulse /\ ~doneR /\ ~errR /\ job = call.job
    BY <1>1, <1>7 DEF OwnJob, HasJob
  <2>2. job' = job /\ (est' # "IDLE" \/ doneO')
    <3>1. PICK ready \in BOOLEAN : EngineEdge(startPulse, StartJob, ShimOutput, ready)
      BY DEF Edge
    <3>2. RxEdge(ShimOutput) \/ RunEdge \/ BusyEdge \/ WaitEdge \/ TxEdge(ready) \/ DoneEdge
      BY <1>7, <3>1 DEF EngineEdge, IdleEdge
    <3> QED  BY <1>7, <3>2 DEF RxEdge, RunEdge, BusyEdge, WaitEdge, TxEdge, DoneEdge
  <2>3. ~doneR' /\ ~errR' /\ ~startPulse'
    BY <1>2, <2>1
  <2> QED  BY <1>3, <2>1, <2>2, <2>3 DEF OwnJob, HasJob
<1>8. CASE est = "IDLE" /\ ~doneO /\ ~startPulse
  <2>1. doneR /\ Answer
    BY <1>1, <1>8 DEF OwnJob, HasJob
  <2>2. doneR' /\ tagR' = tagR /\ tagvR' = tagvR /\ errR' = errR
    BY <1>1, <1>2, <1>8, <2>1
  <2>3. est' = "IDLE" /\ ~doneO'
    BY <1>4, <1>8 DEF IdleEdge
  <2>4. Answer'
    BY <1>3, <2>1, <2>2 DEF Answer, Genuine
  <2> QED  BY <1>2, <1>3, <2>2, <2>3, <2>4 DEF OwnJob, HasJob, Genuine
<1> QED  BY <1>5, <1>6, <1>7, <1>8

\* What the steps from START to the end of the call do besides the edge.
LEMMA LiveSteps ==
    ASSUME PlaneInv, Sends, Next, pc \in Live, pc' \in Live
    PROVE  /\ call' = call /\ fresh' = fresh
           /\ pc' \in {"dmarx", "tag"} =>
                 doneR /\ status' = [tagv |-> Genuine(call.job), err |-> ~Genuine(call.job)]
           /\ DmaTxWord \/ DmaRxWord \/ DmaToSlink \/ DmaTxDone \/ PollDone \/ DmaRxDone \/ Tick
<1> USE DEF Live
<1>1. \/ DmaTxWord \/ DmaRxWord \/ Tick
      \/ DmaToSlink \/ DmaTxDone \/ PollDone \/ DmaRxDone
  <2>1. ~WriteClear /\ ~WriteParams /\ ~WriteStart /\ ~Finish /\ ~Timeout
        /\ ~\E c \in Calls : Call(c)
    BY DEF WriteClear, WriteParams, WriteStart, Finish, Returns, Timeout, Call
  <2> QED  BY <2>1 DEF Next, Driver, Dma
<1>2. OwnJob
  BY DEF Sends
<1>3. call' = call /\ fresh' = fresh
  BY <1>1 DEF DmaTxWord, DmaRxWord, Tick, DmaToSlink, DmaTxDone, PollDone, DmaRxDone, driverVars
<1>4. CASE PollDone
  <2>1. pc = "poll" /\ doneR /\ status' = [tagv |-> tagvR, err |-> errR]
    BY <1>4 DEF PollDone
  <2>2. tagvR = Genuine(call.job) /\ errR = ~Genuine(call.job)
    BY <1>2, <2>1 DEF OwnJob, Answer
  <2> QED  BY <1>1, <1>3, <2>1, <2>2
<1>5. CASE ~PollDone
  <2>1. status' = status /\ (pc' \in {"dmarx", "tag"} => pc \in {"dmarx", "tag"})
    BY <1>1, <1>5 DEF DmaTxWord, DmaRxWord, Tick, DmaToSlink, DmaTxDone, DmaRxDone, driverVars,
                      DriverWrites
  <2> QED  BY <1>1, <1>2, <1>3, <2>1 DEF OwnJob
<1> QED  BY <1>4, <1>5

\* Until the poll has seen DONE the DMA writes, and after it it reads.
LEMMA DmaTurns ==
    ASSUME PlaneInv, Sends, pc \in Live
    PROVE  /\ DmaTxWord => pc = "dmatxwait"
           /\ DmaRxWord => pc = "dmarx"
           /\ pc # "dmarx" /\ dmaq # <<>> => Head(dmaq).dir = "tx"
<1>1. PICK m \in 0..PayloadLen(call.job) : Sent(m)
  BY DEF Sends, Flow
<1>2. PayloadLen(call.job) \in Nat
  BY Lengths
<1>3. CASE pc = "dmarx"
  <2>1. dmaq # <<>> => Head(dmaq) \in {RxMove}
    BY <1>1, <1>3 DEF Sent
  <2> QED  BY <1>3, <2>1 DEF DmaTxWord, DmaIdle, RxMove
<1>4. CASE pc = "dmatxwait"
  <2>1. dmaq = ToSend(m)
    BY <1>1, <1>4 DEF Sent
  <2>2. dmaq # <<>> => Head(dmaq) = TxMove(TxBuf(call.job)[m + 1])
    BY <1>2, <2>1, SendsNext
  <2> QED  BY <1>4, <2>2 DEF DmaRxWord, DmaIdle, TxMove
<1>5. CASE pc \notin {"dmarx", "dmatxwait"}
  <2>1. dmaq = <<>>
    BY <1>1, <1>5 DEF Sent, Live
  <2> QED  BY <1>5, <2>1 DEF DmaTxWord, DmaRxWord, DmaIdle
<1> QED  BY <1>3, <1>4, <1>5

\* The words go out in order, one at a time.
LEMMA SentStep ==
    ASSUME PlaneInv, Sends, Next, pc \in Live, pc' \in Live,
           NEW m \in 0..PayloadLen(call.job), Sent(m)
    PROVE  \/ /\ m < PayloadLen(call.job) /\ Sent(m + 1)' /\ ~startPulse
              /\ HwEdge(NoWrite, <<TxBuf(call.job)[m + 1]>>, 0)
           \/ /\ Sent(m)'
              /\ \E popped \in 0..Len(rxf) : HwEdge(NoWrite, <<>>, popped)
<1> DEFINE l == PayloadLen(call.job)
<1>1. /\ call' = call
      /\ DmaTxWord \/ DmaRxWord \/ DmaToSlink \/ DmaTxDone \/ PollDone \/ DmaRxDone \/ Tick
  BY LiveSteps
<1>2. PayloadLen(call.job) \in Nat /\ dmaq \in Seq(Move) /\ Len(rxf) \in Nat
  BY Lengths, LenProperties DEF PlaneInv, Types, FifoTypes
<1>3. ToSend(m)' = ToSend(m) /\ ToSend(m + 1)' = ToSend(m + 1)
      /\ PayloadLen(call.job)' = PayloadLen(call.job)
  BY <1>1 DEF ToSend
<1>4. CASE DmaTxWord
  <2>1. /\ dmaq # <<>> /\ Head(dmaq).dir = "tx" /\ dmaq' = Tail(dmaq) /\ pc' = pc
        /\ HwEdge(NoWrite, <<Head(dmaq).word>>, 0)
    BY <1>4 DEF DmaTxWord, DmaIdle, driverVars
  <2>2. pc = "dmatxwait"
    BY <1>4, DmaTurns
  <2>3. dmaq = ToSend(m) /\ m < l /\ m + 1 \in 0..l
    <3>1. dmaq = ToSend(m)
      BY <2>2 DEF Sent
    <3>2. m # l
      BY <2>1, <3>1, SendsNext
    <3> QED  BY <1>2, <3>1, <3>2
  <2>4. dmaq' = ToSend(m + 1) /\ Head(dmaq) = TxMove(TxBuf(call.job)[m + 1])
    BY <2>1, <2>3, SendsNext
  <2>5. Head(dmaq).word = TxBuf(call.job)[m + 1]
    BY <2>4 DEF TxMove
  <2>6. ~startPulse
    BY <2>2 DEF PlaneInv, Latched
  <2>7. Sent(m + 1)'
    BY <1>3, <2>1, <2>2, <2>4 DEF Sent
  <2> QED  BY <2>1, <2>3, <2>5, <2>6, <2>7
<1>5. CASE DmaRxWord
  <2>1. /\ dmaq # <<>> /\ Head(dmaq).dir = "rx" /\ dmaq' = Tail(dmaq) /\ pc' = pc
        /\ HwEdge(NoWrite, <<>>, IF rxf = <<>> THEN 0 ELSE 1)
    BY <1>5 DEF DmaRxWord, DmaIdle
  <2>2. pc = "dmarx"
    BY <1>5, DmaTurns
  <2>3. dmaq \in Seq({RxMove}) /\ m = l
    BY <2>2 DEF Sent
  <2>4. dmaq' \in Seq({RxMove})
    BY <2>1, <2>3
  <2>5. Sent(m)'
    BY <1>3, <2>1, <2>2, <2>3, <2>4 DEF Sent
  <2>6. (IF rxf = <<>> THEN 0 ELSE 1) \in 0..Len(rxf)
    BY DEF PlaneInv, FifoTypes
  <2> QED  BY <2>1, <2>5, <2>6
<1>6. CASE DmaToSlink \/ DmaTxDone \/ PollDone \/ DmaRxDone \/ Tick
  <2>1. HwEdge(NoWrite, <<>>, 0) /\ 0 \in 0..Len(rxf)
    BY <1>2, <1>6 DEF DmaToSlink, DmaTxDone, PollDone, DmaRxDone, Tick
  <2>2. CASE DmaToSlink
    <3>1. /\ pc = "dmatx" /\ pc' = IF TxBuf(call.job) = <<>> THEN "poll" ELSE "dmatxwait"
          /\ dmaq' = dmaq \o [k \in DOMAIN TxBuf(call.job) |-> TxMove(TxBuf(call.job)[k])]
      BY <2>2 DEF DmaToSlink
    <3>2. m = 0 /\ dmaq = <<>>
      BY <3>1 DEF Sent
    <3> DEFINE q == [k \in DOMAIN TxBuf(call.job) |-> TxMove(TxBuf(call.job)[k])]
    <3>3. q \in Seq(Move)
      BY Lengths, MovesTyped
    <3>4. q = ToSend(0)
      <4>1. DOMAIN TxBuf(call.job) = 1..l
        BY SendsNext
      <4>2. l - 0 = l /\ \A k \in 1..l : 0 + k = k
        BY <1>2
      <4> QED  BY <4>1, <4>2 DEF ToSend
    <3> HIDE DEF q
    <3>5. dmaq' = ToSend(m)
      BY <3>1, <3>2, <3>3, <3>4, ConcatEmptySeq DEF q
    <3>6. pc' = "poll" => m = l /\ dmaq' = <<>>
      <4>1. pc' = "poll" => DOMAIN TxBuf(call.job) = {}
        BY <3>1
      <4>2. DOMAIN TxBuf(call.job) = 1..l /\ l \in Nat
        BY <1>2, SendsNext
      <4>3. pc' = "poll" => m = l
        BY <3>2, <4>1, <4>2
      <4> QED  BY <3>5, <4>3, SendsNext
    <3> QED  BY <1>3, <2>1, <3>1, <3>5, <3>6 DEF Sent
  <2>3. CASE DmaTxDone
    <3>1. pc = "dmatxwait" /\ pc' = "poll" /\ dmaq' = dmaq /\ dmaq = <<>>
      BY <2>3 DEF DmaTxDone, DmaIdle
    <3>2. m = l
      <4>1. ToSend(m) = <<>>
        BY <3>1 DEF Sent
      <4> QED  BY <4>1, SendsNext
    <3> QED  BY <1>3, <2>1, <3>1, <3>2 DEF Sent
  <2>4. CASE PollDone
    <3>1. /\ pc = "poll"
          /\ \/ pc' = "tag" /\ dmaq' = dmaq
             \/ /\ pc' = "dmarx"
                /\ dmaq' = dmaq \o [k \in 1..WordsFor(call.job.msglen) |-> RxMove]
      BY <2>4 DEF PollDone
    <3>2. m = l /\ dmaq = <<>>
      BY <3>1 DEF Sent
    <3> DEFINE q == [k \in 1..WordsFor(call.job.msglen) |-> RxMove]
    <3>3. q \in Seq({RxMove})
      <4>1. q \in [1..WordsFor(call.job.msglen) -> {RxMove}] /\ WordsFor(call.job.msglen) \in Nat
        BY Lengths
      <4> QED  BY <4>1, FunctionIsSeq
    <3> HIDE DEF q
    <3>4. <<>> \o q = q
      BY <3>3, ConcatEmptySeq
    <3>5. pc' = "dmarx" => dmaq' \in Seq({RxMove})
      BY <3>1, <3>2, <3>3, <3>4 DEF q
    <3> QED  BY <1>3, <2>1, <3>1, <3>2, <3>5 DEF Sent
  <2>5. CASE DmaRxDone
    <3>1. pc = "dmarx" /\ pc' = "tag" /\ dmaq' = dmaq /\ dmaq = <<>>
      BY <2>5 DEF DmaRxDone, DmaIdle
    <3> QED  BY <1>3, <2>1, <3>1 DEF Sent
  <2>6. CASE Tick
    <3>1. pc' = pc /\ dmaq' = dmaq
      BY <2>6 DEF Tick, driverVars
    <3> QED  BY <1>3, <2>1, <3>1 DEF Sent
  <2> QED  BY <1>6, <2>2, <2>3, <2>4, <2>5, <2>6
<1> QED  BY <1>1, <1>4, <1>5, <1>6

LEMMA IsEdge ==
    ASSUME NEW w, NEW pushed, NEW popped, HwEdge(w, pushed, popped)
    PROVE  Edge /\ RegEdge(w)
<1>1. (Len(rxf) < RxDepth) \in BOOLEAN
  OBVIOUS
<1> QED  BY <1>1 DEF HwEdge, Edge, ShimOutput

LEMMA SendsStep ==
    ASSUME TxDepth > 1, PlaneInv, Sends, Next, pc \in Live, pc' \in Live
    PROVE  Sends'
<1>1. PICK n \in 0..PayloadLen(call.job), m \in 0..PayloadLen(call.job) :
         Pulled(n) /\ Stored(n, m) /\ Sent(m)
  BY DEF Sends, Flow
<1>2. PICK pushed, popped : HwEdge(NoWrite, pushed, popped) /\ pushed \in Seq(Word)
                            /\ \/ /\ m < PayloadLen(call.job) /\ Sent(m + 1)'
                                  /\ pushed = <<TxBuf(call.job)[m + 1]>>
                               \/ Sent(m)' /\ pushed = <<>>
  <2>1. CASE /\ m < PayloadLen(call.job) /\ Sent(m + 1)'
             /\ HwEdge(NoWrite, <<TxBuf(call.job)[m + 1]>>, 0)
    <3>1. m + 1 \in 1..PayloadLen(call.job)
      BY <2>1, Lengths
    <3>2. TxBuf(call.job)[m + 1] \in Word
      <4> DEFINE b == TxBuf(call.job)
      <4>1. b \in Seq(Word) /\ DOMAIN b = 1..PayloadLen(call.job)
        BY SendsNext
      <4> HIDE DEF b
      <4>2. m + 1 \in 1..Len(b)
        BY <3>1, <4>1, LenProperties
      <4>3. b[m + 1] \in Word
        BY <4>1, <4>2, ElementOfSeq
      <4> QED  BY <4>3 DEF b
    <3> DEFINE pushed == <<TxBuf(call.job)[m + 1]>>
    <3>3. pushed \in Seq(Word)
      BY <3>2
    <3>4. pushed = <<TxBuf(call.job)[m + 1]>> /\ HwEdge(NoWrite, pushed, 0)
      BY <2>1
    <3> HIDE DEF pushed
    <3> QED  BY <2>1, <3>3, <3>4
  <2>2. CASE Sent(m)' /\ \E popped \in 0..Len(rxf) : HwEdge(NoWrite, <<>>, popped)
    <3>1. <<>> \in Seq(Word)
      BY EmptySeq
    <3> QED  BY <2>2, <3>1
  <2> QED  BY <1>1, <2>1, <2>2, SentStep
<1>3. /\ call' = call
      /\ pc' \in {"dmarx", "tag"} =>
            doneR /\ status' = [tagv |-> Genuine(call.job), err |-> ~Genuine(call.job)]
  BY LiveSteps
<1>4. Edge /\ RegEdge(NoWrite)
  BY <1>2, IsEdge
<1>5. startPulse => m = 0
  BY <1>1 DEF PlaneInv, Latched, Sent
<1>6. Pulled(m)' /\ txf' = pushed
  BY <1>1, <1>2, <1>3, <1>4, <1>5, FlowStep
<1>7. Flow'
  <2>1. PayloadLen(call.job)' = PayloadLen(call.job) /\ TxBuf(call.job)' = TxBuf(call.job)
        /\ PayloadLen(call.job) \in Nat
    BY <1>3, Lengths
  <2>2. CASE /\ m < PayloadLen(call.job) /\ Sent(m + 1)' /\ pushed = <<TxBuf(call.job)[m + 1]>>
    <3>1. Stored(m, m + 1)' /\ m + 1 \in 0..PayloadLen(call.job)
      BY <1>6, <2>1, <2>2 DEF Stored
    <3> QED  BY <1>6, <2>1, <2>2, <3>1 DEF Flow
  <2>3. CASE Sent(m)' /\ pushed = <<>>
    <3>1. Stored(m, m)'
      BY <1>6, <2>3 DEF Stored
    <3> QED  BY <1>6, <2>1, <2>3, <3>1 DEF Flow
  <2> QED  BY <1>2, <2>2, <2>3
<1>8. EngineOwn'
  BY <1>4, OwnStep
<1>9. ShimInStep'
  <2>1. startPulse => est = "IDLE"
    BY DEF Sends, OwnJob
  <2> QED  BY <1>4, <2>1, EdgeInStep DEF PlaneInv, Sends
<1>10. OwnJob'
  BY <1>3, <1>4, OwnJobStep
<1> QED  BY <1>7, <1>8, <1>9, <1>10 DEF Sends

\* START finds everything at rest, which makes the engine the call's.
LEMMA SendsStart ==
    ASSUME PlaneInv, WriteStart,
           est' = "IDLE", ~doneO', sst' = "IDLE", txf' = <<>>, dmaq = <<>>
    PROVE  Sends'
<1>1. /\ pc = "start" /\ pc' = "dmatx" /\ call' = call /\ dmaq' = dmaq
      /\ HwEdge(StartWrite(call.job.dec), <<>>, 0)
  BY DEF WriteStart, DriverWrites
<1>2. RegEdge(StartWrite(call.job.dec)) /\ tagvR \in BOOLEAN
  BY <1>1, IsEdge DEF PlaneInv, RegTypes
<1> DEFINE w == StartWrite(call.job.dec)
<1>3. w.reg = "start" /\ w.dec = call.job.dec
  BY DEF StartWrite
<1> HIDE DEF w
<1>4. startPulse' /\ decryptR' = call.job.dec /\ ~doneR' /\ ~errR'
  BY <1>2, <1>3, RegMoves DEF w
<1>5. EngineOwn'
  BY DEF EngineOwn, Received, HasJob, Loaded, OwnAnswer, HasResult
<1>6. ShimInStep'
  BY DEF ShimInStep
<1>7. OwnJob'
  BY <1>1, <1>4 DEF OwnJob, HasJob
<1>8. Flow'
  <2>1. call.job \in Jobs
    BY <1>1, CallFacts DEF PlaneInv
  <2>2. PayloadLen(call.job) \in Nat
    <3>1. WordsFor(call.job.adlen) \in Nat /\ WordsFor(call.job.msglen) \in Nat
      BY <2>1, PayloadTypes
    <3> QED  BY <3>1 DEF PayloadLen
  <2>3. 0 \in 0..PayloadLen(call.job) /\ PayloadLen(call.job)' = PayloadLen(call.job)
    BY <1>1, <2>2
  <2>4. Pulled(0)'
    BY <1>4 DEF Pulled
  <2>5. Stored(0, 0)'
    BY DEF Stored
  <2>6. Sent(0)'
    BY <1>1 DEF Sent
  <2> QED  BY <2>3, <2>4, <2>5, <2>6 DEF Flow
<1> QED  BY <1>5, <1>6, <1>7, <1>8 DEF Sends

\* There is room for the next word.
LEMMA HasRoom ==
    ASSUME TxDepth > 1, PlaneInv, Sends
    PROVE  Len(txf) < TxDepth
<1>1. PICK n \in 0..PayloadLen(call.job), m \in 0..PayloadLen(call.job) : Stored(n, m)
  BY DEF Sends, Flow
<1> DEFINE word == TxBuf(call.job)[m]
<1>2. txf = <<>> \/ txf = <<word>>
  BY <1>1 DEF Stored
<1> HIDE DEF word
<1>3. CASE txf = <<>>
  BY <1>3, EmptySeq, PlaneAssumption
<1>4. CASE txf = <<word>>
  <2>1. Len(txf) = 1
    BY <1>4
  <2> QED  BY <2>1, PlaneAssumption
<1> QED  BY <1>2, <1>3, <1>4

-----------------------------------------------------------------------------
(* The result on its way back: r of its words have left the engine, c of   *)
(* them have been collected.                                               *)

Result(j, k) == [of |-> Ideal(j), pos |-> (k - 1) * BeatBytes]

Words(j) == {Result(j, k) : k \in Nat}

\* Words c + 1 to r of the result.
Results(j, c, r) == [k \in 1..(r - c) |-> Result(j, c + k)]

Over == est = "DONE" \/ doneO \/ doneR

Came(r) ==
    /\ Over => r = WordsFor(call.job.msglen)
    /\ est = "TX" => r < WordsFor(call.job.msglen) /\ txpos = r * BeatBytes
    /\ ~Over /\ est # "TX" => r = 0

Collects ==
    /\ pc \in {"dmatx", "dmatxwait", "poll"} =>
          \E r \in 0..WordsFor(call.job.msglen) : Came(r) /\ rxf = Results(call.job, 0, r)
    /\ pc = "dmarx" =>
          \E c \in 0..WordsFor(call.job.msglen) :
             /\ rxbuf = Results(call.job, 0, c)
             /\ rxf = Results(call.job, c, WordsFor(call.job.msglen))
             /\ dmaq = [k \in 1..(WordsFor(call.job.msglen) - c) |-> RxMove]
    /\ pc = "tag" /\ (call.out \/ WordsFor(call.job.msglen) = 0) =>
          output = ResultWords(call.job) /\ rxf = <<>>

LEMMA ResultsAre ==
    ASSUME NEW j, NEW c \in Nat, NEW r \in Nat, c <= r
    PROVE  /\ Results(j, c, r) \in Seq(Words(j)) /\ Len(Results(j, c, r)) = r - c
           /\ \A k \in 1..(r - c) : Results(j, c, r)[k] = Result(j, c + k)
<1> DEFINE n == r - c
           s == Results(j, c, r)
           S == Words(j)
<1>1. n \in Nat /\ \A k \in 1..n : c + k \in Nat
  OBVIOUS
<1>2. s = [k \in 1..n |-> Result(j, c + k)]
  BY DEF Results
<1>3. \A k \in 1..n : Result(j, c + k) \in S
  BY <1>1 DEF Words
<1> HIDE DEF s, n, S
<1>4. s \in [1..n -> S]
  BY <1>2, <1>3
<1>5. s \in Seq(S) /\ Len(s) = n /\ \A k \in 1..n : s[k] = Result(j, c + k)
  BY <1>1, <1>2, <1>4, FunctionIsSeq
<1> QED  BY <1>5 DEF s, n, S

\* One move fewer is left in the descriptor.
LEMMA MovesShrink ==
    ASSUME NEW n \in Nat \ {0}, NEW q, q = [k \in 1..n |-> RxMove]
    PROVE  Tail(q) = [k \in 1..(n - 1) |-> RxMove]
<1> DEFINE S == {RxMove}
<1>1. q \in [1..n -> S]
  OBVIOUS
<1>2. \A k \in 1..(n - 1) : q[k + 1] = RxMove
  <2> SUFFICES ASSUME NEW k \in 1..(n - 1) PROVE q[k + 1] = RxMove
    OBVIOUS
  <2>1. k + 1 \in 1..n
    OBVIOUS
  <2> QED  BY <2>1
<1> HIDE DEF S
<1>3. Tail(q) = [k \in 1..(n - 1) |-> q[k + 1]]
  BY <1>1, Shifts
<1> QED  BY <1>2, <1>3

LEMMA NoResults ==
    ASSUME NEW j, NEW c \in Nat, NEW r \in Nat, c <= r
    PROVE  Results(j, c, r) = <<>> <=> c = r
<1>1. Len(Results(j, c, r)) = r - c
  BY ResultsAre
<1>2. Results(j, c, r) \in Seq(Words(j))
  BY ResultsAre
<1> QED  BY <1>1, <1>2, EmptySeq

\* One more word at the end.
LEMMA ResultsGrow ==
    ASSUME NEW j, NEW r \in Nat
    PROVE  Append(Results(j, 0, r), Result(j, r + 1)) = Results(j, 0, r + 1)
<1> DEFINE S == Words(j)
           s == Results(j, 0, r)
           e == Result(j, r + 1)
           t == Results(j, 0, r + 1)
<1>1. s \in Seq(S) /\ Len(s) = r /\ \A k \in 1..r : s[k] = Result(j, k)
  <2>1. 0 \in Nat /\ 0 <= r /\ r - 0 = r /\ \A k \in 1..r : 0 + k = k
    OBVIOUS
  <2>2. s \in Seq(S) /\ Len(s) = r - 0 /\ \A k \in 1..(r - 0) : s[k] = Result(j, 0 + k)
    BY <2>1, ResultsAre
  <2> QED  BY <2>1, <2>2
<1>2. e \in S
  BY DEF Words
<1>3. t \in Seq(S) /\ Len(t) = r + 1 /\ \A k \in 1..(r + 1) : t[k] = Result(j, k)
  <2> DEFINE n == r + 1
  <2>1. n \in Nat
    OBVIOUS
  <2> HIDE DEF n
  <2>2. 0 \in Nat /\ 0 <= n /\ n - 0 = n /\ \A k \in 1..n : 0 + k = k
    BY <2>1
  <2> DEFINE u == Results(j, 0, n)
  <2>3. u \in Seq(S) /\ Len(u) = n - 0 /\ \A k \in 1..(n - 0) : u[k] = Result(j, 0 + k)
    BY <2>1, <2>2, ResultsAre
  <2> HIDE DEF u
  <2>4. u \in Seq(S) /\ Len(u) = n /\ \A k \in 1..n : u[k] = Result(j, k)
    BY <2>2, <2>3
  <2> QED  BY <2>4 DEF n, u
<1>4. t[r + 1] = e
  BY <1>3
<1> HIDE DEF S, s, e, t
<1>5. Append(s, e) \in Seq(S) /\ Len(Append(s, e)) = r + 1
      /\ \A k \in 1..r + 1 : Append(s, e)[k] = IF k <= r THEN s[k] ELSE e
  BY <1>1, <1>2, AppendProperties
<1>6. \A k \in 1..(r + 1) : Append(s, e)[k] = t[k]
  <2> TAKE k \in 1..(r + 1)
  <2>1. CASE k \in 1..r
    BY <1>1, <1>3, <1>5, <2>1
  <2>2. CASE k \notin 1..r
    <3>1. k = r + 1 /\ ~(k <= r)
      BY <2>2
    <3> QED  BY <1>4, <1>5, <3>1
  <2> QED  BY <2>1, <2>2
<1>7. Append(s, e) = t
  BY <1>3, <1>5, <1>6, SeqEqual
<1> QED  BY <1>7 DEF s, e, t

\* One word fewer at the front.
LEMMA ResultsShrink ==
    ASSUME NEW j, NEW c \in Nat, NEW r \in Nat, c < r
    PROVE  /\ Results(j, c, r) # <<>> /\ Head(Results(j, c, r)) = Result(j, c + 1)
           /\ SubSeq(Results(j, c, r), 2, Len(Results(j, c, r))) = Results(j, c + 1, r)
<1> DEFINE S == Words(j)
           s == Results(j, c, r)
           t == Results(j, c + 1, r)
<1>1. s \in Seq(S) /\ Len(s) = r - c /\ \A k \in 1..(r - c) : s[k] = Result(j, c + k)
  <2>1. c <= r
    OBVIOUS
  <2> QED  BY <2>1, ResultsAre
<1>2. /\ t \in Seq(S) /\ Len(t) = r - (c + 1)
      /\ \A k \in 1..(r - (c + 1)) : t[k] = Result(j, c + 1 + k)
  <2>1. c + 1 \in Nat /\ c + 1 <= r
    OBVIOUS
  <2> QED  BY <2>1, ResultsAre
<1> HIDE DEF S, s, t
<1>3. s # <<>> /\ Head(s) = Result(j, c + 1)
  <2>1. Len(s) # 0 /\ 1 \in 1..(r - c)
    BY <1>1
  <2>2. s # <<>> /\ Head(s) = s[1]
    BY <1>1, <2>1, HeadTailProperties, EmptySeq
  <2> QED  BY <1>1, <2>1, <2>2
<1>4. /\ Tail(s) \in Seq(S) /\ Len(Tail(s)) = Len(s) - 1 /\ Tail(s) = SubSeq(s, 2, Len(s))
      /\ \A k \in 1..Len(Tail(s)) : Tail(s)[k] = s[k + 1]
  BY <1>1, <1>3, HeadTailProperties, TailIsSubSeq
<1>5. Len(Tail(s)) = r - (c + 1)
  BY <1>1, <1>4
<1>6. \A k \in 1..(r - (c + 1)) : Tail(s)[k] = t[k]
  <2> TAKE k \in 1..(r - (c + 1))
  <2>1. k + 1 \in 1..(r - c) /\ c + (k + 1) = c + 1 + k
    OBVIOUS
  <2>2. Tail(s)[k] = s[k + 1] /\ s[k + 1] = Result(j, c + (k + 1)) /\ t[k] = Result(j, c + 1 + k)
    BY <1>1, <1>2, <1>4, <1>5, <2>1
  <2> QED  BY <2>1, <2>2
<1>7. Tail(s) = t
  BY <1>2, <1>4, <1>5, <1>6, SeqEqual
<1> QED  BY <1>3, <1>4, <1>7 DEF s, t

LEMMA WholeResult == ASSUME NEW j, WordsFor(j.msglen) \in Nat
                     PROVE  ResultWords(j) = Results(j, 0, WordsFor(j.msglen))
<1> DEFINE w == WordsFor(j.msglen)
<1>1. w - 0 = w /\ \A k \in 1..w : 0 + k = k
  OBVIOUS
<1> QED  BY <1>1 DEF ResultWords, Results, Result

\* One edge of the RX FIFO: the engine's beat goes in if there is room.
Delivers == MValid /\ Len(rxf) < RxDepth

LEMMA RxfStep ==
    ASSUME PlaneInv, NEW w, NEW pushed, NEW popped, HwEdge(w, pushed, popped)
    PROVE  /\ popped = 0 => rxf' = IF Delivers THEN Append(rxf, RxWord) ELSE rxf
           /\ ~MValid => rxf' = SubSeq(rxf, popped + 1, Len(rxf))
           /\ ~MValid /\ popped = 0 => rxf' = rxf
<1>1. rxf' = SubSeq(rxf, popped + 1, Len(rxf)) \o (IF Delivers THEN <<RxWord>> ELSE <<>>)
  BY DEF HwEdge, Delivers
<1>2. rxf \in Seq(RxWordType) /\ (MValid => RxWord \in RxWordType)
  BY RxWordTyped DEF PlaneInv, FifoTypes
<1>3. ASSUME popped = 0 PROVE rxf' = IF Delivers THEN Append(rxf, RxWord) ELSE rxf
  <2>1. SubSeq(rxf, popped + 1, Len(rxf)) = rxf
    <3>1. popped + 1 = 1
      BY <1>3
    <3> QED  BY <1>2, <3>1, SubSeqFull
  <2>2. CASE Delivers
    <3>1. rxf' = rxf \o <<RxWord>> /\ RxWord \in RxWordType
      BY <1>1, <1>2, <2>1, <2>2 DEF Delivers
    <3> QED  BY <1>2, <2>2, <3>1, AppendIsConcat
  <2>3. CASE ~Delivers
    BY <1>1, <1>2, <2>1, <2>3, ConcatEmptySeq
  <2> QED  BY <2>2, <2>3
<1>4. ASSUME ~MValid PROVE rxf' = SubSeq(rxf, popped + 1, Len(rxf)) /\ ~Delivers
  <2>1. rxf' = SubSeq(rxf, popped + 1, Len(rxf)) \o <<>>
    BY <1>1, <1>4 DEF Delivers
  <2> DEFINE s == SubSeq(rxf, popped + 1, Len(rxf))
  <2>2. s \o <<>> = s
    OBVIOUS
  <2> QED  BY <1>4, <2>1, <2>2 DEF Delivers
<1> QED  BY <1>3, <1>4

LEMMA Remains == ASSUME NEW n \in 0..255, NEW p \in Nat, p < n PROVE n - p \in 0..255
OBVIOUS

\* The engine and the status registers count the words of the result.
LEMMA CameStep ==
    ASSUME PlaneInv, Sends, pc \in Live, call' = call, NEW pushed,
           HwEdge(NoWrite, pushed, 0),
           NEW r \in 0..WordsFor(call.job.msglen), Came(r)
    PROVE  \/ /\ Came(r)' /\ ~Delivers
           \/ /\ r + 1 \in 0..WordsFor(call.job.msglen) /\ Came(r + 1)'
              /\ Delivers /\ RxWord = Result(call.job, r + 1)
<1> DEFINE W == WordsFor(call.job.msglen)
<1>1. W \in Nat /\ r \in Nat /\ call.job.msglen \in Nat /\ W' = W
  BY Lengths
<1>2. Edge /\ RegEdge(NoWrite) /\ tagvR \in BOOLEAN /\ OwnJob /\ OwnAnswer /\ (doneO => est = "IDLE")
      /\ EngineTyped
  BY IsEdge DEF PlaneInv, RegTypes, Sends, EngineOwn, Received, EngineSound
<1>3. doneR' = (doneO \/ doneR)
  <2>1. NoWrite.reg = "none"
    BY DEF NoWrite
  <2> QED  BY <1>2, <2>1, RegMoves
<1>4. CASE est \in {"IDLE", "DONE"}
  <2>1. ~Delivers
    BY <1>4 DEF Delivers, MValid
  <2>2. CASE est = "DONE"
    <3>1. doneO' /\ est' = "IDLE"
      BY <1>2, <2>2 DEF Edge, EngineEdge, IdleEdge, RxEdge, RunEdge, BusyEdge, WaitEdge, TxEdge,
                        DoneEdge
    <3>2. r = W
      BY <2>2 DEF Came, Over
    <3> QED  BY <1>1, <2>1, <3>1, <3>2 DEF Came, Over
  <2>3. CASE est = "IDLE"
    <3>1. ~doneO' /\ est' \in {"IDLE", "RX"} /\ (startPulse <=> est' = "RX")
      BY <1>2, <2>3, EngineMoves DEF IdleEdge
    <3>2. startPulse => ~doneO /\ ~doneR
      BY <1>2 DEF OwnJob
    <3>3. Over' <=> Over
      BY <1>3, <2>3, <3>1 DEF Over
    <3> QED  BY <1>1, <2>1, <2>3, <3>1, <3>3 DEF Came
  <2> QED  BY <1>4, <2>2, <2>3
<1>5. CASE est \in {"RX", "RUN", "BUSY", "WAIT"}
  <2>1. ~Delivers /\ ~doneO /\ ~doneR
    BY <1>2, <1>5 DEF Delivers, MValid, OwnJob, HasJob
  <2>2. r = 0 /\ ~doneR'
    BY <1>3, <1>5, <2>1 DEF Came, Over
  <2>3. CASE est # "WAIT"
    <3>1. est' \in {"RX", "RUN", "BUSY", "WAIT"} /\ ~doneO'
      BY <1>2, <1>5, <2>3 DEF Edge, EngineEdge, IdleEdge, RxEdge, RunEdge, BusyEdge, WaitEdge,
                              TxEdge, DoneEdge
    <3> QED  BY <2>1, <2>2, <3>1 DEF Came, Over
  <2>4. CASE est = "WAIT"
    <3>1. /\ ~doneO'
          /\ \/ est' = "WAIT"
             \/ est' = "DONE" /\ job.msglen = 0
             \/ est' = "TX" /\ job.msglen # 0 /\ txpos' = 0
      BY <1>2, <2>4 DEF Edge, EngineEdge, IdleEdge, RxEdge, RunEdge, BusyEdge, WaitEdge,
                        TxEdge, DoneEdge
    <3>2. job = call.job
      BY <1>2, <2>4 DEF OwnJob, HasJob
    <3>3. WordsFor(0) = 0 /\ 0 * BeatBytes = 0
      BY NoWords
    <3>4. call.job.msglen # 0 => 0 < W
      BY <1>1, SomeWords
    <3> QED  BY <1>1, <2>1, <2>2, <3>1, <3>2, <3>3, <3>4 DEF Came, Over
  <2> QED  BY <1>5, <2>3, <2>4
<1>6. CASE est = "TX"
  <2>1. job = call.job /\ ~doneO /\ ~doneR /\ ~doneR'
    BY <1>2, <1>3, <1>6 DEF OwnJob, HasJob
  <2>2. r < W /\ txpos = r * BeatBytes /\ txpos < job.msglen /\ res = Ideal(job)
    BY <1>2, <1>6 DEF Came, EngineTyped, OwnAnswer, HasResult
  <2>3. ~doneO' /\ TxEdge(Len(rxf) < RxDepth)
    BY <1>6 DEF HwEdge, EngineEdge, IdleEdge, RxEdge, RunEdge, BusyEdge, WaitEdge, TxEdge, DoneEdge
  <2>4. CASE ~Delivers
    <3>1. est' = "TX" /\ txpos' = txpos
      BY <1>6, <2>3, <2>4 DEF TxEdge, Delivers, MValid
    <3> QED  BY <1>1, <2>1, <2>2, <2>3, <2>4, <3>1 DEF Came, Over
  <2>5. CASE Delivers
    <3>1. IF TxRem <= BeatBytes THEN est' = "DONE" ELSE est' = "TX" /\ txpos' = Wrap8(txpos + BeatBytes)
      BY <1>6, <2>3, <2>5 DEF TxEdge, Delivers
    <3>2. /\ txpos \in Nat /\ txpos + BeatBytes = (r + 1) * BeatBytes
          /\ call.job.msglen - txpos > BeatBytes => r + 1 < W
          /\ ~(call.job.msglen - txpos > BeatBytes) => r + 1 = W
      BY <1>1, <2>1, <2>2, NextWord
    <3>3. TxRem = call.job.msglen - txpos /\ call.job.msglen \in 0..255
      <4>1. call.job.msglen \in 0..MsgMax
        <5>1. pc # "returned"
          BY DEF Live
        <5> QED  BY <5>1, CallFacts DEF PlaneInv
      <4>2. call.job.msglen - txpos \in 0..255 /\ call.job.msglen \in 0..255
        <5>1. txpos < call.job.msglen
          BY <2>1, <2>2
        <5>2. call.job.msglen \in 0..255
          BY <4>1, EngineAssumption
        <5>3. txpos \in Nat
          BY <3>2
        <5> QED  BY <5>1, <5>2, <5>3, Remains
      <4> QED  BY <2>1, <4>2, Wraps DEF TxRem
    <3>4. RxWord = Result(call.job, r + 1)
      <4>1. (r + 1 - 1) * BeatBytes = txpos
        <5>1. r + 1 - 1 = r
          BY <1>1
        <5> QED  BY <2>2, <5>1
      <4> QED  BY <2>1, <2>2, <4>1 DEF RxWord, Result
    <3>5. CASE TxRem <= BeatBytes
      <4>1. est' = "DONE" /\ r + 1 = W
        BY <3>1, <3>2, <3>3, <3>5, Sizes
      <4> QED  BY <1>1, <2>5, <3>4, <4>1 DEF Came, Over
    <3>6. CASE ~(TxRem <= BeatBytes)
      <4>1. call.job.msglen - txpos > BeatBytes /\ txpos + BeatBytes \in 0..255
        BY <1>1, <3>2, <3>3, <3>6, Sizes
      <4>2. est' = "TX" /\ txpos' = (r + 1) * BeatBytes /\ r + 1 < W
        BY <3>1, <3>2, <3>6, <4>1, Wraps
      <4> QED  BY <1>1, <2>1, <2>3, <2>5, <3>4, <4>2 DEF Came, Over
    <3> QED  BY <3>5, <3>6
  <2> QED  BY <2>4, <2>5
<1> QED  BY <1>2, <1>4, <1>5, <1>6 DEF EngineTyped, EngineTypeOK, EngineStates

\* The caller's words are the engine's, in order, up to where the driver is.
LEMMA CollectsStep ==
    ASSUME PlaneInv, Sends, Collects, Next, pc \in Live, pc' \in Live
    PROVE  Collects'
<1> DEFINE W == WordsFor(call.job.msglen)
           j == call.job
<1>1. /\ call' = call /\ W' = W /\ j' = j /\ W \in Nat
      /\ DmaTxWord \/ DmaRxWord \/ DmaToSlink \/ DmaTxDone \/ PollDone \/ DmaRxDone \/ Tick
  BY LiveSteps, Lengths
<1>2. CASE pc \in {"dmatx", "dmatxwait", "poll"} /\ ~PollDone
  <2>1. /\ pc' \in {"dmatx", "dmatxwait", "poll"}
        /\ \E pushed : HwEdge(NoWrite, pushed, 0)
    <3>1. ~DmaRxWord /\ ~DmaRxDone
      BY <1>2, DmaTurns DEF DmaRxDone
    <3> QED  BY <1>1, <1>2, <3>1 DEF DmaTxWord, DmaToSlink, DmaTxDone, Tick, driverVars
  <2>2. PICK r \in 0..W : Came(r) /\ rxf = Results(j, 0, r)
    BY <1>2 DEF Collects
  <2>3. PICK pushed : HwEdge(NoWrite, pushed, 0)
    BY <2>1
  <2>4. rxf' = IF Delivers THEN Append(rxf, RxWord) ELSE rxf
    BY <2>3, RxfStep
  <2>5. CASE Came(r)' /\ ~Delivers
    <3>1. rxf' = Results(j, 0, r)
      BY <2>2, <2>4, <2>5
    <3> QED  BY <1>1, <2>1, <2>5, <3>1 DEF Collects
  <2>6. CASE r + 1 \in 0..W /\ Came(r + 1)' /\ Delivers /\ RxWord = Result(j, r + 1)
    <3>1. rxf' = Results(j, 0, r + 1)
      <4>1. r \in Nat
        BY <1>1
      <4> QED  BY <2>2, <2>4, <2>6, <4>1, ResultsGrow
    <3> QED  BY <1>1, <2>1, <2>6, <3>1 DEF Collects
  <2> QED  BY <1>1, <2>2, <2>3, <2>5, <2>6, CameStep
\* DONE is seen: the whole result is in the FIFO.
<1>3. CASE PollDone
  <2>1. /\ pc = "poll" /\ doneR /\ HwEdge(NoWrite, <<>>, 0) /\ UNCHANGED <<rxbuf, output>>
        /\ IF j.msglen > 0 /\ call.out
           THEN pc' = "dmarx" /\ dmaq' = dmaq \o [k \in 1..W |-> RxMove]
           ELSE pc' = "tag"
    BY <1>3 DEF PollDone
  <2>2. PICK r \in 0..W : Came(r) /\ rxf = Results(j, 0, r)
    BY <2>1 DEF Collects
  <2>3. r = W /\ est = "IDLE"
    BY <2>1, <2>2 DEF Came, Over, Sends, OwnJob, HasJob
  <2>4. rxf' = Results(j, 0, W)
    BY <2>1, <2>2, <2>3, RxfStep DEF MValid
  <2>5. rxbuf = <<>> /\ output = <<>> /\ dmaq = <<>>
    <3>1. dmaq = <<>>
      BY <2>1 DEF Sends, Flow, Sent
    <3> QED  BY <2>1, <3>1 DEF PlaneInv, DriverTypes
  <2>6. Results(j, 0, 0) = <<>> /\ (W = 0 => Results(j, 0, W) = <<>>)
    BY NoResults
  <2>7. CASE j.msglen > 0 /\ call.out
    <3> DEFINE q == [k \in 1..W |-> RxMove]
    <3>1. q \in Seq({RxMove})
      <4>1. q \in [1..W -> {RxMove}]
        OBVIOUS
      <4> QED  BY <1>1, <4>1, FunctionIsSeq
    <3>2. q = [k \in 1..(W - 0) |-> RxMove] /\ 0 \in 0..W
      BY <1>1
    <3> HIDE DEF q
    <3>3. dmaq' = q
      BY <2>1, <2>5, <2>7, <3>1, ConcatEmptySeq DEF q
    <3> QED  BY <1>1, <2>1, <2>4, <2>5, <2>6, <2>7, <3>2, <3>3 DEF Collects
  <2>8. CASE ~(j.msglen > 0 /\ call.out)
    <3>1. pc' = "tag"
      BY <2>1, <2>8
    <3>2. j.msglen \in Nat
      BY Lengths
    <3>3. (j.msglen # 0 => 0 < W) /\ (j.msglen = 0 => W = 0)
      BY <3>2, SomeWords, NoWords
    <3>4. call.out \/ W = 0 => W = 0
      BY <2>8, <3>2, <3>3
    <3>5. W = 0 => output' = ResultWords(j) /\ rxf' = <<>>
      BY <1>1, <2>1, <2>4, <2>5, <2>6, WholeResult
    <3> QED  BY <1>1, <3>1, <3>4, <3>5 DEF Collects
  <2> QED  BY <2>7, <2>8
<1>4. CASE pc = "dmarx"
  <2>1. PICK c \in 0..W : /\ rxbuf = Results(j, 0, c) /\ rxf = Results(j, c, W)
                          /\ dmaq = [k \in 1..(W - c) |-> RxMove]
    BY <1>4 DEF Collects
  <2>2. c \in Nat /\ c <= W
    BY <1>1
  <2>3. ~MValid
    BY <1>4 DEF MValid, Sends, OwnJob, HasJob
  <2>4. DmaRxWord \/ DmaRxDone \/ Tick
    BY <1>1, <1>4, DmaTurns DEF DmaToSlink, DmaTxDone, PollDone
  <2>5. dmaq = <<>> <=> c = W
    <3> DEFINE n == W - c
    <3>1. n \in Nat /\ (n = 0 <=> c = W)
      BY <1>1, <2>2
    <3> HIDE DEF n
    <3>2. dmaq = [k \in 1..n |-> RxMove]
      BY <2>1 DEF n
    <3>3. dmaq \in [1..n -> {RxMove}]
      BY <3>2
    <3>4. dmaq \in Seq({RxMove}) /\ Len(dmaq) = n
      BY <3>1, <3>3, FunctionIsSeq
    <3> QED  BY <3>1, <3>4, EmptySeq
  <2>6. CASE DmaRxWord
    <3>1. /\ dmaq # <<>> /\ dmaq' = Tail(dmaq) /\ pc' = pc
          /\ HwEdge(NoWrite, <<>>, IF rxf = <<>> THEN 0 ELSE 1)
          /\ rxbuf' = Append(rxbuf, IF rxf = <<>> THEN Junk ELSE Head(rxf))
      BY <1>4, <2>6 DEF DmaRxWord, DmaIdle
    <3>2. c < W /\ c + 1 \in 0..W
      BY <1>1, <2>2, <2>5, <3>1
    <3>3. /\ rxf # <<>> /\ Head(rxf) = Result(j, c + 1)
          /\ SubSeq(rxf, 2, Len(rxf)) = Results(j, c + 1, W)
      BY <1>1, <2>1, <2>2, <3>2, ResultsShrink
    <3>4. rxf' = Results(j, c + 1, W)
      <4>1. HwEdge(NoWrite, <<>>, 1) /\ 1 + 1 = 2
        BY <3>1, <3>3
      <4>2. rxf' = SubSeq(rxf, 1 + 1, Len(rxf))
        BY <2>3, <4>1, RxfStep
      <4> QED  BY <3>3, <4>1, <4>2
    <3>5. rxbuf' = Results(j, 0, c + 1)
      BY <2>1, <2>2, <3>1, <3>3, ResultsGrow
    <3>6. dmaq' = [k \in 1..(W - (c + 1)) |-> RxMove]
      <4> DEFINE n == W - c
      <4>1. n \in Nat \ {0} /\ W - (c + 1) = n - 1
        BY <1>1, <2>2, <3>2
      <4> HIDE DEF n
      <4>2. dmaq = [k \in 1..n |-> RxMove]
        BY <2>1 DEF n
      <4>3. Tail(dmaq) = [k \in 1..(n - 1) |-> RxMove]
        BY <4>1, <4>2, MovesShrink
      <4> QED  BY <3>1, <4>1, <4>3
    <3> QED  BY <1>1, <1>4, <3>1, <3>2, <3>4, <3>5, <3>6 DEF Collects
  <2>7. CASE DmaRxDone
    <3>1. /\ dmaq = <<>> /\ pc' = "tag" /\ output' = rxbuf /\ HwEdge(NoWrite, <<>>, 0)
      BY <2>7 DEF DmaRxDone, DmaIdle
    <3>2. rxf' = rxf
      BY <2>3, <3>1, RxfStep
    <3>3. rxf = <<>> /\ rxbuf = ResultWords(j)
      BY <1>1, <2>1, <2>2, <2>5, <3>1, NoResults, WholeResult
    <3> QED  BY <1>1, <3>1, <3>2, <3>3 DEF Collects
  <2>8. CASE Tick
    <3>1. HwEdge(NoWrite, <<>>, 0) /\ UNCHANGED <<pc, rxbuf, dmaq>>
      BY <2>8 DEF Tick, driverVars
    <3>2. rxf' = rxf
      BY <2>3, <3>1, RxfStep
    <3> QED  BY <1>1, <1>4, <2>1, <3>1, <3>2 DEF Collects
  <2> QED  BY <2>4, <2>6, <2>7, <2>8
<1>5. CASE pc = "tag"
  <2>1. Tick
    BY <1>1, <1>5, DmaTurns DEF DmaToSlink, DmaTxDone, PollDone, DmaRxDone
  <2>2. HwEdge(NoWrite, <<>>, 0) /\ UNCHANGED <<pc, output>>
    BY <2>1 DEF Tick, driverVars
  <2>3. ~MValid
    BY <1>5 DEF MValid, Sends, OwnJob, HasJob
  <2>4. rxf' = rxf
    BY <2>2, <2>3, RxfStep
  <2> QED  BY <1>1, <1>5, <2>2, <2>4 DEF Collects
<1> QED  BY <1>2, <1>3, <1>4, <1>5 DEF Live

-----------------------------------------------------------------------------
(* A call whose START found the data plane at rest, whatever gave up       *)
(* before it.                                                              *)

\* What the call returns, unless it gives up.
LEMMA FinishOwn ==
    ASSUME PlaneInv, Sends, Finish, call.out => output = ResultWords(call.job)
    PROVE  AnswerIsOwn'
<1>1. /\ pc = "tag" /\ UNCHANGED <<call, output>>
      /\ tagOut' = (IF call.job.dec THEN tagOut ELSE tagR)
      /\ ret' = CASE call.job.dec /\ ~status.tagv -> "TAG_INVALID"
                  [] ~(call.job.dec /\ ~status.tagv) /\ status.err -> "HARDWARE"
                  [] OTHER -> "OK"
  BY DEF Finish, Returns
<1>2. /\ tagR = Ideal(call.job)
      /\ status = [tagv |-> Genuine(call.job), err |-> ~Genuine(call.job)]
  BY <1>1 DEF Sends, OwnJob, Answer
<1>3. call.job.dec \in BOOLEAN /\ call.job.tagok \in BOOLEAN
  <2>1. pc # "returned"
    BY <1>1
  <2> QED  BY <2>1, CallFacts DEF PlaneInv
<1>4. ret' = IF call.job.dec /\ ~call.job.tagok THEN "TAG_INVALID" ELSE "OK"
  <2>1. CASE call.job.dec /\ ~call.job.tagok
    BY <1>1, <1>2, <2>1 DEF Genuine
  <2>2. CASE ~(call.job.dec /\ ~call.job.tagok)
    <3>1. status.tagv = TRUE /\ status.err = FALSE
      BY <1>2, <1>3, <2>2 DEF Genuine
    <3> QED  BY <1>1, <2>2, <3>1
  <2> QED  BY <2>1, <2>2
<1> QED  BY <1>1, <1>2, <1>4 DEF AnswerIsOwn

Own == Sends /\ Collects

FreshInv == PlaneInv /\ (fresh /\ pc \in Live => Own) /\ OwnResultIfFresh

\* The steps that lead into and out of the waits.
LEMMA LiveEdges ==
    ASSUME PlaneInv, Next
    PROVE  /\ pc \notin Live /\ pc' \in Live => WriteStart
           /\ pc \in Live /\ pc' \notin Live => Finish \/ Timeout
           /\ pc' = "returned" =>
                 \/ /\ pc = "returned"
                    /\ UNCHANGED <<call, output, tagOut, ret, fresh>>
                 \/ Finish \/ Timeout
           /\ ~WriteStart => fresh' = fresh
<1>1. CASE \E c \in Calls : Call(c)
  BY <1>1 DEF Call, Live
<1>2. CASE WriteClear \/ WriteParams \/ WriteStart
  BY <1>2 DEF WriteClear, WriteParams, WriteStart, DriverWrites, Live
<1>3. CASE DmaToSlink \/ DmaTxDone \/ PollDone \/ DmaRxDone
  BY <1>3 DEF DmaToSlink, DmaTxDone, PollDone, DmaRxDone, Live
<1>4. CASE Finish \/ Timeout
  BY <1>4 DEF Finish, Timeout, Returns, Live
<1>5. CASE DmaTxWord \/ DmaRxWord \/ Tick
  BY <1>5 DEF DmaTxWord, DmaRxWord, Tick, driverVars
<1> QED  BY <1>1, <1>2, <1>3, <1>4, <1>5 DEF Next, Driver, Dma

\* The same START with an empty RX FIFO: no word of the result has come yet.
LEMMA CollectsStart ==
    ASSUME PlaneInv, WriteStart, est' = "IDLE", ~doneO', rxf' = <<>>
    PROVE  Collects'
<1>1. pc' = "dmatx" /\ call' = call /\ pc = "start" /\ HwEdge(StartWrite(call.job.dec), <<>>, 0)
  BY DEF WriteStart, DriverWrites
<1>2. ~doneR'
  <2>1. RegEdge(StartWrite(call.job.dec)) /\ tagvR \in BOOLEAN
    BY <1>1, IsEdge DEF PlaneInv, RegTypes
  <2> DEFINE w == StartWrite(call.job.dec)
  <2>2. w.reg = "start"
    BY DEF StartWrite
  <2> HIDE DEF w
  <2> QED  BY <2>1, <2>2, RegMoves DEF w
<1>3. WordsFor(call.job.msglen) \in Nat /\ WordsFor(call.job.msglen)' = WordsFor(call.job.msglen)
  <2>1. call.job \in Jobs
    BY <1>1, CallFacts DEF PlaneInv
  <2> QED  BY <1>1, <2>1, PayloadTypes
<1>4. Came(0)'
  BY <1>2 DEF Came, Over
<1>5. rxf' = Results(call.job, 0, 0)'
  BY NoResults
<1> QED  BY <1>1, <1>3, <1>4, <1>5 DEF Collects

\* From START to the answer, for a call that owns the data plane.
LEMMA OwnNext ==
    ASSUME TxDepth > 1, PlaneInv, pc \in Live => Own, pc \in Live, Next
    PROVE  /\ pc' \in Live => Own'
           /\ Finish => AnswerIsOwn'
<1>1. ASSUME pc' \in Live PROVE Own'
  BY <1>1, SendsStep, CollectsStep DEF Own
<1>2. ASSUME Finish PROVE AnswerIsOwn'
  <2>1. pc = "tag"
    BY <1>2 DEF Finish
  <2>2. call.out => output = ResultWords(call.job)
    BY <2>1 DEF Own, Collects
  <2> QED  BY <1>2, <2>2, FinishOwn DEF Own
<1> QED  BY <1>1, <1>2

LEMMA NextFresh == TxDepth > 1 /\ FreshInv /\ [Next]_vars => FreshInv'
<1> SUFFICES ASSUME TxDepth > 1, FreshInv, [Next]_vars PROVE FreshInv'
  OBVIOUS
<1>1. PlaneInv /\ PlaneInv'
  BY NextPlane DEF FreshInv
<1>2. CASE UNCHANGED vars
  <2>1. UNCHANGED axisVars /\ UNCHANGED shimVars /\ UNCHANGED regVars /\ UNCHANGED driverVars
        /\ UNCHANGED <<txf, rxf, dmaq>>
    BY <1>2 DEF vars, hwVars
  <2>2. /\ UNCHANGED <<est, job, adpos, msgpos, txpos, adbuf, msgbuf>>
        /\ UNCHANGED <<coreStart, res, validO, doneO>> /\ UNCHANGED <<sst, sad, smsg, cnt>>
        /\ UNCHANGED <<preg, decryptR, startPulse, busyR, doneR, tagR, tagvR, errR>>
        /\ UNCHANGED <<pc, call, rxbuf, status, output, tagOut, ret, fresh, timeouts>>
    BY <2>1 DEF axisVars, engineVars, shimVars, regVars, driverVars
  <2>3. Sends' <=> Sends
    <3>1. EngineOwn' <=> EngineOwn
      BY <2>2 DEF EngineOwn, Received, HasJob, Loaded, OwnAnswer, HasResult, AdPrefix, MsgPrefix
    <3>2. ShimInStep' <=> ShimInStep
      BY <2>2 DEF ShimInStep
    <3>3. OwnJob' <=> OwnJob
      BY <2>2 DEF OwnJob, HasJob, Answer, Genuine
    <3>4. Flow' <=> Flow
      BY <2>1, <2>2 DEF Flow, Pulled, Stored, Sent, ToSend
    <3> QED  BY <3>1, <3>2, <3>3, <3>4 DEF Sends
  <2>4. Collects' <=> Collects
    BY <2>1, <2>2 DEF Collects, Came, Over
  <2>5. OwnResultIfFresh' <=> OwnResultIfFresh
    BY <2>2 DEF OwnResultIfFresh, Answered, AnswerIsOwn
  <2> QED  BY <1>1, <2>2, <2>3, <2>4, <2>5 DEF FreshInv, Own
<1>3. CASE Next
  <2>1. fresh' /\ pc' \in Live => Own'
    <3> SUFFICES ASSUME fresh', pc' \in Live PROVE Own'
      OBVIOUS
    <3>1. CASE WriteStart
      <4>1. est' = "IDLE" /\ ~doneO' /\ sst' = "IDLE" /\ txf' = <<>> /\ rxf' = <<>> /\ dmaq = <<>>
        BY <3>1 DEF WriteStart, DmaIdle
      <4> QED  BY <1>1, <3>1, <4>1, SendsStart, CollectsStart DEF Own
    <3>2. CASE ~WriteStart
      <4>1. fresh /\ pc \in Live
        BY <1>1, <1>3, <3>2, LiveEdges
      <4> QED  BY <1>1, <1>3, <4>1, OwnNext DEF FreshInv
    <3> QED  BY <3>1, <3>2
  <2>2. OwnResultIfFresh'
    <3> SUFFICES ASSUME Answered', ret' # "TIMEOUT", fresh' PROVE AnswerIsOwn'
      BY DEF OwnResultIfFresh
    <3>1. pc' = "returned" /\ call' # None
      BY DEF Answered
    <3>2. ~Timeout
      BY DEF Timeout, Returns
    <3>3. CASE pc = "returned" /\ UNCHANGED <<call, output, tagOut, ret, fresh>>
      <4>1. Answered /\ ret # "TIMEOUT" /\ fresh
        BY <3>1, <3>3 DEF Answered
      <4> QED  BY <3>3, <4>1 DEF FreshInv, OwnResultIfFresh, AnswerIsOwn
    <3>4. CASE Finish
      <4>1. pc \in Live /\ fresh
        BY <3>4 DEF Finish, Live
      <4> QED  BY <1>1, <1>3, <3>4, <4>1, OwnNext DEF FreshInv
    <3> QED  BY <1>1, <1>3, <3>1, <3>2, <3>3, <3>4, LiveEdges
  <2> QED  BY <1>1, <2>1, <2>2 DEF FreshInv
<1> QED  BY <1>2, <1>3

\* However many calls gave up before and left the engine, the shim, the FIFOs
\* and the DMA where they were: a call whose START found them at rest, and that
\* does not give up itself, returns the result and the tag of its own job.  It
\* takes a TX FIFO of two words, because START comes before the payload
\* (firmware/ascon_slink/ascon_slink.c, rtl/soc/ascon_slink_shim.v,
\* ascon_aead128_slink_mmio.v, rtl/generated/accel/ascon_aead128_axis.v).
THEOREM FreshOwnResult == TxDepth > 1 => (Spec => []OwnResultIfFresh)
<1> SUFFICES ASSUME TxDepth > 1 PROVE Spec => []OwnResultIfFresh
  OBVIOUS
<1>1. Init => FreshInv
  <2> SUFFICES ASSUME Init PROVE FreshInv
    OBVIOUS
  <2>1. fresh = FALSE
    BY DEF Init
  <2> QED  BY <2>1, InitPlane DEF FreshInv, OwnResultIfFresh
<1>2. FreshInv /\ [Next]_vars => FreshInv'
  BY NextFresh
<1>3. FreshInv => OwnResultIfFresh
  BY DEF FreshInv
<1> QED  BY <1>1, <1>2, <1>3, PTL DEF Spec

-----------------------------------------------------------------------------
(* As long as no call gives up: every START finds shim, engine, TX FIFO    *)
(* and DMA at rest, and the RX FIFO empty if it is flushed or everything   *)
(* the engine returns is collected.                                        *)

Rest ==
    /\ est = "IDLE" /\ ~startPulse /\ ~doneO /\ sst = "IDLE"
    /\ txf = <<>> /\ dmaq = <<>> /\ ~busyR

\* Every call that gets a result passes a buffer for it.
AllCollected == \A c \in Calls : c.out \/ c.job.msglen = 0

TurnInv ==
    /\ FreshInv
    /\ pc \in Live => Sends
    /\ pc \notin Live => Rest
    /\ AllCollected /\ pc \notin Live => rxf = <<>>
    /\ SetupFlushes /\ pc \in Early => rxf = <<>>
    /\ (SetupFlushes \/ AllCollected) /\ (pc \in Live \/ Answered) => fresh

\* After the last access of a call nothing is left, ...
LEMMA FinishRests ==
    ASSUME PlaneInv, Sends, pc = "tag"
    PROVE  Rest
<1>1. doneR /\ ~busyR /\ est = "IDLE" /\ ~doneO /\ ~startPulse
  <2>1. OwnJob /\ doneR
    BY DEF Sends, OwnJob
  <2> QED  BY <2>1 DEF OwnJob, HasJob, PlaneInv, Latched
<1>2. sst = "IDLE"
  BY <1>1 DEF Sends, ShimInStep
<1>3. PICK n \in 0..PayloadLen(call.job), m \in 0..PayloadLen(call.job) :
         Pulled(n) /\ Stored(n, m) /\ Sent(m)
  BY DEF Sends, Flow
<1>4. dmaq = <<>> /\ n = PayloadLen(call.job) /\ m = PayloadLen(call.job)
  BY <1>1, <1>2, <1>3 DEF Sent, Pulled
<1>5. PayloadLen(call.job) \in Nat
  BY Lengths DEF Live
<1>6. txf = <<>>
  <2>1. m # n + 1
    BY <1>4, <1>5
  <2> QED  BY <1>3, <2>1 DEF Stored
<1> QED  BY <1>1, <1>2, <1>4, <1>6 DEF Rest

\* ... and it stays so for an edge that is not a START.
LEMMA RestEdge ==
    ASSUME PlaneInv, Rest, NEW w, Edge, RegEdge(w)
    PROVE  /\ est' = "IDLE" /\ ~doneO' /\ sst' = "IDLE"
           /\ w.reg # "start" => ~startPulse' /\ ~busyR'
<1>1. w.reg # "start" => ~startPulse' /\ ~busyR'
  <2>1. tagvR \in BOOLEAN /\ ~busyR
    BY DEF PlaneInv, RegTypes, Rest
  <2> QED  BY <2>1, RegMoves
<1>2. est' = "IDLE" /\ ~doneO'
  BY EngineMoves DEF Rest, IdleEdge
<1>3. ~BeatTaken
  BY DEF Rest, BeatTaken, ShimValid
<1>4. sst' = "IDLE"
  BY <1>3 DEF Rest, Edge, ShimEdge, ShimStarts, ShimForwards, ShimHolds, shimVars
<1> QED  BY <1>1, <1>2, <1>4

LEMMA RestFifos ==
    ASSUME PlaneInv, Rest, NEW w, HwEdge(w, <<>>, 0)
    PROVE  txf' = <<>> /\ rxf' = rxf /\ Edge /\ RegEdge(w)
<1>1. ~WordTaken /\ ~MValid
  BY DEF Rest, BeatTaken, WordTaken, ShimValid, MValid
<1>2. txf' = <<>>
  BY <1>1 DEF Rest, HwEdge
<1> QED  BY <1>1, <1>2, RxfStep, IsEdge

LEMMA InitTurn == Init => TurnInv
<1> SUFFICES ASSUME Init PROVE TurnInv
  OBVIOUS
<1>1. pc \notin Live /\ pc \notin Early /\ ~Answered /\ rxf = <<>>
  BY DEF Init, Live, Early, Answered
<1>2. Rest
  BY DEF Init, EngineInit, Rest
<1>3. FreshInv
  <2>1. fresh = FALSE
    BY DEF Init
  <2> QED  BY <2>1, InitPlane DEF FreshInv, OwnResultIfFresh
<1> QED  BY <1>1, <1>2, <1>3 DEF TurnInv

LEMMA NextTurn == MaxTimeouts = 0 /\ TxDepth > 1 /\ TurnInv /\ [Next]_vars => TurnInv'
<1> SUFFICES ASSUME MaxTimeouts = 0, TxDepth > 1, TurnInv, [Next]_vars PROVE TurnInv'
  OBVIOUS
<1>1. PlaneInv /\ FreshInv'
  BY NextFresh DEF TurnInv, FreshInv
<1>2. CASE UNCHANGED vars
  <2>1. UNCHANGED axisVars /\ UNCHANGED shimVars /\ UNCHANGED regVars /\ UNCHANGED driverVars
        /\ UNCHANGED <<txf, rxf, dmaq>>
    BY <1>2 DEF vars, hwVars
  <2>2. /\ UNCHANGED <<est, job, adpos, msgpos, txpos, adbuf, msgbuf>>
        /\ UNCHANGED <<coreStart, res, validO, doneO>> /\ UNCHANGED <<sst, sad, smsg, cnt>>
        /\ UNCHANGED <<preg, decryptR, startPulse, busyR, doneR, tagR, tagvR, errR>>
        /\ UNCHANGED <<pc, call, rxbuf, status, output, tagOut, ret, fresh, timeouts>>
    BY <2>1 DEF axisVars, engineVars, shimVars, regVars, driverVars
  <2>3. Rest' <=> Rest
    BY <2>1, <2>2 DEF Rest
  <2>4. Sends' <=> Sends
    <3>1. EngineOwn' <=> EngineOwn
      BY <2>2 DEF EngineOwn, Received, HasJob, Loaded, OwnAnswer, HasResult, AdPrefix, MsgPrefix
    <3>2. ShimInStep' <=> ShimInStep
      BY <2>2 DEF ShimInStep
    <3>3. OwnJob' <=> OwnJob
      BY <2>2 DEF OwnJob, HasJob, Answer, Genuine
    <3>4. Flow' <=> Flow
      BY <2>1, <2>2 DEF Flow, Pulled, Stored, Sent, ToSend
    <3> QED  BY <3>1, <3>2, <3>3, <3>4 DEF Sends
  <2> QED  BY <1>1, <2>1, <2>2, <2>3, <2>4 DEF TurnInv, Answered, AllCollected
<1>3. CASE Next
  <2>1. ~Timeout
    BY <1>1 DEF Timeout, PlaneInv, DriverTypes
  <2>2. CASE pc \in Live /\ pc' \in Live
    <3>1. Sends'
      BY <1>1, <1>3, <2>2, SendsStep DEF TurnInv
    <3>2. fresh' = fresh /\ ~Answered'
      BY <1>1, <1>3, <2>2, LiveSteps DEF TurnInv, Answered, Live
    <3>3. pc' \notin Early
      BY <2>2 DEF Live, Early
    <3> QED  BY <1>1, <2>2, <3>1, <3>2, <3>3 DEF TurnInv, AllCollected
  <2>3. CASE pc \in Live /\ pc' \notin Live
    <3>1. Finish
      BY <1>1, <1>3, <2>1, <2>3, LiveEdges
    <3>2. /\ pc = "tag" /\ pc' = "returned" /\ HwEdge(NoWrite, <<>>, 0)
          /\ UNCHANGED <<dmaq, fresh>>
      BY <3>1 DEF Finish, Returns
    <3>3. Rest
      BY <1>1, <2>3, <3>2, FinishRests DEF TurnInv
    <3>4. NoWrite.reg # "start"
      BY DEF NoWrite
    <3>5. Rest' /\ rxf' = rxf
      BY <1>1, <3>2, <3>3, <3>4, RestEdge, RestFifos DEF Rest
    <3>6. AllCollected => rxf = <<>>
      <4> SUFFICES ASSUME AllCollected PROVE rxf = <<>>
        OBVIOUS
      <4>1. Collects
        BY <2>3 DEF TurnInv, FreshInv, Own
      <4>2. call.out \/ WordsFor(call.job.msglen) = 0
        <5>1. call \in Calls
          BY <1>1, <3>2 DEF PlaneInv, Types
        <5> QED  BY <5>1, NoWords DEF AllCollected
      <4> QED  BY <3>2, <4>1, <4>2 DEF Collects
    <3> QED  BY <1>1, <2>3, <3>2, <3>5, <3>6 DEF TurnInv, Early, AllCollected
  <2>4. CASE pc \notin Live /\ pc' \in Live
    <3>1. WriteStart
      BY <1>1, <1>3, <2>4, LiveEdges
    <3>2. /\ pc = "start" /\ pc' = "dmatx" /\ HwEdge(StartWrite(call.job.dec), <<>>, 0)
          /\ dmaq' = dmaq
          /\ fresh' = (est' = "IDLE" /\ ~doneO' /\ sst' = "IDLE" /\ txf' = <<>> /\ rxf' = <<>>
                       /\ DmaIdle)
      BY <3>1 DEF WriteStart, DriverWrites
    <3>3. Rest
      BY <2>4 DEF TurnInv
    <3>4. Edge /\ RegEdge(StartWrite(call.job.dec)) /\ txf' = <<>> /\ rxf' = rxf
      BY <1>1, <3>2, <3>3, RestFifos
    <3>5. est' = "IDLE" /\ ~doneO' /\ sst' = "IDLE" /\ dmaq = <<>>
      BY <1>1, <3>3, <3>4, RestEdge DEF Rest
    <3>6. Sends'
      BY <1>1, <3>1, <3>4, <3>5, SendsStart
    <3>7. SetupFlushes \/ AllCollected => fresh'
      <4>1. SetupFlushes \/ AllCollected => rxf = <<>>
        BY <2>4, <3>2 DEF TurnInv, Early
      <4> QED  BY <3>2, <3>4, <3>5, <4>1 DEF DmaIdle
    <3> QED  BY <1>1, <2>4, <3>2, <3>6, <3>7 DEF TurnInv, Early, AllCollected
  <2>5. CASE pc \notin Live /\ pc' \notin Live
    <3>1. Rest /\ dmaq = <<>>
      BY <2>5 DEF TurnInv, Rest
    <3>2. \/ \E c \in Calls : Call(c)
          \/ WriteClear \/ WriteParams \/ Tick
      <4>1. ~WriteStart /\ ~DmaToSlink /\ ~DmaTxDone /\ ~PollDone /\ ~DmaRxDone /\ ~Finish
        BY <2>5 DEF WriteStart, DriverWrites, DmaToSlink, DmaTxDone, PollDone, DmaRxDone, Finish,
                    Live
      <4>2. ~DmaTxWord /\ ~DmaRxWord
        BY <3>1 DEF DmaTxWord, DmaRxWord, DmaIdle
      <4> QED  BY <1>3, <2>1, <4>1, <4>2 DEF Next, Driver, Dma
    <3>3. NoWrite.reg # "start" /\ ClearWrite.reg # "start" /\ ParamWrite(call.job).reg # "start"
      BY DEF NoWrite, ClearWrite, ParamWrite
    <3>4. CASE \E c \in Calls : Call(c)
      <4>1. PICK c \in Calls : Call(c)
        BY <3>4
      <4>2. Edge /\ RegEdge(NoWrite)
        BY <1>1, <4>1, FlushEdge DEF TypedEdge
      <4>3. est' = "IDLE" /\ ~doneO' /\ sst' = "IDLE" /\ ~startPulse' /\ ~busyR'
        BY <1>1, <3>1, <3>3, <4>2, RestEdge
      <4>4. /\ pc' = "clear" /\ dmaq' = <<>>
            /\ SetupFlushes => txf' = <<>> /\ rxf' = <<>>
            /\ ~SetupFlushes => HwEdge(NoWrite, <<>>, 0)
        BY <3>1, <4>1 DEF Call
      <4>5. txf' = <<>> /\ (SetupFlushes => rxf' = <<>>) /\ (AllCollected => rxf' = <<>>)
        BY <1>1, <2>5, <3>1, <4>4, RestFifos DEF TurnInv
      <4>6. Rest' /\ ~Answered'
        BY <4>3, <4>4, <4>5 DEF Rest, Answered
      <4> QED  BY <1>1, <2>5, <4>5, <4>6 DEF TurnInv, AllCollected
    <3>5. CASE WriteClear \/ WriteParams
      <4>1. PICK w : HwEdge(w, <<>>, 0) /\ w.reg # "start"
        BY <3>3, <3>5 DEF WriteClear, WriteParams, DriverWrites
      <4>2. /\ pc \in Early /\ pc' \in Early /\ dmaq' = dmaq
        BY <3>5 DEF WriteClear, WriteParams, DriverWrites, Early
      <4>3. Rest' /\ rxf' = rxf /\ ~Answered'
        BY <1>1, <3>1, <4>1, <4>2, RestEdge, RestFifos DEF Rest, Answered, Early
      <4> QED  BY <1>1, <2>5, <4>2, <4>3 DEF TurnInv, AllCollected
    <3>6. CASE Tick
      <4>1. HwEdge(NoWrite, <<>>, 0) /\ UNCHANGED <<pc, call, fresh, dmaq>>
        BY <3>6 DEF Tick, driverVars
      <4>2. Rest' /\ rxf' = rxf
        BY <1>1, <3>1, <3>3, <4>1, RestEdge, RestFifos DEF Rest
      <4> QED  BY <1>1, <2>5, <4>1, <4>2 DEF TurnInv, Answered, AllCollected
    <3> QED  BY <3>2, <3>4, <3>5, <3>6
  <2> QED  BY <2>2, <2>3, <2>4, <2>5
<1> QED  BY <1>2, <1>3

LEMMA Turning == MaxTimeouts = 0 /\ TxDepth > 1 => (Spec => []TurnInv)
<1> SUFFICES ASSUME MaxTimeouts = 0 /\ TxDepth > 1 PROVE Spec => []TurnInv
  OBVIOUS
<1>1. TurnInv /\ [Next]_vars => TurnInv'
  BY NextTurn
<1> QED  BY <1>1, InitTurn, PTL DEF Spec

\* As long as no call gave up: the DMA never meets a full TX FIFO, where its
\* word would be lost.  Two words are enough for any payload: the engine is
\* started first, and takes a word at every edge
\* (firmware/ascon_slink/ascon_slink.c, rtl/soc/ascon_slink_shim.v).
THEOREM NoWordIsLost == MaxTimeouts = 0 /\ TxDepth > 1 => (Spec => []NoWordLost)
<1> SUFFICES ASSUME MaxTimeouts = 0 /\ TxDepth > 1 PROVE Spec => []NoWordLost
  OBVIOUS
<1>1. TurnInv => NoWordLost
  <2> SUFFICES ASSUME TurnInv, dmaq # <<>> PROVE Len(txf) < TxDepth
    BY DEF NoWordLost, DmaIdle
  <2>1. Sends /\ PlaneInv
    BY DEF TurnInv, FreshInv, Rest
  <2> QED  BY <2>1, HasRoom
<1> QED  BY <1>1, Turning, PTL

\* As long as no call gave up, and either the setup flushes the FIFOs or no
\* result is left uncollected: every call returns the result and the tag of its
\* own job, and TAG_INVALID exactly for a tag that is not the genuine one
\* (firmware/ascon_slink/ascon_slink.c).
THEOREM OwnResults ==
    MaxTimeouts = 0 /\ TxDepth > 1 /\ (SetupFlushes \/ AllCollected) => (Spec => []OwnResult)
<1> SUFFICES ASSUME MaxTimeouts = 0 /\ TxDepth > 1, SetupFlushes \/ AllCollected
             PROVE  Spec => []OwnResult
  OBVIOUS
<1>1. TurnInv => OwnResult
  BY DEF TurnInv, FreshInv, OwnResult, OwnResultIfFresh
<1> QED  BY <1>1, Turning, PTL

\* As long as no call gave up, and every result is collected: no call leaves
\* anything behind for the next (firmware/ascon_slink/ascon_slink.c).
THEOREM NothingIsLeft ==
    MaxTimeouts = 0 /\ TxDepth > 1 /\ AllCollected => (Spec => []NothingLeftBehind)
<1> SUFFICES ASSUME MaxTimeouts = 0 /\ TxDepth > 1, AllCollected
             PROVE  Spec => []NothingLeftBehind
  OBVIOUS
<1>1. TurnInv => NothingLeftBehind
  <2> SUFFICES ASSUME TurnInv, Answered PROVE NothingLeftBehind
    BY DEF NothingLeftBehind
  <2>1. pc \notin Live
    BY DEF Answered, Live
  <2> QED  BY <2>1 DEF TurnInv, Rest, NothingLeftBehind, DmaIdle
<1> QED  BY <1>1, Turning, PTL
=============================================================================
