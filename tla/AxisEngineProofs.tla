-------------------------- MODULE AxisEngineProofs --------------------------
(***************************************************************************)
(* Proofs about the stream engine on its own, shared by the proofs of the  *)
(* systems it is built into: for every beat size, buffer size and set of   *)
(* jobs EngineAssumption allows, and whatever drives the stream.           *)
(*                                                                         *)
(* EngineSound is what an edge preserves when it is offered bytes at all;  *)
(* EngineOwn when it is offered the payload of the job it accepted, in     *)
(* order and with the last beat at its end.                                *)
(***************************************************************************)
EXTENDS AxisEngine, SequenceTheorems, TLAPS

-----------------------------------------------------------------------------
(* The two halves of the engine's inductive invariant.                     *)

HasJob    == est # "IDLE" \/ doneO                            \* job is current
Loaded    == est \in {"RUN", "BUSY", "WAIT", "TX", "DONE"} \/ doneO
HasResult == est \in {"TX", "DONE"} \/ doneO

\* Every register keeps its width, there are parameters outside IDLE, and while
\* sending there is something left to send.
EngineTyped ==
    /\ EngineTypeOK
    /\ est # "IDLE" => job \in Jobs
    /\ coreStart => est # "IDLE"
    /\ est = "TX" => txpos < job.msglen /\ res \in CoreInputs

\* The core is at rest, about to start, at work on the inputs it is shown, or
\* done with them.
CorePhases ==
    /\ est \notin {"BUSY", "WAIT"} => ~coreStart /\ ~cbusy
    /\ est = "BUSY" => coreStart \/ cbusy
    /\ est = "WAIT" => ~coreStart
    /\ ~(coreStart /\ cbusy)
    /\ cbusy => creq = CoreInput /\ cresult = None
    /\ (est = "WAIT" /\ ~cbusy) => cresult = CoreInput

EngineSound == EngineTyped /\ CorePhases

AdPrefix(j, n)  == [i \in 0..AdMax-1  |-> IF i < n THEN AdByte(j, i)  ELSE Zero]
MsgPrefix(j, n) == [i \in 0..MsgMax-1 |-> IF i < n THEN MsgByte(j, i) ELSE Zero]

\* What has been received is a prefix of the payload, and all of it once the
\* core is started.
Received ==
    /\ doneO => est = "IDLE"
    /\ HasJob =>
          /\ job \in Jobs
          /\ adpos <= job.adlen /\ adbuf = AdPrefix(job, adpos)
          /\ msgpos <= job.msglen /\ msgbuf = MsgPrefix(job, msgpos)
    /\ Loaded => adpos = job.adlen /\ msgpos = job.msglen

\* The result is the one of this job, with this job's verdict.
OwnAnswer == HasResult => res = Ideal(job) /\ validO = (job.dec => job.tagok)

EngineOwn == Received /\ OwnAnswer

EngineInv == EngineSound /\ EngineOwn

\* What the stream must offer for that: nothing, or the next bytes of one of
\* the segments, and the end of the message only with the payload complete.
PayloadBeat(b) ==
    \/ b = NoBeat
    \/ \E n \in Nat, last \in BOOLEAN :
          /\ adpos + n <= job.adlen
          /\ b = Beat([i \in 1..n |-> AdByte(job, adpos + (i - 1))], 0, last)
    \/ \E n \in Nat, last \in BOOLEAN :
          /\ msgpos + n <= job.msglen
          /\ last => msgpos + n = job.msglen /\ adpos = job.adlen
          /\ b = Beat([i \in 1..n |-> MsgByte(job, msgpos + (i - 1))], 1, last)

-----------------------------------------------------------------------------
(* Facts about numbers, sequences and buffers.                             *)

LEMMA Wraps == \A n \in 0..255 : Wrap8(n) = n
BY DEF Wrap8

LEMMA FunctionIsSeq ==
    ASSUME NEW S, NEW m \in Nat, NEW f \in [1..m -> S]
    PROVE  f \in Seq(S) /\ Len(f) = m
<1>1. f \in Seq(S)
  BY SeqDef
<1>2. DOMAIN f = 1 .. m /\ DOMAIN f = 1 .. Len(f) /\ Len(f) \in Nat
  BY <1>1, LenProperties
<1> QED  BY <1>1, <1>2

\* The lengths of a job and the sizes of the buffers fit the 8-bit registers.
LEMMA JobFacts ==
    ASSUME NEW j \in Jobs
    PROVE  /\ j.id \in Ids /\ j.dec \in BOOLEAN /\ j.tagok \in BOOLEAN
           /\ j.adlen \in 0..AdMax /\ j.msglen \in 0..MsgMax
BY EngineAssumption DEF JobType

LEMMA Sizes ==
    /\ BeatBytes \in Nat /\ BeatBytes > 0 /\ AdMax \in Nat /\ MsgMax \in Nat
    /\ AdMax + BeatBytes < 256 /\ MsgMax + BeatBytes < 256
BY EngineAssumption

LEMMA AdPrefixType == ASSUME NEW j \in Jobs, NEW n PROVE AdPrefix(j, n) \in AdBuf
<1>1. \A i \in 0..AdMax-1 : AdByte(j, i) \in Bytes
  BY JobFacts DEF AdByte, Bytes
<1> QED  BY <1>1 DEF AdPrefix, AdBuf

LEMMA MsgPrefixType == ASSUME NEW j \in Jobs, NEW n PROVE MsgPrefix(j, n) \in MsgBuf
<1>1. \A i \in 0..MsgMax-1 : MsgByte(j, i) \in Bytes
  BY JobFacts DEF MsgByte, Bytes
<1> QED  BY <1>1 DEF MsgPrefix, MsgBuf

\* A beat with the next n bytes of a segment extends the received prefix by n.
LEMMA AdExtends ==
    ASSUME NEW j, NEW p \in Nat, NEW n \in Nat, NEW b,
           b = [i \in 1..n |-> AdByte(j, p + (i - 1))], Len(b) = n
    PROVE  Write(AdPrefix(j, p), p, b) = AdPrefix(j, p + n)
<1>1. DOMAIN AdPrefix(j, p) = 0..AdMax-1
  BY DEF AdPrefix
<1>2. ASSUME NEW i \in 0..AdMax-1
      PROVE  (IF i \in p .. (p + Len(b) - 1) THEN b[i - p + 1] ELSE AdPrefix(j, p)[i])
                = (IF i < p + n THEN AdByte(j, i) ELSE Zero)
  <2>1. CASE i \in p .. (p + n - 1)
    <3>1. i - p + 1 \in 1..n /\ p + ((i - p + 1) - 1) = i
      BY <2>1
    <3> QED  BY <2>1, <3>1
  <2>2. CASE i \notin p .. (p + n - 1)
    BY <2>2 DEF AdPrefix
  <2> QED  BY <2>1, <2>2
<1> QED  BY <1>1, <1>2 DEF Write, AdPrefix

LEMMA MsgExtends ==
    ASSUME NEW j, NEW p \in Nat, NEW n \in Nat, NEW b,
           b = [i \in 1..n |-> MsgByte(j, p + (i - 1))], Len(b) = n
    PROVE  Write(MsgPrefix(j, p), p, b) = MsgPrefix(j, p + n)
<1>1. DOMAIN MsgPrefix(j, p) = 0..MsgMax-1
  BY DEF MsgPrefix
<1>2. ASSUME NEW i \in 0..MsgMax-1
      PROVE  (IF i \in p .. (p + Len(b) - 1) THEN b[i - p + 1] ELSE MsgPrefix(j, p)[i])
                = (IF i < p + n THEN MsgByte(j, i) ELSE Zero)
  <2>1. CASE i \in p .. (p + n - 1)
    <3>1. i - p + 1 \in 1..n /\ p + ((i - p + 1) - 1) = i
      BY <2>1
    <3> QED  BY <2>1, <3>1
  <2>2. CASE i \notin p .. (p + n - 1)
    BY <2>2 DEF MsgPrefix
  <2> QED  BY <2>1, <2>2
<1> QED  BY <1>1, <1>2 DEF Write, MsgPrefix

\* With the whole payload received the core sees the job's payload and no more.
LEMMA WholePayload ==
    ASSUME NEW j
    PROVE  Ideal(j) = [job |-> j, ad |-> AdPrefix(j, j.adlen), msg |-> MsgPrefix(j, j.msglen)]
BY DEF Ideal, AdPrefix, MsgPrefix

LEMMA IdealVerdict == ASSUME NEW j PROVE Verdict(Ideal(j)) = (j.dec => j.tagok)
<1>1. Ideal(j).job = j
  BY WholePayload
<1> QED  BY <1>1, Zenon DEF Verdict

\* Whatever bytes a beat brings, a buffer stays one.
LEMMA WriteTyped ==
    ASSUME NEW S, NEW m \in Nat, NEW buf \in [0..m-1 -> S], NEW p \in Nat, NEW bytes \in Seq(S)
    PROVE  Write(buf, p, bytes) \in [0..m-1 -> S]
<1>1. Len(bytes) \in Nat /\ DOMAIN buf = 0..m-1
  BY LenProperties
<1>2. ASSUME NEW i \in 0..m-1, i \in p .. (p + Len(bytes) - 1)
      PROVE  bytes[i - p + 1] \in S
  <2>1. i - p + 1 \in 1..Len(bytes)
    BY <1>1, <1>2
  <2> QED  BY <2>1, ElementOfSeq
<1>3. ASSUME NEW i \in 0..m-1
      PROVE  (IF i \in p .. (p + Len(bytes) - 1) THEN bytes[i - p + 1] ELSE buf[i]) \in S
  BY <1>2
<1> QED  BY <1>1, <1>3 DEF Write

-----------------------------------------------------------------------------
(* What an edge does to the receiver, by segment.                          *)

LEMMA RxAd ==
    ASSUME NEW b, b.user = 0, RxEdge(b)
    PROVE  /\ adbuf' = Write(adbuf, adpos, b.bytes)
           /\ adpos' = Wrap8(adpos + Len(b.bytes))
           /\ msgbuf' = msgbuf /\ msgpos' = msgpos /\ est' = "RX"
<1>1. ~(b.user = 1)
  OBVIOUS
<1> QED  BY <1>1 DEF RxEdge

LEMMA RxMsg ==
    ASSUME NEW b, b.user = 1, RxEdge(b)
    PROVE  /\ msgbuf' = Write(msgbuf, msgpos, b.bytes)
           /\ msgpos' = Wrap8(msgpos + Len(b.bytes))
           /\ adbuf' = adbuf /\ adpos' = adpos
           /\ est' = (IF b.last THEN "RUN" ELSE "RX")
<1>1. ~(b.user = 0)
  OBVIOUS
<1> QED  BY <1>1 DEF RxEdge

LEMMA RxNone ==
    ASSUME RxEdge(NoBeat)
    PROVE  adbuf' = adbuf /\ adpos' = adpos /\ msgbuf' = msgbuf /\ msgpos' = msgpos /\ est' = "RX"
<1>1. NoBeat.user = -1
  BY DEF NoBeat, Beat
<1>2. ~(NoBeat.user = 0) /\ ~(NoBeat.user = 1)
  BY <1>1
<1> QED  BY <1>2 DEF RxEdge
-----------------------------------------------------------------------------
(* Whatever drives the stream: EngineTyped.                                *)

LEMMA InitTyped == EngineInit => EngineTyped
<1> SUFFICES ASSUME EngineInit PROVE EngineTyped
  OBVIOUS
<1>1. adbuf \in AdBuf /\ msgbuf \in MsgBuf
  BY DEF EngineInit, AdBuf, MsgBuf
<1>2. coreStart = FALSE /\ doneO = FALSE /\ validO = FALSE /\ cbusy = FALSE
  BY Zenon DEF EngineInit, Core!Init
<1>3. creq = None /\ cresult = None /\ res = None /\ job = None
  BY Zenon DEF EngineInit, Core!Init
<1>4. est = "IDLE" /\ adpos = 0 /\ msgpos = 0 /\ txpos = 0
  BY DEF EngineInit
<1>5. EngineTypeOK
  <2>1. coreStart \in BOOLEAN /\ doneO \in BOOLEAN /\ validO \in BOOLEAN /\ cbusy \in BOOLEAN
    BY <1>2
  <2> QED  BY <1>1, <1>3, <1>4, <2>1 DEF EngineTypeOK, EngineStates
<1> QED  BY <1>2, <1>4, <1>5 DEF EngineTyped

\* What the core sees is a request, once the engine has parameters.
LEMMA InputTyped == ASSUME EngineTyped, est # "IDLE" PROVE CoreInput \in CoreInputs
BY DEF EngineTyped, EngineTypeOK, CoreInput, CoreInputs

LEMMA CoreTyped ==
    ASSUME EngineTyped, CoreEdge
    PROVE  /\ cbusy' \in BOOLEAN
           /\ creq' \in CoreInputs \cup {None} /\ cresult' \in CoreInputs \cup {None}
<1>1. cbusy \in BOOLEAN /\ creq \in CoreInputs \cup {None} /\ cresult \in CoreInputs \cup {None}
  BY DEF EngineTyped, EngineTypeOK
<1>2. CASE CoreTakes
  <2>1. cbusy' = TRUE /\ creq' = CoreInput /\ cresult' = None /\ coreStart
    BY <1>2, Zenon DEF CoreTakes, Core!Accept
  <2>2. CoreInput \in CoreInputs
    BY <2>1, InputTyped DEF EngineTyped
  <2> QED  BY <2>1, <2>2
<1>3. CASE CoreWorks \/ CoreResting
  BY <1>1, <1>3 DEF CoreWorks, CoreResting, coreVars
<1>4. CASE CoreEnds
  <2>1. cbusy' = FALSE /\ creq' = None /\ cresult' = creq
    BY <1>4, Zenon DEF CoreEnds, Core!Finish, ResultOf
  <2> QED  BY <1>1, <2>1
<1> QED  BY <1>2, <1>3, <1>4 DEF CoreEdge

LEMMA WrapTyped == \A n \in Nat : Wrap8(n) \in 0..255
BY DEF Wrap8

LEMMA TypedBusy ==
    ASSUME EngineTyped, RunEdge \/ BusyEdge \/ DoneEdge, CoreEdge
    PROVE  EngineTyped'
<1>1. /\ est \in {"RUN", "BUSY", "DONE"} /\ est' \in {"BUSY", "WAIT", "IDLE"}
      /\ UNCHANGED <<job, adpos, msgpos, txpos, adbuf, msgbuf, res, validO>>
  BY DEF RunEdge, BusyEdge, DoneEdge
<1>2. coreStart' \in BOOLEAN /\ doneO' \in BOOLEAN /\ (coreStart' => est' # "IDLE")
  <2>1. CASE RunEdge
    BY <2>1 DEF RunEdge
  <2>2. CASE BusyEdge
    BY <2>2, Zenon DEF BusyEdge
  <2>3. CASE DoneEdge
    BY <2>3, Zenon DEF DoneEdge
  <2> QED  BY <2>1, <2>2, <2>3
<1>3. EngineTypeOK'
  BY <1>1, <1>2, CoreTyped DEF EngineTyped, EngineTypeOK, EngineStates
<1> QED  BY <1>1, <1>2, <1>3 DEF EngineTyped

LEMMA TypedIdle ==
    ASSUME EngineTyped, NEW start, NEW j, IdleEdge(start, j), CoreEdge, start => j \in Jobs
    PROVE  EngineTyped'
<1>1. est = "IDLE" /\ res' = res
  BY DEF IdleEdge
<1>2. coreStart' = FALSE /\ doneO' = FALSE
  BY Zenon DEF IdleEdge
<1>3. CASE start
  <2>1. /\ est' = "RX" /\ job' = j /\ adpos' = 0 /\ msgpos' = 0 /\ txpos' = 0
        /\ adbuf' = [i \in 0..AdMax-1 |-> Zero] /\ msgbuf' = [i \in 0..MsgMax-1 |-> Zero]
    BY <1>3 DEF IdleEdge
  <2>2. validO' = FALSE
    BY <1>3, Zenon DEF IdleEdge
  <2>3. adbuf' \in AdBuf /\ msgbuf' \in MsgBuf
    BY <2>1 DEF AdBuf, MsgBuf
  <2>4. coreStart' \in BOOLEAN /\ doneO' \in BOOLEAN /\ validO' \in BOOLEAN
    BY <1>2, <2>2
  <2>5. EngineTypeOK'
    BY <1>1, <1>3, <2>1, <2>3, <2>4, CoreTyped DEF EngineTyped, EngineTypeOK, EngineStates
  <2> QED  BY <1>2, <1>3, <2>1, <2>5 DEF EngineTyped
<1>4. CASE ~start
  <2>1. UNCHANGED <<est, job, adpos, msgpos, txpos, adbuf, msgbuf, validO>>
    BY <1>4 DEF IdleEdge
  <2>2. coreStart' \in BOOLEAN /\ doneO' \in BOOLEAN
    BY <1>2
  <2>3. EngineTypeOK'
    BY <1>1, <2>1, <2>2, CoreTyped DEF EngineTyped, EngineTypeOK
  <2> QED  BY <1>1, <1>2, <2>1, <2>3 DEF EngineTyped
<1> QED  BY <1>3, <1>4

LEMMA TypedRx ==
    ASSUME EngineTyped, NEW b, b.bytes \in Seq(Bytes \cup {Zero}), RxEdge(b), CoreEdge
    PROVE  EngineTyped'
<1>1. /\ est = "RX" /\ est' \in {"RX", "RUN"}
      /\ job' = job /\ txpos' = txpos /\ res' = res /\ validO' = validO
  BY DEF RxEdge
<1>2. coreStart' \in BOOLEAN /\ doneO' \in BOOLEAN
  <2>1. coreStart' = FALSE /\ doneO' = FALSE
    BY Zenon DEF RxEdge
  <2> QED  BY <2>1
<1>3. /\ adpos \in 0..255 /\ msgpos \in 0..255 /\ adbuf \in AdBuf /\ msgbuf \in MsgBuf
  BY DEF EngineTyped, EngineTypeOK
<1>4. Len(b.bytes) \in Nat
  BY LenProperties
<1>5. adpos' \in 0..255 /\ msgpos' \in 0..255
  <2>1. adpos' \in {adpos, Wrap8(adpos + Len(b.bytes))}
        /\ msgpos' \in {msgpos, Wrap8(msgpos + Len(b.bytes))}
    <3>1. CASE b.user = 0
      BY <3>1, RxAd
    <3>2. CASE b.user = 1
      BY <3>2, RxMsg
    <3>3. CASE ~(b.user = 0) /\ ~(b.user = 1)
      BY <3>3 DEF RxEdge
    <3> QED  BY <3>1, <3>2, <3>3
  <2>2. Wrap8(adpos + Len(b.bytes)) \in 0..255 /\ Wrap8(msgpos + Len(b.bytes)) \in 0..255
    <3>1. adpos + Len(b.bytes) \in Nat /\ msgpos + Len(b.bytes) \in Nat
      BY <1>3, <1>4
    <3> QED  BY <3>1, WrapTyped
  <2> QED  BY <1>3, <2>1, <2>2
<1>6. adbuf' \in AdBuf /\ msgbuf' \in MsgBuf
  <2>1. adbuf' \in {adbuf, Write(adbuf, adpos, b.bytes)}
        /\ msgbuf' \in {msgbuf, Write(msgbuf, msgpos, b.bytes)}
    <3>1. CASE b.user = 0
      <4>1. adbuf' = Write(adbuf, adpos, b.bytes) /\ msgbuf' = msgbuf
        BY <3>1, RxAd
      <4> QED  BY <4>1, Zenon
    <3>2. CASE b.user = 1
      <4>1. msgbuf' = Write(msgbuf, msgpos, b.bytes) /\ adbuf' = adbuf
        BY <3>2, RxMsg
      <4> QED  BY <4>1, Zenon
    <3>3. CASE ~(b.user = 0) /\ ~(b.user = 1)
      BY <3>3 DEF RxEdge
    <3> QED  BY <3>1, <3>2, <3>3
  <2>2. Write(adbuf, adpos, b.bytes) \in AdBuf /\ Write(msgbuf, msgpos, b.bytes) \in MsgBuf
    BY <1>3, Sizes, WriteTyped DEF AdBuf, MsgBuf
  <2> QED  BY <1>3, <2>1, <2>2
<1>7. EngineTypeOK'
  BY <1>1, <1>2, <1>5, <1>6, CoreTyped DEF EngineTyped, EngineTypeOK, EngineStates
<1> QED  BY <1>1, <1>7 DEF EngineTyped

LEMMA TypedWait ==
    ASSUME EngineTyped, WaitEdge, CoreEdge
    PROVE  EngineTyped'
<1>1. est = "WAIT" /\ UNCHANGED <<job, adpos, msgpos, adbuf, msgbuf>>
  BY DEF WaitEdge
<1>2. coreStart' = FALSE /\ doneO' = FALSE
  BY Zenon DEF WaitEdge
<1>3. coreStart' \in BOOLEAN /\ doneO' \in BOOLEAN
  BY <1>2
<1>4. CASE cresult # None
  <2>1. res' = cresult /\ txpos' = 0 /\ est' = (IF job.msglen = 0 THEN "DONE" ELSE "TX")
    BY <1>4 DEF WaitEdge
  <2>2. validO' \in BOOLEAN
    <3>1. validO' = Verdict(cresult)
      BY <1>4, Zenon DEF WaitEdge
    <3> QED  BY <3>1, Zenon DEF Verdict
  <2>3. job \in Jobs /\ job.msglen \in 0..MsgMax /\ cresult \in CoreInputs
    BY <1>1, <1>4, JobFacts DEF EngineTyped, EngineTypeOK
  <2>4. est' \in EngineStates /\ est' # "IDLE"
    BY <2>1 DEF EngineStates
  <2>5. EngineTypeOK'
    BY <1>1, <1>3, <2>1, <2>2, <2>3, <2>4, CoreTyped DEF EngineTyped, EngineTypeOK
  <2>6. est' = "TX" => txpos' < job'.msglen
    BY <1>1, <2>1, <2>3
  <2> QED  BY <1>1, <2>1, <2>3, <2>4, <2>5, <2>6 DEF EngineTyped
<1>5. CASE cresult = None
  <2>1. UNCHANGED <<est, res, validO, txpos>>
    BY <1>5 DEF WaitEdge
  <2>2. EngineTypeOK'
    BY <1>1, <1>3, <2>1, CoreTyped DEF EngineTyped, EngineTypeOK
  <2> QED  BY <1>1, <2>1, <2>2 DEF EngineTyped
<1> QED  BY <1>4, <1>5

\* The transmitter: what is left is counted without wrapping.
LEMMA Transmitting ==
    ASSUME EngineTyped, est = "TX"
    PROVE  /\ job \in Jobs /\ job.msglen \in 0..MsgMax /\ res \in CoreInputs
           /\ txpos \in Nat /\ txpos < job.msglen
           /\ TxRem = job.msglen - txpos
           /\ MKeep \in 1..BeatBytes
           /\ MKeep = (IF TxRem <= BeatBytes THEN job.msglen - txpos ELSE BeatBytes)
<1>1. job \in Jobs /\ res \in CoreInputs /\ txpos \in Nat /\ txpos < job.msglen
  BY DEF EngineTyped, EngineTypeOK
<1>2. job.msglen \in 0..MsgMax
  BY <1>1, JobFacts
<1>3. job.msglen - txpos \in 0..255
  <2>1. \A m \in 0..MsgMax, p \in Nat : p < m => m - p \in 0..255
    BY Sizes
  <2> QED  BY <1>1, <1>2, <2>1
<1>4. TxRem = job.msglen - txpos
  BY <1>3, Wraps DEF TxRem
<1>5. \A r \in Nat : r > 0 =>
         /\ (IF r >= BeatBytes THEN BeatBytes ELSE r) \in 1..BeatBytes
         /\ (IF r >= BeatBytes THEN BeatBytes ELSE r) = (IF r <= BeatBytes THEN r ELSE BeatBytes)
  BY Sizes
<1>6. job.msglen - txpos \in Nat /\ job.msglen - txpos > 0
  BY <1>1, <1>2
<1>7. MKeep \in 1..BeatBytes /\ MKeep = (IF TxRem <= BeatBytes THEN TxRem ELSE BeatBytes)
  BY <1>4, <1>5, <1>6 DEF MKeep
<1> QED  BY <1>1, <1>2, <1>4, <1>7

LEMMA TypedTx ==
    ASSUME EngineTyped, NEW ready, TxEdge(ready), CoreEdge
    PROVE  EngineTyped'
<1>1. est = "TX" /\ UNCHANGED <<job, adpos, msgpos, adbuf, msgbuf, res, validO>>
  BY DEF TxEdge
<1>2. coreStart' = FALSE /\ doneO' = FALSE
  BY Zenon DEF TxEdge
<1>3. coreStart' \in BOOLEAN /\ doneO' \in BOOLEAN
  BY <1>2
<1>4. \/ est' \in {"TX", "DONE"} /\ txpos' = txpos
      \/ ~(TxRem <= BeatBytes) /\ est' = "TX" /\ txpos' = Wrap8(txpos + BeatBytes)
  BY <1>1 DEF TxEdge
<1>5. est' \in {"TX", "DONE"} /\ txpos' \in 0..255 /\ txpos' < job.msglen
  <2>1. txpos \in 0..255 /\ txpos < job.msglen /\ job.msglen \in 0..MsgMax
        /\ TxRem = job.msglen - txpos
    BY <1>1, Transmitting DEF EngineTyped, EngineTypeOK
  <2>2. CASE ~(TxRem <= BeatBytes) /\ est' = "TX" /\ txpos' = Wrap8(txpos + BeatBytes)
    <3>1. txpos + BeatBytes < job.msglen
      BY <2>1, <2>2, Sizes
    <3>2. txpos + BeatBytes \in 0..255
      BY <2>1, <3>1, Sizes
    <3> QED  BY <2>2, <3>1, <3>2, Wraps
  <2> QED  BY <1>4, <2>1, <2>2
<1>6. EngineTypeOK'
  BY <1>1, <1>3, <1>5, CoreTyped DEF EngineTyped, EngineTypeOK, EngineStates
<1> QED  BY <1>1, <1>5, <1>6 DEF EngineTyped

LEMMA TypedStep ==
    ASSUME EngineTyped, NEW start, NEW j, NEW b, NEW ready,
           EngineEdge(start, j, b, ready), CoreEdge,
           start /\ est = "IDLE" => j \in Jobs,
           est = "RX" => b.bytes \in Seq(Bytes \cup {Zero})
    PROVE  EngineTyped'
<1>1. CASE IdleEdge(start, j)
  BY <1>1, TypedIdle DEF IdleEdge
<1>2. CASE RxEdge(b)
  BY <1>2, TypedRx DEF RxEdge
<1>3. CASE RunEdge \/ BusyEdge \/ DoneEdge
  BY <1>3, TypedBusy
<1>4. CASE WaitEdge
  BY <1>4, TypedWait
<1>5. CASE TxEdge(ready)
  BY <1>5, TypedTx
<1> QED  BY <1>1, <1>2, <1>3, <1>4, <1>5 DEF EngineEdge
-----------------------------------------------------------------------------
(* Whatever drives the stream: EngineSound.                                *)

LEMMA InitSound == EngineInit => EngineSound
BY InitTyped DEF EngineInit, EngineSound, CorePhases, Core!Init

\* Outside the two states that wait for it, the core is at rest.
LEMMA CoreStays ==
    ASSUME EngineSound, CoreEdge, est \notin {"BUSY", "WAIT"}
    PROVE  UNCHANGED coreVars /\ cbusy' = FALSE
<1>1. cbusy \in BOOLEAN /\ ~cbusy /\ ~coreStart
  BY DEF EngineSound, EngineTyped, EngineTypeOK, CorePhases
<1>2. UNCHANGED coreVars
  BY <1>1 DEF CoreEdge, CoreTakes, CoreWorks, CoreEnds, CoreResting, Core!Finish
<1> QED  BY <1>1, <1>2, Zenon DEF coreVars

\* What an edge may make of the core while the engine waits for it.
LEMMA CoreMoves ==
    ASSUME EngineSound, CoreEdge, est \in {"BUSY", "WAIT"}
    PROVE  \/ coreStart /\ ~cbusy /\ cbusy' /\ creq' = CoreInput /\ cresult' = None
           \/ ~coreStart /\ cbusy /\ cbusy' /\ creq' = CoreInput /\ cresult' = None
           \/ ~coreStart /\ cbusy /\ ~cbusy' /\ cresult' = CoreInput
           \/ ~coreStart /\ ~cbusy /\ ~cbusy' /\ cresult' = cresult
<1>1. coreStart \in BOOLEAN /\ cbusy \in BOOLEAN
  BY DEF EngineSound, EngineTyped, EngineTypeOK
<1>2. ~(coreStart /\ cbusy) /\ (cbusy => creq = CoreInput /\ cresult = None)
  BY DEF EngineSound, CorePhases
<1>3. CASE CoreTakes
  <2>1. cbusy' = TRUE
    BY <1>3, Zenon DEF CoreTakes, Core!Accept
  <2>2. coreStart /\ ~cbusy /\ creq' = CoreInput /\ cresult' = None
    BY <1>3, Zenon DEF CoreTakes, Core!Accept
  <2> QED  BY <2>1, <2>2
<1>4. CASE CoreWorks
  BY <1>1, <1>2, <1>4 DEF CoreWorks, coreVars
<1>5. CASE CoreEnds
  <2>1. cbusy' = FALSE
    BY <1>5, Zenon DEF CoreEnds, Core!Finish
  <2>2. cbusy /\ creq' = None /\ cresult' = creq
    BY <1>5, Zenon DEF CoreEnds, Core!Finish, ResultOf
  <2> QED  BY <1>2, <2>1, <2>2
<1>6. CASE CoreResting
  BY <1>1, <1>6 DEF CoreResting, coreVars
<1> QED  BY <1>3, <1>4, <1>5, <1>6 DEF CoreEdge

\* The inputs do not change from the start to the result, so the request the
\* core works on is the one it is shown.
LEMMA PhasesStep ==
    ASSUME EngineSound, NEW start, NEW j, NEW b, NEW ready,
           EngineEdge(start, j, b, ready), CoreEdge
    PROVE  CorePhases'
<1>1. CASE IdleEdge(start, j) \/ RxEdge(b) \/ TxEdge(ready) \/ DoneEdge
  <2>1. est \notin {"BUSY", "WAIT"} /\ est' \notin {"BUSY", "WAIT"}
    BY <1>1 DEF IdleEdge, RxEdge, TxEdge, DoneEdge
  <2>2. coreStart' = FALSE
    BY <1>1, Zenon DEF IdleEdge, RxEdge, TxEdge, DoneEdge
  <2>3. cbusy' = FALSE
    BY <2>1, CoreStays
  <2> QED  BY <2>1, <2>2, <2>3 DEF CorePhases
<1>2. CASE RunEdge
  <2>1. est = "RUN" /\ est' = "BUSY"
    BY <1>2 DEF RunEdge
  <2>2. coreStart' = TRUE
    BY <1>2, Zenon DEF RunEdge
  <2>3. cbusy' = FALSE
    BY <2>1, CoreStays
  <2> QED  BY <2>1, <2>2, <2>3 DEF CorePhases
<1>3. CASE BusyEdge
  <2>1. est = "BUSY" /\ est' = (IF cbusy THEN "WAIT" ELSE "BUSY") /\ CoreInput' = CoreInput
    BY <1>3 DEF BusyEdge, CoreInput
  <2>2. coreStart' = FALSE
    BY <1>3, Zenon DEF BusyEdge
  <2>3. coreStart \/ cbusy
    BY <2>1 DEF EngineSound, CorePhases
  <2> QED  BY <2>1, <2>2, <2>3, CoreMoves DEF CorePhases
<1>4. CASE WaitEdge
  <2>1. /\ est = "WAIT" /\ CoreInput' = CoreInput
        /\ \/ cresult # None /\ est' \in {"DONE", "TX"}
           \/ cresult = None /\ est' = "WAIT"
    BY <1>4 DEF WaitEdge, CoreInput
  <2>2. coreStart' = FALSE
    BY <1>4, Zenon DEF WaitEdge
  <2>3. ~coreStart /\ (cbusy => cresult = None) /\ (~cbusy => cresult = CoreInput)
    BY <2>1 DEF EngineSound, CorePhases
  <2> QED  BY <2>1, <2>2, <2>3, CoreMoves DEF CorePhases
<1> QED  BY <1>1, <1>2, <1>3, <1>4 DEF EngineEdge

\* One edge of an engine that is offered bytes.
LEMMA SoundStep ==
    ASSUME EngineSound, NEW start, NEW j, NEW b, NEW ready,
           EngineEdge(start, j, b, ready), CoreEdge,
           start /\ est = "IDLE" => j \in Jobs,
           est = "RX" => b.bytes \in Seq(Bytes \cup {Zero})
    PROVE  EngineSound'
<1>1. CorePhases'
  BY PhasesStep
<1>2. EngineTyped'
  BY TypedStep DEF EngineSound
<1> QED  BY <1>1, <1>2 DEF EngineSound

LEMMA SoundStays == EngineSound /\ UNCHANGED axisVars => EngineSound'
<1> SUFFICES ASSUME EngineSound, UNCHANGED axisVars PROVE EngineSound'
  OBVIOUS
<1>1. /\ UNCHANGED <<est, job, adpos, msgpos, txpos, adbuf, msgbuf>>
      /\ UNCHANGED <<coreStart, res, validO, doneO, cbusy, creq, cresult>>
  BY DEF axisVars, engineVars, coreVars
<1>2. EngineTyped'
  BY <1>1 DEF EngineSound, EngineTyped, EngineTypeOK
<1>3. CoreInput' = CoreInput
  BY <1>1 DEF CoreInput
<1>4. CorePhases'
  BY <1>1, <1>3 DEF EngineSound, CorePhases
<1> QED  BY <1>2, <1>4 DEF EngineSound

-----------------------------------------------------------------------------
(* The payload of the accepted job: EngineOwn.                             *)

\* An engine without a job has nothing to answer for.
LEMMA NoJobOwn == ~HasJob => EngineOwn
BY DEF EngineOwn, Received, HasJob, Loaded, OwnAnswer, HasResult

\* What the core sees is a request for the job's own payload.
LEMMA Shown ==
    ASSUME EngineInv, Loaded
    PROVE  job \in Jobs /\ CoreInput = Ideal(job) /\ CoreInput \in CoreInputs
<1>1. HasJob
  BY DEF HasJob, Loaded
<1>2. job \in Jobs /\ adbuf = AdPrefix(job, job.adlen) /\ msgbuf = MsgPrefix(job, job.msglen)
  BY <1>1 DEF EngineInv, EngineOwn, Received
<1> QED  BY <1>2, WholePayload, AdPrefixType, MsgPrefixType DEF CoreInput, CoreInputs

LEMMA OwnIdle ==
    ASSUME EngineInv, NEW start, NEW j, IdleEdge(start, j), start => j \in Jobs
    PROVE  EngineOwn'
<1>1. est = "IDLE" /\ est' \in {"IDLE", "RX"}
  BY DEF IdleEdge
<1>2. doneO' = FALSE
  BY Zenon DEF IdleEdge
<1>3. OwnAnswer'
  BY <1>1, <1>2 DEF OwnAnswer, HasResult
<1>4. Received'
  <2>1. CASE start
    <3>1. /\ est' = "RX" /\ job' = j /\ adpos' = 0 /\ msgpos' = 0
          /\ adbuf' = [i \in 0..AdMax-1 |-> Zero] /\ msgbuf' = [i \in 0..MsgMax-1 |-> Zero]
      BY <2>1 DEF IdleEdge
    <3>2. j \in Jobs /\ j.adlen \in Nat /\ j.msglen \in Nat
      BY <2>1, JobFacts, Sizes
    <3>3. (\A i \in 0..AdMax-1 : ~(i < 0)) /\ (\A i \in 0..MsgMax-1 : ~(i < 0))
      OBVIOUS
    <3>4. adbuf' = AdPrefix(j, 0) /\ msgbuf' = MsgPrefix(j, 0)
      BY <3>1, <3>3 DEF AdPrefix, MsgPrefix
    <3> QED  BY <1>2, <3>1, <3>2, <3>4 DEF Received, HasJob, Loaded
  <2>2. CASE ~start
    <3>1. est' = "IDLE"
      BY <1>1, <2>2 DEF IdleEdge
    <3> QED  BY <1>2, <3>1 DEF Received, HasJob, Loaded
  <2> QED  BY <2>1, <2>2
<1> QED  BY <1>3, <1>4 DEF EngineOwn

\* Edges that leave the buffers and what they hold alone.
LEMMA OwnQuiet ==
    ASSUME EngineInv, NEW ready, RunEdge \/ DoneEdge \/ BusyEdge \/ TxEdge(ready)
    PROVE  EngineOwn'
<1>1. /\ UNCHANGED <<job, adpos, msgpos, adbuf, msgbuf, validO, res>>
      /\ \/ est = "RUN" /\ est' = "BUSY"
         \/ est = "DONE" /\ est' = "IDLE"
         \/ est = "BUSY" /\ est' \in {"WAIT", "BUSY"}
         \/ est = "TX" /\ est' \in {"TX", "DONE"}
  BY DEF RunEdge, DoneEdge, BusyEdge, TxEdge
<1>2. doneO' = (est = "DONE")
  <2>1. CASE DoneEdge
    BY <2>1 DEF DoneEdge
  <2>2. CASE RunEdge \/ BusyEdge \/ TxEdge(ready)
    BY <2>2 DEF RunEdge, BusyEdge, TxEdge
  <2> QED  BY <2>1, <2>2
<1>3. Received'
  BY <1>1, <1>2 DEF EngineInv, EngineOwn, Received, HasJob, Loaded, AdPrefix, MsgPrefix
<1>4. OwnAnswer'
  BY <1>1, <1>2 DEF EngineInv, EngineOwn, OwnAnswer, HasResult
<1> QED  BY <1>3, <1>4 DEF EngineOwn

LEMMA OwnWait ==
    ASSUME EngineInv, WaitEdge
    PROVE  EngineOwn'
<1>1. /\ est = "WAIT" /\ UNCHANGED <<job, adpos, msgpos, adbuf, msgbuf>>
      /\ \/ /\ cresult # None /\ res' = cresult /\ validO' = Verdict(cresult)
            /\ est' \in {"DONE", "TX"}
         \/ cresult = None /\ UNCHANGED <<est, res, validO>>
  BY DEF WaitEdge
<1>2. doneO' = FALSE
  BY Zenon DEF WaitEdge
<1>3. CoreInput = Ideal(job)
  BY <1>1, Shown DEF Loaded
<1>4. Received'
  BY <1>1, <1>2 DEF EngineInv, EngineOwn, Received, HasJob, Loaded, AdPrefix, MsgPrefix
\* The result is there exactly when the core is done with this job's inputs.
<1>5. CASE cresult # None
  <2>1. cresult = CoreInput
    BY <1>1, <1>5 DEF EngineInv, EngineSound, CorePhases
  <2>2. res' = Ideal(job) /\ validO' = (job.dec => job.tagok)
    BY <1>1, <1>3, <1>5, <2>1, IdealVerdict
  <2> QED  BY <1>1, <1>4, <2>2 DEF OwnAnswer, EngineOwn
<1>6. CASE cresult = None
  BY <1>1, <1>2, <1>4, <1>6 DEF OwnAnswer, HasResult, EngineOwn
<1> QED  BY <1>5, <1>6

\* The state of the buffers while receiving.
LEMMA Receiving ==
    ASSUME EngineInv, est = "RX"
    PROVE  /\ job \in Jobs /\ job.adlen \in 0..AdMax /\ job.msglen \in 0..MsgMax
           /\ adpos \in Nat /\ adpos <= job.adlen /\ adbuf = AdPrefix(job, adpos)
           /\ msgpos \in Nat /\ msgpos <= job.msglen /\ msgbuf = MsgPrefix(job, msgpos)
<1>1. job \in Jobs
  BY DEF EngineInv, EngineSound, EngineTyped
<1>2. adpos \in Nat /\ msgpos \in Nat
  BY DEF EngineInv, EngineSound, EngineTyped, EngineTypeOK
<1> QED  BY <1>1, <1>2, JobFacts DEF EngineInv, EngineOwn, Received, HasJob

\* What the two kinds of beats with payload leave behind.
LEMMA TakesAd ==
    ASSUME EngineInv, NEW n \in Nat, NEW b, RxEdge(b), adpos + n <= job.adlen, b.user = 0,
           b.bytes = [i \in 1..n |-> AdByte(job, adpos + (i - 1))]
    PROVE  /\ adpos' = adpos + n /\ adbuf' = AdPrefix(job, adpos + n)
           /\ msgpos' = msgpos /\ msgbuf' = msgbuf /\ est' = "RX"
<1> DEFINE bs == [i \in 1..n |-> AdByte(job, adpos + (i - 1))]
<1>1. est = "RX"
  BY DEF RxEdge
<1>2. Len(bs) = n
  BY FunctionIsSeq
<1> HIDE DEF bs
<1>3. adpos' = Wrap8(adpos + n) /\ adbuf' = Write(adbuf, adpos, bs)
      /\ msgbuf' = msgbuf /\ msgpos' = msgpos /\ est' = "RX"
  BY <1>2, RxAd DEF bs
<1>4. adpos' = adpos + n
  <2>1. adpos \in Nat /\ job.adlen \in 0..AdMax
    BY <1>1, Receiving
  <2>2. adpos + n \in 0..255
    BY <2>1, Sizes
  <2> QED  BY <1>3, <2>2, Wraps
<1>5. Write(AdPrefix(job, adpos), adpos, bs) = AdPrefix(job, adpos + n)
  BY <1>1, <1>2, AdExtends, Receiving DEF bs
<1> QED  BY <1>1, <1>3, <1>4, <1>5, Receiving

LEMMA TakesMsg ==
    ASSUME EngineInv, NEW n \in Nat, NEW b, RxEdge(b), msgpos + n <= job.msglen, b.user = 1,
           b.bytes = [i \in 1..n |-> MsgByte(job, msgpos + (i - 1))]
    PROVE  /\ msgpos' = msgpos + n /\ msgbuf' = MsgPrefix(job, msgpos + n)
           /\ adpos' = adpos /\ adbuf' = adbuf
           /\ est' = (IF b.last THEN "RUN" ELSE "RX")
<1> DEFINE bs == [i \in 1..n |-> MsgByte(job, msgpos + (i - 1))]
<1>1. est = "RX"
  BY DEF RxEdge
<1>2. Len(bs) = n
  BY FunctionIsSeq
<1> HIDE DEF bs
<1>3. msgpos' = Wrap8(msgpos + n) /\ msgbuf' = Write(msgbuf, msgpos, bs)
      /\ adbuf' = adbuf /\ adpos' = adpos /\ est' = (IF b.last THEN "RUN" ELSE "RX")
  BY <1>2, RxMsg DEF bs
<1>4. msgpos' = msgpos + n
  <2>1. msgpos \in Nat /\ job.msglen \in 0..MsgMax
    BY <1>1, Receiving
  <2>2. msgpos + n \in 0..255
    BY <2>1, Sizes
  <2> QED  BY <1>3, <2>2, Wraps
<1>5. Write(MsgPrefix(job, msgpos), msgpos, bs) = MsgPrefix(job, msgpos + n)
  BY <1>1, <1>2, MsgExtends, Receiving DEF bs
<1> QED  BY <1>1, <1>3, <1>4, <1>5, Receiving

\* A beat, or none, that leaves a prefix of the payload in the buffers.
LEMMA OwnPrefix ==
    ASSUME EngineInv, NEW b, RxEdge(b),
           adpos' <= job.adlen, adbuf' = AdPrefix(job, adpos'),
           msgpos' <= job.msglen, msgbuf' = MsgPrefix(job, msgpos'),
           est' = "RUN" => adpos' = job.adlen /\ msgpos' = job.msglen
    PROVE  EngineOwn'
<1>1. est = "RX" /\ est' \in {"RX", "RUN"} /\ job' = job
  BY DEF RxEdge
<1>2. doneO' = FALSE
  BY Zenon DEF RxEdge
<1>3. job \in Jobs
  BY <1>1, Receiving
<1>4. Received'
  BY <1>1, <1>2, <1>3 DEF Received, HasJob, Loaded
<1>5. OwnAnswer'
  BY <1>1, <1>2 DEF OwnAnswer, HasResult
<1> QED  BY <1>4, <1>5 DEF EngineOwn

LEMMA OwnRx ==
    ASSUME EngineInv, NEW b, PayloadBeat(b), RxEdge(b)
    PROVE  EngineOwn'
<1>1. est = "RX"
  BY DEF RxEdge
<1>2. CASE b = NoBeat
  <2>1. adbuf' = adbuf /\ adpos' = adpos /\ msgbuf' = msgbuf /\ msgpos' = msgpos /\ est' = "RX"
    BY <1>2, RxNone
  <2> QED  BY <1>1, <2>1, Receiving, OwnPrefix
<1>3. ASSUME NEW n \in Nat, NEW last \in BOOLEAN, adpos + n <= job.adlen,
             b = Beat([i \in 1..n |-> AdByte(job, adpos + (i - 1))], 0, last)
      PROVE  EngineOwn'
  <2>1. b.user = 0 /\ b.bytes = [i \in 1..n |-> AdByte(job, adpos + (i - 1))]
    BY <1>3 DEF Beat
  <2>2. /\ adpos' = adpos + n /\ adbuf' = AdPrefix(job, adpos + n)
        /\ msgpos' = msgpos /\ msgbuf' = msgbuf /\ est' = "RX"
    BY <1>3, <2>1, TakesAd
  <2> QED  BY <1>1, <1>3, <2>2, Receiving, OwnPrefix
<1>4. ASSUME NEW n \in Nat, NEW last \in BOOLEAN, msgpos + n <= job.msglen,
             last => msgpos + n = job.msglen /\ adpos = job.adlen,
             b = Beat([i \in 1..n |-> MsgByte(job, msgpos + (i - 1))], 1, last)
      PROVE  EngineOwn'
  <2>1. /\ b.user = 1 /\ b.last = last
        /\ b.bytes = [i \in 1..n |-> MsgByte(job, msgpos + (i - 1))]
    BY <1>4 DEF Beat
  <2>2. /\ msgpos' = msgpos + n /\ msgbuf' = MsgPrefix(job, msgpos + n)
        /\ adpos' = adpos /\ adbuf' = adbuf /\ est' = (IF last THEN "RUN" ELSE "RX")
    BY <1>4, <2>1, TakesMsg
  <2>3. est' = "RUN" => adpos' = job.adlen /\ msgpos' = job.msglen
    BY <1>4, <2>2
  <2> QED  BY <1>1, <1>4, <2>2, <2>3, Receiving, OwnPrefix
<1> QED  BY <1>2, <1>3, <1>4 DEF PayloadBeat

\* Payload is bytes.
LEMMA PayloadTyped ==
    ASSUME EngineInv, est = "RX", NEW b, PayloadBeat(b)
    PROVE  b.bytes \in Seq(Bytes \cup {Zero})
<1>1. CASE b = NoBeat
  <2>1. b.bytes = <<>>
    BY <1>1 DEF NoBeat, Beat
  <2> QED  BY <2>1, EmptySeq
<1>2. ASSUME NEW n \in Nat, NEW seg, NEW p \in Nat, seg \in {"ad", "msg"},
             b.bytes = [i \in 1..n |-> <<job.id, seg, p + (i - 1)>>]
      PROVE  b.bytes \in Seq(Bytes \cup {Zero})
  <2>1. job.id \in Ids
    BY Receiving, JobFacts
  <2>2. \A i \in 1..n : <<job.id, seg, p + (i - 1)>> \in Bytes
    BY <1>2, <2>1 DEF Bytes
  <2>3. b.bytes \in [1..n -> Bytes \cup {Zero}]
    BY <1>2, <2>2
  <2> QED  BY <2>3, FunctionIsSeq
<1>3. ASSUME NEW n \in Nat, NEW last \in BOOLEAN,
             b = Beat([i \in 1..n |-> AdByte(job, adpos + (i - 1))], 0, last)
      PROVE  b.bytes \in Seq(Bytes \cup {Zero})
  <2>1. b.bytes = [i \in 1..n |-> <<job.id, "ad", adpos + (i - 1)>>]
    BY <1>3 DEF Beat, AdByte
  <2> QED  BY <1>2, <2>1, Receiving
<1>4. ASSUME NEW n \in Nat, NEW last \in BOOLEAN,
             b = Beat([i \in 1..n |-> MsgByte(job, msgpos + (i - 1))], 1, last)
      PROVE  b.bytes \in Seq(Bytes \cup {Zero})
  <2>1. b.bytes = [i \in 1..n |-> <<job.id, "msg", msgpos + (i - 1)>>]
    BY <1>4 DEF Beat, MsgByte
  <2> QED  BY <1>2, <2>1, Receiving
<1> QED  BY <1>1, <1>3, <1>4 DEF PayloadBeat

LEMMA InitEngine == EngineInit => EngineInv
BY InitSound, NoJobOwn DEF EngineInv, EngineInit, HasJob

\* One edge of an engine that is offered its job's payload.
LEMMA EngineStep ==
    ASSUME EngineInv, NEW start, NEW j, NEW b, NEW ready,
           EngineEdge(start, j, b, ready), CoreEdge,
           start /\ est = "IDLE" => j \in Jobs,
           est = "RX" => PayloadBeat(b)
    PROVE  EngineInv'
<1>1. EngineSound'
  BY PayloadTyped, SoundStep DEF EngineInv
<1>2. EngineOwn'
  <2>1. CASE IdleEdge(start, j)
    BY <2>1, OwnIdle DEF IdleEdge
  <2>2. CASE RxEdge(b)
    BY <2>2, OwnRx DEF RxEdge
  <2>3. CASE RunEdge \/ DoneEdge \/ BusyEdge \/ TxEdge(ready)
    BY <2>3, OwnQuiet
  <2>4. CASE WaitEdge
    BY <2>4, OwnWait
  <2> QED  BY <2>1, <2>2, <2>3, <2>4 DEF EngineEdge
<1> QED  BY <1>1, <1>2 DEF EngineInv

LEMMA OwnStays == EngineOwn /\ UNCHANGED axisVars => EngineOwn'
<1> SUFFICES ASSUME EngineOwn, UNCHANGED axisVars PROVE EngineOwn'
  OBVIOUS
<1>1. UNCHANGED <<est, job, adpos, msgpos, adbuf, msgbuf, res, validO, doneO>>
  BY DEF axisVars, engineVars
<1> QED  BY <1>1 DEF EngineOwn, Received, HasJob, Loaded, OwnAnswer, HasResult,
                     AdPrefix, MsgPrefix

LEMMA EngineStays == EngineInv /\ UNCHANGED axisVars => EngineInv'
BY SoundStays, OwnStays DEF EngineInv
=============================================================================
