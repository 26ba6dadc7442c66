------------------------- MODULE StreamSystemProofs -------------------------
(***************************************************************************)
(* Proofs about StreamSystem, for every beat size, buffer size and set of  *)
(* jobs EngineAssumption allows: the type invariant, the ownership of the  *)
(* core, and that a job is answered with its own result, sent exactly once *)
(* and framed exactly.  The engine's half is AxisEngineProofs.             *)
(***************************************************************************)
EXTENDS StreamSystem, AxisEngineProofs

-----------------------------------------------------------------------------
(* The inductive invariant.                                                *)

\* What has been sent is a prefix of the result, in full beats, and all of it
\* once the engine is done.
FullBeat(j, k) ==
    [of |-> Ideal(j), pos |-> (k - 1) * BeatBytes, keep |-> BeatBytes, last |-> FALSE]

Exact ==
    /\ Len(mlog) = (job.msglen + BeatBytes - 1) \div BeatBytes
    /\ \A k \in 1..Len(mlog) :
          LET final == k = Len(mlog)
          IN  mlog[k] = [of   |-> Ideal(job),
                         pos  |-> (k - 1) * BeatBytes,
                         keep |-> IF final THEN job.msglen - (k - 1) * BeatBytes
                                           ELSE BeatBytes,
                         last |-> final]

Sent ==
    /\ est \in {"RX", "RUN", "BUSY", "WAIT"} => mlog = <<>>
    /\ est = "TX" =>
          /\ txpos < job.msglen
          /\ txpos = Len(mlog) * BeatBytes
          /\ \A k \in 1..Len(mlog) : mlog[k] = FullBeat(job, k)
    /\ (est = "DONE" \/ doneO) => Exact

\* What the slave has taken is known in every state that has a result.
IInv == EngineInv /\ mlog \in Seq(MBeatType) /\ Sent

\* n beats of B bytes are needed for m bytes when n - 1 are too few.
LEMMA BeatsNeeded ==
    ASSUME NEW B \in Nat, B > 0, NEW n \in Nat, NEW m \in Nat,
           (n - 1) * B < m, m <= n * B
    PROVE  (m + B - 1) \div B = n
<1> DEFINE q == (m + B - 1) \div B
<1>1. q \in Int /\ q * B <= m + B - 1 /\ m + B - 1 < q * B + B
  OBVIOUS
<1>2. n * B = (n - 1) * B + B
  OBVIOUS
<1> HIDE DEF q
<1>3. ~(q < n)
  <2>1. SUFFICES ASSUME q <= n - 1 PROVE FALSE
    BY <1>1
  <2>2. q * B <= (n - 1) * B
    BY <1>1, <2>1
  <2> QED  BY <1>1, <1>2, <2>2
<1>4. ~(q > n)
  <2>1. SUFFICES ASSUME n + 1 <= q PROVE FALSE
    BY <1>1
  <2>2. (n + 1) * B <= q * B
    BY <1>1, <2>1
  <2>3. (n + 1) * B = n * B + B
    OBVIOUS
  <2> QED  BY <1>1, <2>2, <2>3
<1>5. q = n
  BY <1>1, <1>3, <1>4
<1> QED  BY <1>5 DEF q

-----------------------------------------------------------------------------
(* The steps.                                                              *)

LEMMA InitIInv == Init => IInv
<1> SUFFICES ASSUME Init PROVE IInv
  OBVIOUS
<1>1. EngineInv
  BY InitEngine DEF Init
<1>2. mlog \in Seq(MBeatType) /\ Sent
  BY EmptySeq DEF Init, EngineInit, Sent
<1> QED  BY <1>1, <1>2 DEF IInv

\* The master offers the next bytes of its payload, and ends it at its end.
LEMMA OfferedIsPayload ==
    ASSUME EngineInv, NEW b \in Offered
    PROVE  est = "RX" /\ PayloadBeat(b)
<1>1. est = "RX"
  BY DEF Offered
<1>2. adpos \in Nat /\ msgpos \in Nat /\ job.adlen \in Nat /\ job.msglen \in Nat
  BY <1>1, Receiving, Sizes
<1>3. CASE b \in AdBeats
  <2>1. PICK n \in {k \in 1..BeatBytes : Size(k, job.adlen - adpos)}, last \in BOOLEAN :
           b = Beat([i \in 1..n |-> AdByte(job, adpos + (i - 1))], 0, last)
    BY <1>3 DEF AdBeats
  <2>2. n \in Nat /\ adpos + n <= job.adlen
    BY <1>2, <2>1, Sizes DEF Size
  <2> QED  BY <1>1, <2>1, <2>2 DEF PayloadBeat
<1>4. CASE b \in MsgBeats
  <2>1. PICK n \in 1..BeatBytes :
           /\ msgpos + n < job.msglen
           /\ b = Beat([i \in 1..n |-> MsgByte(job, msgpos + (i - 1))], 1, FALSE)
    BY <1>4, Zenon DEF MsgBeats
  <2>2. n \in Nat /\ msgpos + n <= job.msglen
    BY <1>2, <2>1, Sizes
  <2> QED  BY <1>1, <2>1, <2>2 DEF PayloadBeat
<1>5. CASE b \in FinalBeats
  <2>1. PICK n \in 0..BeatBytes :
           /\ msgpos + n = job.msglen /\ adpos = job.adlen
           /\ b = Beat([i \in 1..n |-> MsgByte(job, msgpos + (i - 1))], 1, TRUE)
    BY <1>5, Zenon DEF FinalBeats
  <2>2. n \in Nat /\ msgpos + n <= job.msglen
    BY <1>2, <2>1, Sizes
  <2> QED  BY <1>1, <2>1, <2>2 DEF PayloadBeat
<1> QED  BY <1>1, <1>3, <1>4, <1>5 DEF Offered

\* Every step is one edge of an engine that is offered its job's payload.
LEMMA NextEngine ==
    ASSUME EngineInv, Next
    PROVE  EngineInv'
<1>1. ASSUME NEW j \in Jobs, Start(j) PROVE EngineInv'
  <2>1. EngineEdge(TRUE, j, NoBeat, TRUE) /\ CoreEdge /\ est # "RX"
    BY <1>1 DEF Start, EngineEdge, IdleEdge
  <2> QED  BY <1>1, <2>1, EngineStep
<1>2. ASSUME NEW b \in Offered, Receive(b) PROVE EngineInv'
  <2>1. EngineEdge(FALSE, None, b, TRUE) /\ CoreEdge
    BY <1>2 DEF Receive, EngineEdge
  <2> QED  BY <2>1, OfferedIsPayload, EngineStep
<1>3. CASE Send \/ Internal
  <2>1. EngineEdge(FALSE, None, NoBeat, TRUE) /\ CoreEdge
    BY <1>3 DEF Send, Internal, EngineEdge
  <2>2. PayloadBeat(NoBeat)
    BY DEF PayloadBeat
  <2> QED  BY <2>1, <2>2, EngineStep
<1>4. CASE Pause
  <2>1. EngineEdge(FALSE, None, NoBeat, FALSE) /\ CoreEdge
    BY <1>4 DEF Pause, EngineEdge
  <2>2. PayloadBeat(NoBeat)
    BY DEF PayloadBeat
  <2> QED  BY <2>1, <2>2, EngineStep
<1> QED  BY <1>1, <1>2, <1>3, <1>4 DEF Next

\* The beat on the stream is well formed.
LEMMA MBeatTyped == ASSUME EngineInv, est = "TX" PROVE MBeat \in MBeatType
<1>1. /\ job.msglen \in 0..MsgMax /\ res \in CoreInputs
      /\ txpos \in Nat /\ txpos < job.msglen /\ MKeep \in 1..BeatBytes
  BY Transmitting DEF EngineInv, EngineSound
<1>2. MKeep \in 0..BeatBytes /\ txpos \in 0..MsgMax
  BY <1>1, Sizes
<1>3. (TxRem <= BeatBytes) \in BOOLEAN
  OBVIOUS
<1> QED  BY <1>1, <1>2, <1>3 DEF MBeat, MBeatType

\* One more beat after n full ones.
LEMMA Appended ==
    ASSUME NEW S, NEW s \in Seq(S), NEW e \in S
    PROVE  /\ Append(s, e) \in Seq(S) /\ Len(Append(s, e)) = Len(s) + 1
           /\ \A k \in 1..Len(s) : Append(s, e)[k] = s[k]
           /\ Append(s, e)[Len(s) + 1] = e
BY AppendProperties

LEMMA SendSent ==
    ASSUME IInv, Send
    PROVE  mlog' \in Seq(MBeatType) /\ Sent'
<1> DEFINE n == Len(mlog)
<1>1. /\ est = "TX" /\ mlog' = Append(mlog, MBeat)
      /\ UNCHANGED <<job, res>>
      /\ \/ TxRem <= BeatBytes /\ est' = "DONE" /\ txpos' = txpos
         \/ ~(TxRem <= BeatBytes) /\ est' = "TX" /\ txpos' = Wrap8(txpos + BeatBytes)
  BY DEF Send, TxEdge
<1>2. doneO' = FALSE
  BY Zenon DEF Send, TxEdge
<1>3. /\ job.msglen \in 0..MsgMax /\ res = Ideal(job)
      /\ txpos \in Nat /\ txpos < job.msglen
      /\ TxRem = job.msglen - txpos
      /\ mlog \in Seq(MBeatType) /\ n \in Nat /\ txpos = n * BeatBytes
      /\ \A k \in 1..n : mlog[k] = FullBeat(job, k)
  <2>1. /\ job.msglen \in 0..MsgMax /\ txpos \in Nat /\ txpos < job.msglen
        /\ TxRem = job.msglen - txpos
    BY <1>1, Transmitting DEF IInv, EngineInv, EngineSound
  <2>2. res = Ideal(job)
    BY <1>1 DEF IInv, EngineInv, EngineOwn, OwnAnswer, HasResult
  <2>3. mlog \in Seq(MBeatType) /\ n \in Nat
    BY LenProperties DEF IInv
  <2> QED  BY <1>1, <2>1, <2>2, <2>3 DEF IInv, Sent
<1>4. /\ mlog' \in Seq(MBeatType) /\ Len(mlog') = n + 1
      /\ \A k \in 1..n : mlog'[k] = mlog[k]
      /\ mlog'[n + 1] = MBeat
  BY <1>1, <1>3, MBeatTyped, Appended DEF IInv
<1> HIDE DEF n
<1>5. (n + 1) * BeatBytes = txpos + BeatBytes /\ ((n + 1) - 1) * BeatBytes = txpos
  BY <1>3, Sizes
<1>6. est' = "TX" => txpos' = txpos + BeatBytes
  <2>1. CASE ~(TxRem <= BeatBytes)
    <3>1. job.msglen - txpos > BeatBytes
      BY <1>3, <2>1, Sizes
    <3>2. txpos + BeatBytes \in 0..255
      BY <1>3, <3>1, Sizes
    <3> QED  BY <1>1, <2>1, <3>2, Wraps
  <2> QED  BY <1>1, <2>1
<1>7. Sent'
  <2>1. CASE TxRem <= BeatBytes
    <3>1. est' = "DONE"
      BY <1>1, <2>1
    <3>2. (job.msglen + BeatBytes - 1) \div BeatBytes = n + 1
      <4>1. ((n + 1) - 1) * BeatBytes < job.msglen /\ job.msglen <= (n + 1) * BeatBytes
        <5>1. job.msglen - txpos <= BeatBytes /\ txpos < job.msglen
          BY <1>3, <2>1
        <5>2. job.msglen <= txpos + BeatBytes
          BY <1>3, <5>1, Sizes
        <5> QED  BY <1>5, <5>1, <5>2
      <4>2. n + 1 \in Nat /\ job.msglen \in Nat
        BY <1>3
      <4> QED  BY <4>1, <4>2, Sizes, BeatsNeeded
    <3>3. MBeat = [of |-> Ideal(job), pos |-> ((n + 1) - 1) * BeatBytes,
                   keep |-> job.msglen - ((n + 1) - 1) * BeatBytes, last |-> TRUE]
      <4>1. MKeep = job.msglen - txpos
        <5>1. TxRem \in Int /\ TxRem = job.msglen - txpos
          BY <1>3
        <5> QED  BY <2>1, <5>1, Sizes DEF MKeep
      <4>2. (TxRem <= BeatBytes) = TRUE
        BY <2>1
      <4> QED  BY <1>3, <1>5, <4>1, <4>2, Zenon DEF MBeat
    <3>4. ASSUME NEW k \in 1..(n + 1)
          PROVE  mlog'[k] = [of   |-> Ideal(job),
                             pos  |-> (k - 1) * BeatBytes,
                             keep |-> IF k = n + 1 THEN job.msglen - (k - 1) * BeatBytes
                                                   ELSE BeatBytes,
                             last |-> (k = n + 1)]
      <4>1. CASE k = n + 1
        BY <1>4, <3>3, <4>1
      <4>2. CASE k # n + 1
        <5>1. k \in 1..n
          BY <1>3, <4>2
        <5>2. mlog'[k] = FullBeat(job, k)
          BY <1>3, <1>4, <5>1
        <5>3. (k = n + 1) = FALSE
          BY <4>2
        <5> QED  BY <4>2, <5>2, <5>3 DEF FullBeat
      <4> QED  BY <4>1, <4>2
    <3>5. Exact'
      BY <1>1, <1>4, <3>2, <3>4 DEF Exact
    <3> QED  BY <1>2, <3>1, <3>5 DEF Sent
  <2>2. CASE ~(TxRem <= BeatBytes)
    <3>1. est' = "TX" /\ txpos' = txpos + BeatBytes
      BY <1>1, <1>6, <2>2
    <3>2. txpos + BeatBytes < job.msglen
      <4>1. job.msglen - txpos > BeatBytes
        BY <1>3, <2>2, Sizes
      <4> QED  BY <1>3, <4>1, Sizes
    <3>3. MBeat = FullBeat(job, n + 1)
      <4>1. MKeep = BeatBytes
        <5>1. TxRem \in Int
          BY <1>3
        <5> QED  BY <2>2, <5>1, Sizes DEF MKeep
      <4>2. (TxRem <= BeatBytes) = FALSE
        BY <2>2
      <4> QED  BY <1>3, <1>5, <4>1, <4>2, Zenon DEF MBeat, FullBeat
    <3>4. ASSUME NEW k \in 1..(n + 1) PROVE mlog'[k] = FullBeat(job, k)
      <4>1. CASE k = n + 1
        BY <1>4, <3>3, <4>1
      <4>2. CASE k # n + 1
        <5>1. k \in 1..n
          BY <1>3, <4>2
        <5> QED  BY <1>3, <1>4, <5>1
      <4> QED  BY <4>1, <4>2
    <3>5. \A k \in 1..Len(mlog') : mlog'[k] = FullBeat(job', k)
      BY <1>1, <1>4, <3>4
    <3>6. txpos' < job'.msglen /\ txpos' = Len(mlog') * BeatBytes
      BY <1>1, <1>4, <1>5, <3>1, <3>2
    <3> QED  BY <1>2, <3>1, <3>5, <3>6 DEF Sent, FullBeat, Ideal
  <2> QED  BY <2>1, <2>2
<1> QED  BY <1>4, <1>7

LEMMA QuietSent ==
    ASSUME IInv, Internal \/ Pause
    PROVE  mlog' \in Seq(MBeatType) /\ Sent'
<1>1. mlog' = mlog /\ mlog \in Seq(MBeatType)
  BY DEF IInv, Internal, Pause
<1>2. CASE Pause
  <2>1. est' = est /\ UNCHANGED <<job, txpos>>
    BY <1>2 DEF Pause, IdleEdge, RxEdge, TxEdge, NoBeat, Beat
  <2>2. doneO' = FALSE
    BY <1>2, Zenon DEF Pause, IdleEdge, RxEdge, TxEdge
  <2> QED  BY <1>1, <2>1, <2>2 DEF IInv, Sent, Exact, FullBeat
<1>3. CASE RunEdge \/ BusyEdge
  <2>1. est \in {"RUN", "BUSY"} /\ est' \in {"BUSY", "WAIT"}
    BY <1>3 DEF RunEdge, BusyEdge
  <2>2. doneO' = FALSE
    BY <1>3, Zenon DEF RunEdge, BusyEdge
  <2> QED  BY <1>1, <2>1, <2>2 DEF IInv, Sent
<1>4. CASE WaitEdge
  <2>1. /\ est = "WAIT" /\ job' = job /\ mlog = <<>>
        /\ \/ est' = est
           \/ txpos' = 0 /\ est' = (IF job.msglen = 0 THEN "DONE" ELSE "TX")
    BY <1>4 DEF WaitEdge, IInv, Sent
  <2>2. doneO' = FALSE
    BY <1>4, Zenon DEF WaitEdge
  <2>3. job.msglen \in 0..MsgMax /\ Len(mlog) = 0
    BY <2>1, JobFacts, EmptySeq DEF IInv, EngineInv, EngineSound, EngineTyped
  <2>4. CASE job.msglen = 0
    <3>1. (job.msglen + BeatBytes - 1) \div BeatBytes = 0
      BY <2>4, Sizes, BeatsNeeded
    <3>2. Exact'
      BY <1>1, <2>1, <2>3, <3>1 DEF Exact
    <3> QED  BY <1>1, <2>1, <2>2, <2>4, <3>2 DEF Sent
  <2>5. CASE job.msglen # 0
    BY <1>1, <2>1, <2>2, <2>3, <2>5, Sizes DEF Sent
  <2> QED  BY <2>4, <2>5
<1>5. CASE DoneEdge
  <2>1. est = "DONE" /\ est' = "IDLE" /\ job' = job
    BY <1>5 DEF DoneEdge
  <2>2. Exact
    BY <2>1 DEF IInv, Sent
  <2>3. Exact'
    BY <1>1, <2>1, <2>2 DEF Exact
  <2> QED  BY <1>1, <2>1, <2>3 DEF Sent
<1> QED  BY <1>2, <1>3, <1>4, <1>5 DEF Internal

LEMMA NextIInv == IInv /\ [Next]_vars => IInv'
<1> SUFFICES ASSUME IInv, [Next]_vars PROVE IInv'
  OBVIOUS
<1>1. CASE UNCHANGED vars
  <2>1. EngineInv'
    BY <1>1, EngineStays DEF IInv, vars
  <2>2. mlog' = mlog /\ UNCHANGED <<est, job, txpos, doneO>>
    BY <1>1 DEF vars, axisVars, engineVars
  <2> QED  BY <2>1, <2>2 DEF IInv, Sent, Exact, FullBeat
<1>2. CASE Next
  <2>1. EngineInv'
    BY <1>2, NextEngine DEF IInv
  <2>2. ASSUME NEW j \in Jobs, Start(j) PROVE mlog' \in Seq(MBeatType) /\ Sent'
    <3>1. est' = "RX" /\ mlog' = <<>>
      BY <2>2 DEF Start, IdleEdge
    <3>2. doneO' = FALSE
      BY <2>2, Zenon DEF Start, IdleEdge
    <3> QED  BY <3>1, <3>2, EmptySeq DEF Sent
  <2>3. ASSUME NEW b \in Offered, Receive(b) PROVE mlog' \in Seq(MBeatType) /\ Sent'
    <3>1. est = "RX" /\ est' \in {"RX", "RUN"} /\ mlog' = mlog
      BY <2>3 DEF Receive, RxEdge
    <3>2. doneO' = FALSE
      BY <2>3, Zenon DEF Receive, RxEdge
    <3> QED  BY <3>1, <3>2 DEF IInv, Sent
  <2> QED  BY <1>2, <2>1, <2>2, <2>3, SendSent, QuietSent DEF IInv, Next
<1> QED  BY <1>1, <1>2

-----------------------------------------------------------------------------
(* Theorems.                                                               *)

\* In every reachable state what was received and what was sent are prefixes
\* of the job's payload and of its own result, and the core is at rest or at
\* work on the job (the registers of ascon_aead128_axis.v, all of them).
THEOREM Invariance == Spec => []IInv
<1>1. Init => IInv
  BY InitIInv
<1>2. IInv /\ [Next]_vars => IInv'
  BY NextIInv
<1> QED  BY <1>1, <1>2, PTL DEF Spec

\* Every register keeps its width and every beat on the output is well formed,
\* and the engine never leaves ST_IDLE without parameters.
THEOREM TypeCorrect == Spec => []TypeOK
<1>1. IInv => TypeOK
  <2> SUFFICES ASSUME IInv PROVE TypeOK
    OBVIOUS
  <2>1. EngineTypeOK /\ mlog \in Seq(MBeatType)
    BY DEF IInv, EngineInv, EngineSound, EngineTyped
  <2>2. est # "IDLE" => job # None
    BY EngineAssumption DEF IInv, EngineInv, EngineSound, EngineTyped
  <2> QED  BY <2>1, <2>2 DEF TypeOK
<1> QED  BY <1>1, Invariance, PTL

\* The core is started once per job and left alone outside the states that
\* wait for it: core_start is never high while the core is busy.
THEOREM CoreOwned == Spec => []CoreOwnedByJob
<1>1. IInv => CoreOwnedByJob
  BY DEF IInv, EngineInv, EngineSound, CorePhases, CoreOwnedByJob
<1> QED  BY <1>1, Invariance, PTL

\* The result sent or reported done is the result of the accepted job on
\* exactly its payload, with that job's verdict: the done_o the core still
\* holds from the previous job is never taken for this one's.
THEOREM OwnResults == Spec => []ResultIsOurs
<1>1. IInv => ResultIsOurs
  BY DEF IInv, EngineInv, EngineOwn, OwnAnswer, HasResult, ResultIsOurs
<1> QED  BY <1>1, Invariance, PTL

\* When done_o is raised the slave has taken the whole result exactly once and
\* in order, in full beats but the last, with tlast on the last only.
THEOREM ExactOutput == Spec => []OutputIsExact
<1>1. IInv => OutputIsExact
  BY DEF IInv, Sent, Exact, OutputIsExact
<1> QED  BY <1>1, Invariance, PTL

\* From the start pulse until the result is taken, no edge changes what the
\* core reads: key, nonce, tag, lengths and both payload buffers.
THEOREM InputsHeld == Spec => InputsHeldWhileBusy
<1>1. IInv /\ [Next]_vars =>
        [(coreStart \/ cbusy) /\ (coreStart' \/ cbusy' \/ est' = "WAIT")
            => CoreInput' = CoreInput]_vars
  <2> SUFFICES ASSUME IInv, Next, coreStart \/ cbusy
               PROVE  CoreInput' = CoreInput
    BY DEF vars
  <2>1. est \in {"BUSY", "WAIT"}
    BY DEF IInv, EngineInv, EngineSound, CorePhases
  <2>2. BusyEdge \/ WaitEdge
    BY <2>1 DEF Next, Start, Receive, Send, Internal, Pause,
                IdleEdge, RxEdge, TxEdge, RunEdge, DoneEdge
  <2>3. job' = job /\ adbuf' = adbuf /\ msgbuf' = msgbuf
    BY <2>2 DEF BusyEdge, WaitEdge
  <2> QED  BY <2>3 DEF CoreInput
<1> QED  BY <1>1, Invariance, PTL DEF Spec, InputsHeldWhileBusy
=============================================================================
