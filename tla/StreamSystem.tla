---------------------------- MODULE StreamSystem ----------------------------
(***************************************************************************)
(* The stream engine between a stream master that sends the payload of the *)
(* job the engine accepted and a stream slave that takes the result: the   *)
(* AXI4-Stream contract of ascon_aead128_axis on its own.                  *)
(*                                                                         *)
(* The master may cut the payload into beats of any size, may mix the two  *)
(* segments, may set tlast on an associated-data beat, and may pause; it   *)
(* ends the message segment with tlast once all the payload is sent.  The  *)
(* slave may hold tready low.  One step is one clock edge.                 *)
(***************************************************************************)
EXTENDS AxisEngine

VARIABLE
    mlog        \* the beats the slave has taken since the last start

vars == <<axisVars, mlog>>

-----------------------------------------------------------------------------
(* The stream master.                                                      *)

Size(n, rem) == n <= BeatBytes /\ n <= rem

AdBeats ==
    {Beat([i \in 1..n |-> AdByte(job, adpos + (i - 1))], 0, last) :
        n \in {k \in 1..BeatBytes : Size(k, job.adlen - adpos)}, last \in BOOLEAN}

\* A message beat that is not the last one.
MsgBeats ==
    {Beat([i \in 1..n |-> MsgByte(job, msgpos + (i - 1))], 1, FALSE) :
        n \in {k \in 1..BeatBytes : Size(k, job.msglen - msgpos) /\ msgpos + k < job.msglen}}

\* The last message beat, empty when the message is, and only after the
\* associated data.
FinalBeats ==
    {Beat([i \in 1..n |-> MsgByte(job, msgpos + (i - 1))], 1, TRUE) :
        n \in {k \in 0..BeatBytes : /\ Size(k, job.msglen - msgpos)
                                    /\ msgpos + k = job.msglen
                                    /\ adpos = job.adlen}}

Offered == IF est = "RX" THEN AdBeats \cup MsgBeats \cup FinalBeats ELSE {}

-----------------------------------------------------------------------------
Init == EngineInit /\ mlog = <<>>

Start(j) ==
    /\ IdleEdge(TRUE, j) /\ CoreEdge
    /\ mlog' = <<>>

Receive(b) ==
    /\ RxEdge(b) /\ CoreEdge
    /\ UNCHANGED mlog

Send ==
    /\ TxEdge(TRUE) /\ CoreEdge
    /\ mlog' = Append(mlog, MBeat)

\* Edges at which the engine moves by itself.
Internal ==
    /\ RunEdge \/ BusyEdge \/ WaitEdge \/ DoneEdge
    /\ CoreEdge
    /\ UNCHANGED mlog

\* Edges at which the outside gives the engine nothing to do.
Pause ==
    /\ IdleEdge(FALSE, None) \/ RxEdge(NoBeat) \/ TxEdge(FALSE)
    /\ CoreEdge
    /\ UNCHANGED mlog

Next ==
    \/ \E j \in Jobs : Start(j)
    \/ \E b \in Offered : Receive(b)
    \/ Send
    \/ Internal
    \/ Pause

\* An engine that can move by itself does, the core ends what it accepted
\* (CoreContract), and neither side of the stream pauses for ever.
CoreFinishes == Internal /\ cbusy /\ ~cbusy'

Fairness ==
    /\ WF_vars(Internal)
    /\ WF_vars(CoreFinishes)
    /\ WF_vars(\E b \in Offered : Receive(b))
    /\ WF_vars(Send)

Spec == Init /\ [][Next]_vars /\ Fairness

-----------------------------------------------------------------------------
(* Properties.                                                             *)

MBeatType == [of : CoreInputs, pos : 0..MsgMax, keep : 0..BeatBytes, last : BOOLEAN]

\* Type invariant.
TypeOK ==
    /\ EngineTypeOK
    /\ est # "IDLE" => job # None
    /\ mlog \in Seq(MBeatType)

\* The core reads key, nonce, tag and payload while it works, so the engine
\* must not change any of them between starting it and taking its result.
InputsHeldWhileBusy ==
    [][(coreStart \/ cbusy) /\ (coreStart' \/ cbusy' \/ est' = "WAIT")
          => CoreInput' = CoreInput]_vars

\* What is being sent, or has just been reported done, is the result of the
\* accepted job on exactly its payload, with that job's verdict: never the
\* result of the previous job, which the core still holds when it is started,
\* and never of a payload cut short.
ResultIsOurs ==
    (est \in {"TX", "DONE"} \/ doneO) =>
        /\ res = Ideal(job)
        /\ validO = (job.dec => job.tagok)

\* When done_o is raised the slave has taken the whole result once, in order:
\* every beat full except the last, tlast on the last and only there.
OutputIsExact ==
    doneO =>
        /\ Len(mlog) = (job.msglen + BeatBytes - 1) \div BeatBytes
        /\ \A k \in 1..Len(mlog) :
              LET final == k = Len(mlog)
              IN  mlog[k] = [of   |-> Ideal(job),
                             pos  |-> (k - 1) * BeatBytes,
                             keep |-> IF final THEN job.msglen - (k - 1) * BeatBytes
                                               ELSE BeatBytes,
                             last |-> final]

\* At most one of "start pending", "core busy" at a time, and the core is left
\* alone outside the three states that wait for it.
CoreOwnedByJob ==
    /\ ~(coreStart /\ cbusy)
    /\ (coreStart \/ cbusy) => est \in {"BUSY", "WAIT"}
    /\ (est = "BUSY" => coreStart \/ cbusy)

\* The policy the golden stream model states for the hardware: a decryption
\* whose tag does not verify gives out no plaintext beat.
UnverifiedStaysInside == (mlog # <<>> /\ job.dec) => validO

\* Every job the engine accepts is reported done.
EveryStartIsDone == (est = "RX") ~> doneO
=============================================================================
