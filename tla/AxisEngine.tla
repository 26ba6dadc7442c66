----------------------------- MODULE AxisEngine -----------------------------
(***************************************************************************)
(* ascon_aead128_axis: the stream engine around the AEAD core              *)
(* (rtl/generated/accel/ascon_aead128_axis.v).                             *)
(*                                                                         *)
(* The module holds the engine's registers and what ONE clock edge does to *)
(* them for given inputs; the modules that extend it (StreamSystem,        *)
(* SlinkPlane) connect the inputs.  The core inside is CoreContract, which *)
(* AeadCore implements: between two edges it is idle or busy, and it takes *)
(* as many cycles as it likes.                                             *)
(*                                                                         *)
(* A payload byte is a value that names the operation and position it      *)
(* belongs to, a result is named by the request it was computed from.      *)
(***************************************************************************)
EXTENDS Integers, Sequences

CONSTANTS
    Ids,        \* names for the contents of key, nonce and payload
    Zero,       \* the value of a cleared buffer byte
    Jobs,       \* the values of the engine's parameter inputs
    BeatBytes,  \* bytes per stream beat (4)
    AdMax,      \* size of adbuf in bytes
    MsgMax,     \* size of msgbuf and outbuf in bytes
    None

Wrap8(n) == n % 256     \* an 8-bit register

\* A job: key, nonce and payload by name, the direction, whether the tag
\* presented for a decryption is the genuine one, and the two lengths.
JobType == [id : Ids, dec : BOOLEAN, tagok : BOOLEAN, adlen : 0..AdMax, msglen : 0..MsgMax]

ASSUME EngineAssumption ==
    /\ Ids # {}
    /\ BeatBytes \in Nat \ {0}
    /\ AdMax \in Nat /\ MsgMax \in Nat
    \* positions and lengths are 8-bit registers
    /\ AdMax + BeatBytes < 256 /\ MsgMax + BeatBytes < 256
    /\ Jobs \subseteq JobType
    /\ None \notin Jobs
    /\ Zero \notin Ids \X {"ad", "msg"} \X Nat

VARIABLES
    est,                    \* the engine's state register
    job,                    \* key_r, nonce_r, tagin_r, ad_len_r, msg_len_r, decrypt_r
    adpos, msgpos, txpos,   \* byte positions
    adbuf, msgbuf,          \* received payload
    coreStart,              \* the start pulse to the core
    res,                    \* outbuf and tag_o: the result captured
    validO,                 \* valid_o, the verdict captured with it
    doneO,                  \* done_o, a one-cycle pulse
    cbusy, creq, cresult    \* the core

engineVars == <<est, job, adpos, msgpos, txpos, adbuf, msgbuf, coreStart, res, validO, doneO>>
coreVars   == <<cbusy, creq, cresult>>
axisVars   == <<engineVars, coreVars>>

EngineStates == {"IDLE", "RX", "RUN", "BUSY", "WAIT", "TX", "DONE"}

Bytes  == Ids \X {"ad", "msg"} \X Nat

AdByte(j, i)  == <<j.id, "ad", i>>
MsgByte(j, i) == <<j.id, "msg", i>>

AdBuf  == [0..AdMax-1 -> Bytes \cup {Zero}]
MsgBuf == [0..MsgMax-1 -> Bytes \cup {Zero}]

\* What the core sees on its inputs: the latched parameters and the buffers.
CoreInputs == [job : Jobs, ad : AdBuf, msg : MsgBuf]
CoreInput  == [job |-> job, ad |-> adbuf, msg |-> msgbuf]

ResultOf(r) == r   \* a result is named by the request it is the result of

\* The inputs the core should see for job j: its payload and nothing else.
Ideal(j) ==
    [job |-> j,
     ad  |-> [i \in 0..AdMax-1  |-> IF i < j.adlen  THEN AdByte(j, i)  ELSE Zero],
     msg |-> [i \in 0..MsgMax-1 |-> IF i < j.msglen THEN MsgByte(j, i) ELSE Zero]]

\* valid_o of the core: a decryption's recomputed tag equals tag_i only if the
\* tag is genuine and what was absorbed is what the tag was made for.
Verdict(r) == r.job.dec => (r.job.tagok /\ r = Ideal(r.job))

Core == INSTANCE CoreContract WITH
    Requests <- CoreInputs, Eval <- ResultOf,
    busy <- cbusy, req <- creq, result <- cresult

-----------------------------------------------------------------------------
(* The stream interfaces.                                                  *)

\* s_tdata and s_tkeep are the bytes kept (masks are contiguous from byte 0),
\* user tells associated data (0) from message (1).
Beat(bytes, user, last) == [bytes |-> bytes, user |-> user, last |-> last]
NoBeat == Beat(<<>>, -1, FALSE)            \* s_tvalid = 0

SReady == est = "RX"                        \* s_tready
MValid == est = "TX"                        \* m_tvalid

TxRem  == Wrap8(job.msglen - txpos)
MKeep  == IF TxRem >= BeatBytes THEN BeatBytes ELSE TxRem
\* The beat on m_*: bytes txpos .. txpos+keep-1 of the captured result.
MBeat  == [of |-> res, pos |-> txpos, keep |-> MKeep, last |-> (TxRem <= BeatBytes)]

\* Bytes land at pos, pos+1, ...; those past the end of the buffer are lost.
Write(buf, pos, bytes) ==
    [i \in DOMAIN buf |->
        IF i \in pos .. (pos + Len(bytes) - 1) THEN bytes[i - pos + 1] ELSE buf[i]]

-----------------------------------------------------------------------------
(* One clock edge of the engine, by state.  core_start and done_o are      *)
(* pulses: low again unless this edge raises them.                         *)

EngineInit ==
    /\ est = "IDLE" /\ job = None
    /\ adpos = 0 /\ msgpos = 0 /\ txpos = 0
    /\ adbuf = [i \in 0..AdMax-1 |-> Zero]
    /\ msgbuf = [i \in 0..MsgMax-1 |-> Zero]
    /\ coreStart = FALSE /\ doneO = FALSE /\ res = None /\ validO = FALSE
    /\ Core!Init

IdleEdge(start, j) ==
    /\ est = "IDLE"
    /\ IF start
       THEN /\ est' = "RX" /\ job' = j
            /\ adpos' = 0 /\ msgpos' = 0 /\ txpos' = 0
            /\ adbuf' = [i \in 0..AdMax-1 |-> Zero]
            /\ msgbuf' = [i \in 0..MsgMax-1 |-> Zero]
            /\ validO' = FALSE
       ELSE UNCHANGED <<est, job, adpos, msgpos, txpos, adbuf, msgbuf, validO>>
    /\ coreStart' = FALSE /\ doneO' = FALSE
    /\ UNCHANGED res

\* Mutant: a beat without bytes does not end the message segment.
M_RxEdge(beat) ==
    /\ est = "RX"
    /\ CASE beat.user = 0 ->
              /\ adbuf' = Write(adbuf, adpos, beat.bytes)
              /\ adpos' = Wrap8(adpos + Len(beat.bytes))
              /\ UNCHANGED <<msgbuf, msgpos>>
         [] beat.user = 1 ->
              /\ msgbuf' = Write(msgbuf, msgpos, beat.bytes)
              /\ msgpos' = Wrap8(msgpos + Len(beat.bytes))
              /\ UNCHANGED <<adbuf, adpos>>
         [] OTHER -> UNCHANGED <<adbuf, adpos, msgbuf, msgpos>>
    /\ est' = IF beat.last /\ beat.user = 1 /\ beat.bytes # <<>> THEN "RUN" ELSE "RX"
    /\ coreStart' = FALSE /\ doneO' = FALSE
    /\ UNCHANGED <<job, txpos, res, validO>>

RxEdge(beat) ==
    /\ est = "RX"
    /\ CASE beat.user = 0 ->
              /\ adbuf' = Write(adbuf, adpos, beat.bytes)
              /\ adpos' = Wrap8(adpos + Len(beat.bytes))
              /\ UNCHANGED <<msgbuf, msgpos>>
         [] beat.user = 1 ->
              /\ msgbuf' = Write(msgbuf, msgpos, beat.bytes)
              /\ msgpos' = Wrap8(msgpos + Len(beat.bytes))
              /\ UNCHANGED <<adbuf, adpos>>
         [] OTHER -> UNCHANGED <<adbuf, adpos, msgbuf, msgpos>>
    /\ est' = IF beat.last /\ beat.user = 1 THEN "RUN" ELSE "RX"
    /\ coreStart' = FALSE /\ doneO' = FALSE
    /\ UNCHANGED <<job, txpos, res, validO>>

\* Mutant: done_o is watched at once, without waiting for core_busy.
M_RunEdge ==
    /\ est = "RUN"
    /\ coreStart' = TRUE /\ doneO' = FALSE
    /\ est' = "WAIT"
    /\ UNCHANGED <<job, adpos, msgpos, txpos, adbuf, msgbuf, res, validO>>

RunEdge ==
    /\ est = "RUN"
    /\ coreStart' = TRUE /\ doneO' = FALSE
    /\ est' = "BUSY"
    /\ UNCHANGED <<job, adpos, msgpos, txpos, adbuf, msgbuf, res, validO>>

\* Mutant: the start is held until the core is seen to be busy.
M_BusyEdge_Hold ==
    /\ est = "BUSY"
    /\ est' = IF cbusy THEN "WAIT" ELSE "BUSY"
    /\ coreStart' = ~cbusy /\ doneO' = FALSE
    /\ UNCHANGED <<job, adpos, msgpos, txpos, adbuf, msgbuf, res, validO>>

\* Mutant: the buffers are cleared for the next job as soon as the core runs.
M_BusyEdge_Clears ==
    /\ est = "BUSY"
    /\ est' = IF cbusy THEN "WAIT" ELSE "BUSY"
    /\ coreStart' = FALSE /\ doneO' = FALSE
    /\ adbuf' = IF cbusy THEN [i \in 0..AdMax-1 |-> Zero] ELSE adbuf
    /\ UNCHANGED <<job, adpos, msgpos, txpos, msgbuf, res, validO>>

\* The core holds its old done_o until it accepts the start, so done_o is not
\* looked at before core_busy has been seen.
BusyEdge ==
    /\ est = "BUSY"
    /\ est' = IF cbusy THEN "WAIT" ELSE "BUSY"
    /\ coreStart' = FALSE /\ doneO' = FALSE
    /\ UNCHANGED <<job, adpos, msgpos, txpos, adbuf, msgbuf, res, validO>>

\* Mutant: the result is captured whether or not the core is done.
M_WaitEdge ==
    /\ est = "WAIT"
    /\ res' = cresult
    /\ validO' = FALSE
    /\ txpos' = 0
    /\ est' = IF job.msglen = 0 THEN "DONE" ELSE "TX"
    /\ coreStart' = FALSE /\ doneO' = FALSE
    /\ UNCHANGED <<job, adpos, msgpos, adbuf, msgbuf>>

WaitEdge ==
    /\ est = "WAIT"
    /\ IF cresult # None
       THEN /\ res' = cresult
            /\ validO' = Verdict(cresult)
            /\ txpos' = 0
            /\ est' = IF job.msglen = 0 THEN "DONE" ELSE "TX"
       ELSE UNCHANGED <<est, res, validO, txpos>>
    /\ coreStart' = FALSE /\ doneO' = FALSE
    /\ UNCHANGED <<job, adpos, msgpos, adbuf, msgbuf>>

\* Mutant: a full last beat is not seen to be the last one.
M_TxEdge_Strict(mready) ==
    /\ est = "TX"
    /\ IF ~mready THEN UNCHANGED <<est, txpos>>
       ELSE IF TxRem < BeatBytes
            THEN est' = "DONE" /\ UNCHANGED txpos
            ELSE txpos' = Wrap8(txpos + BeatBytes) /\ UNCHANGED est
    /\ coreStart' = FALSE /\ doneO' = FALSE
    /\ UNCHANGED <<job, adpos, msgpos, adbuf, msgbuf, res, validO>>

\* Mutant: sending ends when no byte is left, which a partial beat steps over.
M_TxEdge_Over(mready) ==
    /\ est = "TX"
    /\ IF ~mready THEN UNCHANGED <<est, txpos>>
       ELSE IF TxRem = 0
            THEN est' = "DONE" /\ UNCHANGED txpos
            ELSE txpos' = Wrap8(txpos + BeatBytes) /\ UNCHANGED est
    /\ coreStart' = FALSE /\ doneO' = FALSE
    /\ UNCHANGED <<job, adpos, msgpos, adbuf, msgbuf, res, validO>>

TxEdge(mready) ==
    /\ est = "TX"
    /\ IF ~mready THEN UNCHANGED <<est, txpos>>
       ELSE IF TxRem <= BeatBytes
            THEN est' = "DONE" /\ UNCHANGED txpos
            ELSE txpos' = Wrap8(txpos + BeatBytes) /\ UNCHANGED est
    /\ coreStart' = FALSE /\ doneO' = FALSE
    /\ UNCHANGED <<job, adpos, msgpos, adbuf, msgbuf, res, validO>>

DoneEdge ==
    /\ est = "DONE"
    /\ doneO' = TRUE /\ coreStart' = FALSE
    /\ est' = "IDLE"
    /\ UNCHANGED <<job, adpos, msgpos, txpos, adbuf, msgbuf, res, validO>>

EngineEdge(start, j, beat, mready) ==
    \/ IdleEdge(start, j)
    \/ RxEdge(beat)
    \/ RunEdge \/ BusyEdge \/ WaitEdge
    \/ TxEdge(mready)
    \/ DoneEdge

-----------------------------------------------------------------------------
(* The same edge in the core.                                              *)

CoreTakes   == coreStart /\ Core!Accept(CoreInput)
CoreWorks   == cbusy /\ UNCHANGED coreVars
CoreEnds    == Core!Finish
CoreResting == ~cbusy /\ ~coreStart /\ UNCHANGED coreVars

CoreEdge == CoreTakes \/ CoreWorks \/ CoreEnds \/ CoreResting

-----------------------------------------------------------------------------
\* Type invariant of the engine and the core in it.
EngineTypeOK ==
    /\ est \in EngineStates
    /\ job \in Jobs \cup {None}
    /\ adpos \in 0..255 /\ msgpos \in 0..255 /\ txpos \in 0..255
    /\ adbuf \in AdBuf /\ msgbuf \in MsgBuf
    /\ coreStart \in BOOLEAN /\ doneO \in BOOLEAN
    /\ res \in CoreInputs \cup {None}
    /\ validO \in BOOLEAN
    /\ cbusy \in BOOLEAN
    /\ creq \in CoreInputs \cup {None}
    /\ cresult \in CoreInputs \cup {None}
=============================================================================
