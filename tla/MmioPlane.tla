----------------------------- MODULE MmioPlane ------------------------------
(***************************************************************************)
(* The MMIO data plane, hardware and driver together:                      *)
(*                                                                         *)
(*   ascon_accel_encrypt/decrypt --> NEORV32 XBUS --> ascon_aead128_wb     *)
(*     --> ascon_aead128_axis_mmio --> ascon_aead128_axis                  *)
(*                                                                         *)
(* Everything goes over the bus, one access after the other: a beat is a   *)
(* write of DATA_IN and one of DATA_IN_CTRL, which stalls until the engine *)
(* takes it; the result is collected in a buffer that is read word by word.*)
(*                                                                         *)
(* One step is one clock edge.  At every edge all of the hardware moves    *)
(* (HwEdge).  The XBUS is external, modelled as ascon_aead128_wb.v says:   *)
(* a strobe of one cycle, then it looks at the acknowledge until it comes. *)
(***************************************************************************)
EXTENDS AxisEngine

CONSTANTS
    Calls,          \* the jobs the application may ask for
    MaxTimeouts     \* bound: how many driver calls may time out in a run

\* ascon_accel_encrypt has no tag to present.
ASSUME MmioAssumption ==
    /\ Calls \subseteq Jobs
    /\ \A c \in Calls : c.tagok => c.dec
    /\ MaxTimeouts \in Nat

VARIABLES
    preg, decryptR, startPulse,                 \* parameter registers, start
    busyR, doneR, tagR, tagvR, errR, errcodeR,  \* status registers
    datainR,                                    \* DATA_IN
    outbuf, outw, outr,                         \* collected result, positions
    access,                                     \* the adapter's register
    bus, req,                                   \* XBUS: its cycle and access
    pc, call, seg, off,                         \* the driver
    output, tagOut, ret,                        \* what the caller gets back
    fresh,      \* history: the call's START found the engine at rest
    timeouts

regVars    == <<preg, decryptR, startPulse, busyR, doneR, tagR, tagvR, errR, errcodeR,
                datainR, outbuf, outw, outr>>
hwVars     == <<axisVars, regVars, access>>
driverVars == <<pc, call, seg, off, output, tagOut, ret, fresh, timeouts>>
vars       == <<hwVars, bus, req, driverVars>>

-----------------------------------------------------------------------------
(* Bus accesses.                                                           *)

Read(reg)          == [reg |-> reg, we |-> FALSE]
Write32(reg, data) == [reg |-> reg, we |-> TRUE, data |-> data]

\* DATA_IN_CTRL: how many bytes of DATA_IN, of which segment, last or not.
Ctrl(keep, user, last) == [keep |-> keep, user |-> user, last |-> last]

NoAccess == Read("none")

-----------------------------------------------------------------------------
(* ascon_aead128_axis_mmio.                                                *)

Writes(reg) == access /\ req.we /\ req.reg = reg
Reads(reg)  == access /\ ~req.we /\ req.reg = reg

\* Mutant: every write takes one cycle, whether or not the engine takes the beat.
M_Ready == TRUE

\* A DATA_IN_CTRL write stalls until the engine takes the beat.
Ready == Writes("DATA_IN_CTRL") => SReady

\* wb_ack_o
Ack == access /\ Ready

\* The write is the beat.
InBeat ==
    IF Writes("DATA_IN_CTRL")
    THEN Beat(SubSeq(datainR, 1, req.data.keep), req.data.user, req.data.last)
    ELSE NoBeat

\* A byte of the result by name.
OutByte(r, i) == <<r, i>>
Cleared       == <<None, 0>>

\* Mutant: the write position is not moved by what was kept but by a word.
M_OutCollects(control) ==
    /\ outbuf' = IF MValid
                 THEN [i \in DOMAIN outbuf |->
                          IF i \in outw .. (outw + MKeep - 1)
                          THEN OutByte(res, txpos + (i - outw)) ELSE outbuf[i]]
                 ELSE outbuf
    /\ outw' = IF MValid THEN Wrap8(outw + MKeep) ELSE outw

\* The engine's beats are always taken; CLEAR and START rewind the positions
\* but leave the bytes.
OutCollects(control) ==
    /\ outbuf' = IF MValid
                 THEN [i \in DOMAIN outbuf |->
                          IF i \in outw .. (outw + MKeep - 1)
                          THEN OutByte(res, txpos + (i - outw)) ELSE outbuf[i]]
                 ELSE outbuf
    /\ outw' = CASE control           -> 0
                 [] ~control /\ MValid -> Wrap8(outw + MKeep)
                 [] OTHER              -> outw

\* What DATA_OUT reads: bytes past the end of outbuf do not exist.
OutWord ==
    [i \in 1..BeatBytes |->
        IF outr + (i - 1) \in DOMAIN outbuf THEN outbuf[outr + (i - 1)] ELSE Cleared]

OutMoves(control) ==
    outr' = CASE control                       -> 0
              [] ~control /\ Reads("DATA_OUT") -> Wrap8(outr + BeatBytes)
              [] OTHER                         -> outr

\* What is latched with the start pulse; an encryption does not look at TAG.
StartJob == [preg EXCEPT !.dec = decryptR, !.tagok = decryptR /\ @]

\* Mutant: the error of the operation before is not withdrawn.
M_RegEdge(start, control) ==
    LET reject == decryptR /\ ~validO
    IN  /\ startPulse' = start
        /\ decryptR' = IF start THEN req.data.dec ELSE decryptR
        /\ preg' = IF Writes("PARAMS")
                   THEN [req.data EXCEPT !.tagok = IF req.data.dec THEN @ ELSE preg.tagok]
                   ELSE preg
        /\ datainR' = IF Writes("DATA_IN") THEN req.data ELSE datainR
        /\ busyR'  = (start \/ (busyR /\ ~control /\ ~doneO))
        /\ doneR'  = (~control /\ (doneO \/ doneR))
        /\ tagvR'  = (~control /\ IF doneO THEN ~reject ELSE tagvR)
        /\ errR'   = ((doneO /\ reject) \/ errR)
        /\ errcodeR' = IF doneO /\ reject THEN "TAG_INVALID" ELSE errcodeR
        /\ tagR'   = IF doneO THEN res ELSE tagR

\* A control write comes after, and so overrides, the engine's done.
RegEdge(start, control) ==
    LET reject == decryptR /\ ~validO
    IN  /\ startPulse' = start
        /\ decryptR' = IF start THEN req.data.dec ELSE decryptR
        /\ preg' = IF Writes("PARAMS")
                   THEN [req.data EXCEPT !.tagok = IF req.data.dec THEN @ ELSE preg.tagok]
                   ELSE preg
        /\ datainR' = IF Writes("DATA_IN") THEN req.data ELSE datainR
        /\ busyR'  = (start \/ (busyR /\ ~control /\ ~doneO))
        /\ doneR'  = (~control /\ (doneO \/ doneR))
        /\ tagvR'  = (~control /\ IF doneO THEN ~reject ELSE tagvR)
        /\ errR'   = (~control /\ ((doneO /\ reject) \/ errR))
        /\ errcodeR' = CASE control            -> "NONE"
                         [] ~control /\ doneO  -> IF reject THEN "TAG_INVALID" ELSE "NONE"
                         [] OTHER              -> errcodeR
        /\ tagR'   = IF doneO THEN res ELSE tagR

-----------------------------------------------------------------------------
(* ascon_aead128_wb: the strobe is captured, the access held until ready.  *)

\* Mutant: the access is also presented in the cycle after it was ready.
M_AdapterEdge == access' = IF access THEN ~(Ready /\ bus = "idle") ELSE bus = "strobe"

AdapterEdge == access' = IF access THEN ~Ready ELSE bus = "strobe"

\* One edge of all the hardware.
HwEdge ==
    LET start   == Writes("CONTROL") /\ req.data.start
        control == Writes("CONTROL")
    IN  /\ EngineEdge(startPulse, StartJob, InBeat, TRUE)
        /\ CoreEdge
        /\ RegEdge(start, control) /\ OutCollects(control) /\ OutMoves(control)
        /\ AdapterEdge

-----------------------------------------------------------------------------
(* The driver: ascon_accel_encrypt and _decrypt on the MMIO data plane.    *)

Statuses == {"OK", "TIMEOUT", "TAG_INVALID"}

SegLen == IF seg = "ad" THEN call.adlen ELSE call.msglen
InKeep == IF SegLen - off >= BeatBytes THEN BeatBytes ELSE SegLen - off
InByte(i) == IF seg = "ad" THEN AdByte(call, i) ELSE MsgByte(call, i)

\* Mutant: an empty segment is skipped, as if it had nothing to end.
M_FirstOfSegment(len, next) == IF len = 0 THEN next ELSE "din"

\* A segment without bytes still sends one beat, to carry LAST.
FirstOfSegment(len, next) == "din"

\* The access the driver makes next.  KEY, NONCE, AD_LEN, TEXT_LEN and TAG are
\* looked at only at the start pulse and are written as one, and the four words
\* of the tag are read as one.
AccessOf ==
    CASE pc = "clear"   -> Write32("CONTROL", [start |-> FALSE, dec |-> FALSE])
      [] pc = "params"  -> Write32("PARAMS", call)
      [] pc = "start"   -> Write32("CONTROL", [start |-> TRUE, dec |-> call.dec])
      [] pc = "din"     -> Write32("DATA_IN",
                              [i \in 1..BeatBytes |->
                                  IF i <= InKeep THEN InByte(off + (i - 1)) ELSE Zero])
      [] pc = "dinctl"  -> Write32("DATA_IN_CTRL",
                              Ctrl(InKeep, IF seg = "ad" THEN 0 ELSE 1, off + InKeep = SegLen))
      [] pc \in {"poll", "tagv"} -> Read("STATUS")
      [] pc = "error"   -> Read("ERROR_CODE")
      [] pc = "dout"    -> Read("DATA_OUT")
      [] pc = "doutctl" -> Read("DATA_OUT_CTRL")
      [] pc = "tag"     -> Read("TAG")

\* The bus before the access, and while it is not acknowledged.
Issue ==
    /\ bus = "idle" /\ pc # "returned"
    /\ bus' = "strobe" /\ req' = AccessOf
    /\ HwEdge /\ UNCHANGED driverVars

Strobe ==
    /\ bus = "strobe"
    /\ bus' = "pending"
    /\ HwEdge /\ UNCHANGED <<req, driverVars>>

Stall ==
    /\ bus = "pending" /\ ~Ack
    /\ HwEdge /\ UNCHANGED <<bus, req, driverVars>>

\* The edge at which the bus sees the acknowledge.
Acked ==
    /\ bus = "pending" /\ Ack
    /\ bus' = "idle" /\ req' = NoAccess
    /\ HwEdge

Returns(code) == pc' = "returned" /\ ret' = code

\* The application calls.
Call(c) ==
    /\ pc = "returned" /\ bus = "idle"
    /\ call' = c /\ pc' = "clear" /\ seg' = "ad" /\ off' = 0
    /\ output' = <<>> /\ tagOut' = None /\ ret' = "OK"
    /\ HwEdge /\ UNCHANGED <<bus, req, fresh, timeouts>>

ClearDone ==
    /\ pc = "clear" /\ Acked
    /\ pc' = "params"
    /\ UNCHANGED <<call, seg, off, output, tagOut, ret, fresh, timeouts>>

\* Mutant: the payload is sent before START.
M_ParamsWritten ==
    /\ pc = "params" /\ Acked
    /\ pc' = "din"
    /\ UNCHANGED <<call, seg, off, output, tagOut, ret, fresh, timeouts>>

ParamsWritten ==
    /\ pc = "params" /\ Acked
    /\ pc' = "start"
    /\ UNCHANGED <<call, seg, off, output, tagOut, ret, fresh, timeouts>>

\* START comes before the payload.
Started ==
    /\ pc = "start" /\ Acked
    /\ pc' = FirstOfSegment(call.adlen, "din")
    /\ fresh' = (est' = "IDLE" /\ ~doneO')
    /\ UNCHANGED <<call, seg, off, output, tagOut, ret, timeouts>>

DataWritten ==
    /\ pc = "din" /\ Acked
    /\ pc' = "dinctl"
    /\ UNCHANGED <<call, seg, off, output, tagOut, ret, fresh, timeouts>>

\* The beat is taken: the next word, the next segment, or the end of the payload.
BeatSent ==
    /\ pc = "dinctl" /\ Acked
    /\ CASE off + InKeep < SegLen -> off' = off + InKeep /\ pc' = "din" /\ UNCHANGED seg
         [] ~(off + InKeep < SegLen) /\ seg = "ad" ->
               off' = 0 /\ seg' = "msg" /\ pc' = FirstOfSegment(call.msglen, "poll")
         [] OTHER -> off' = 0 /\ pc' = "poll" /\ UNCHANGED seg
    /\ UNCHANGED <<call, output, tagOut, ret, fresh, timeouts>>

\* ascon_accel_wait_done: DONE or ERROR ends the wait.
Polled ==
    /\ pc = "poll" /\ Acked
    /\ pc' = IF doneR \/ errR THEN "error" ELSE "poll"
    /\ UNCHANGED <<call, seg, off, output, tagOut, ret, fresh, timeouts>>

\* The wait that gives up returns at once: nothing is reset.
PolledTooOften ==
    /\ pc = "poll" /\ Acked /\ ~doneR /\ ~errR
    /\ timeouts < MaxTimeouts
    /\ timeouts' = timeouts + 1
    /\ Returns("TIMEOUT")
    /\ UNCHANGED <<call, seg, off, output, tagOut, fresh>>

\* Where the result is read from, after its status has been judged.
ReadResult ==
    IF call.msglen > 0 THEN pc' = "dout" /\ UNCHANGED ret
    ELSE IF call.dec THEN Returns("OK")
    ELSE pc' = "tag" /\ UNCHANGED ret

\* Mutant: the error code is not looked at.
M_ErrorRead ==
    /\ pc = "error" /\ Acked
    /\ ReadResult
    /\ UNCHANGED <<call, seg, off, output, tagOut, fresh, timeouts>>

ErrorRead ==
    /\ pc = "error" /\ Acked
    /\ CASE errcodeR = "TAG_INVALID"            -> Returns("TAG_INVALID")
         [] errcodeR = "NONE" /\ call.dec  -> pc' = "tagv" /\ UNCHANGED ret
         [] OTHER                               -> ReadResult
    /\ UNCHANGED <<call, seg, off, output, tagOut, fresh, timeouts>>

TagJudged ==
    /\ pc = "tagv" /\ Acked
    /\ IF tagvR THEN ReadResult ELSE Returns("TAG_INVALID")
    /\ UNCHANGED <<call, seg, off, output, tagOut, fresh, timeouts>>

WordRead ==
    /\ pc = "dout" /\ Acked
    /\ LET n == IF call.msglen - off >= BeatBytes THEN BeatBytes ELSE call.msglen - off
       IN  output' = output \o SubSeq(OutWord, 1, n) /\ off' = off + n
    /\ pc' = "doutctl"
    /\ UNCHANGED <<call, seg, tagOut, ret, fresh, timeouts>>

FramingRead ==
    /\ pc = "doutctl" /\ Acked
    /\ IF off < call.msglen THEN pc' = "dout" /\ UNCHANGED ret
       ELSE IF call.dec THEN Returns("OK")
       ELSE pc' = "tag" /\ UNCHANGED ret
    /\ UNCHANGED <<call, seg, off, output, tagOut, fresh, timeouts>>

TagRead ==
    /\ pc = "tag" /\ Acked
    /\ tagOut' = tagR
    /\ Returns("OK")
    /\ UNCHANGED <<call, seg, off, output, fresh, timeouts>>

\* An edge between two accesses.
Tick ==
    /\ bus = "idle"
    /\ HwEdge /\ UNCHANGED <<bus, req, driverVars>>

-----------------------------------------------------------------------------
Init ==
    /\ EngineInit
    /\ preg = [id |-> CHOOSE i \in Ids : TRUE, dec |-> FALSE, tagok |-> FALSE,
               adlen |-> 0, msglen |-> 0]
    /\ decryptR = FALSE /\ startPulse = FALSE
    /\ busyR = FALSE /\ doneR = FALSE /\ tagR = None /\ tagvR = FALSE /\ errR = FALSE
    /\ errcodeR = "NONE"
    /\ datainR = [i \in 1..BeatBytes |-> Zero]
    /\ outbuf = [i \in 0..MsgMax-1 |-> Cleared] /\ outw = 0 /\ outr = 0
    /\ access = FALSE /\ bus = "idle" /\ req = NoAccess
    /\ pc = "returned" /\ call = None /\ seg = "ad" /\ off = 0
    /\ output = <<>> /\ tagOut = None /\ ret = "TIMEOUT"
    /\ fresh = FALSE /\ timeouts = 0

Driver ==
    \/ Issue \/ Strobe \/ Stall
    \/ ClearDone \/ ParamsWritten \/ Started \/ DataWritten \/ BeatSent
    \/ Polled \/ ErrorRead \/ TagJudged \/ WordRead \/ FramingRead \/ TagRead

Next == (\E c \in Calls : Call(c)) \/ Driver \/ PolledTooOften \/ Tick

\* The CPU goes on, and the core ends what it accepted (CoreContract).
CoreFinishes == Next /\ cbusy /\ ~cbusy'

Fairness == WF_vars(Driver) /\ WF_vars(CoreFinishes)

Spec == Init /\ [][Next]_vars /\ Fairness

-----------------------------------------------------------------------------
(* Properties.                                                             *)

OutBytes == (CoreInputs \X (0..255)) \cup {Cleared}

\* Type invariant.
TypeOK ==
    /\ EngineTypeOK
    /\ preg \in JobType
    /\ decryptR \in BOOLEAN /\ startPulse \in BOOLEAN
    /\ busyR \in BOOLEAN /\ doneR \in BOOLEAN /\ tagvR \in BOOLEAN /\ errR \in BOOLEAN
    /\ errcodeR \in {"NONE", "TAG_INVALID"}
    /\ tagR \in CoreInputs \cup {None}
    /\ datainR \in [1..BeatBytes -> Bytes \cup {Zero}]
    /\ outbuf \in [0..MsgMax-1 -> OutBytes]
    /\ outw \in 0..255 /\ outr \in 0..255
    /\ access \in BOOLEAN /\ bus \in {"idle", "strobe", "pending"}
    /\ pc \in {"returned", "clear", "params", "start", "din", "dinctl", "poll", "error",
               "tagv", "dout", "doutctl", "tag"}
    /\ call \in Calls \cup {None} /\ (pc # "returned" => call # None)
    /\ seg \in {"ad", "msg"} /\ off \in 0..255
    /\ output \in Seq(OutBytes) /\ tagOut \in CoreInputs \cup {None}
    /\ ret \in Statuses /\ fresh \in BOOLEAN /\ timeouts \in 0..MaxTimeouts

Answered == pc = "returned" /\ call # None

\* What the caller should get for job j.
ResultBytes(j) == [k \in 1..j.msglen |-> OutByte(Ideal(j), k - 1)]

\* The call's answer is the whole result and the tag of its job and no other,
\* and TAG_INVALID, without a byte of it, exactly for a tag that is not genuine.
AnswerIsOwn ==
    IF call.dec /\ ~call.tagok
    THEN ret = "TAG_INVALID" /\ output = <<>>
    ELSE /\ ret = "OK"
         /\ output = ResultBytes(call)
         /\ ~call.dec => tagOut = Ideal(call)

\* A call that returns without a timeout answers its own request.
OwnResult == (Answered /\ ret # "TIMEOUT") => AnswerIsOwn

\* With calls that time out and leave the engine where it is, a later call that
\* does not time out still answers its own request provided that its START
\* found the engine at rest.
OwnResultIfFresh == (Answered /\ ret # "TIMEOUT" /\ fresh) => AnswerIsOwn

\* START-first means that the engine is ready for every beat when it comes, so
\* that no DATA_IN_CTRL write ever stalls the bus.
BeatsNeverStall == Writes("DATA_IN_CTRL") => SReady

\* The adapter acknowledges only in a cycle in which the XBUS looks, and then
\* the bus is done with the access: every access takes effect once.
AckIsSampled == Ack => bus = "pending"

\* DONE, as the driver sees it, means that the whole result is in the buffer
\* and the positions are where the driver's reads expect them.
DoneMeansCollected ==
    (doneR /\ pc \in {"error", "tagv"}) =>
        /\ outw = call.msglen /\ outr = 0
        /\ \A i \in 0 .. (call.msglen - 1) : outbuf[i] = OutByte(Ideal(call), i)

\* Every call returns.
EveryCallReturns == (pc = "clear") ~> (pc = "returned")
=============================================================================
