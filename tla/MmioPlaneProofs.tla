--------------------------- MODULE MmioPlaneProofs ---------------------------
(***************************************************************************)
(* Proofs about MmioPlane, for every beat size, buffer size and set of     *)
(* calls.  Whatever times out: the types, the bus handshake, and that a    *)
(* call whose START found the engine at rest gets its own answer.  As long *)
(* as no call gave up: every START does, no beat stalls the bus, and every *)
(* call gets its own answer.                                               *)
(***************************************************************************)
EXTENDS MmioPlane, AxisEngineProofs

-----------------------------------------------------------------------------
(* The bus.                                                                *)

PCs == {"returned", "clear", "params", "start", "din", "dinctl", "poll", "error",
        "tagv", "dout", "doutctl", "tag"}

\* The adapter holds an access exactly in the cycles in which the bus looks for
\* its acknowledge, and the access is the one the driver is at.
BusInv ==
    /\ bus \in {"idle", "strobe", "pending"}
    /\ access = (bus = "pending")
    /\ pc \in PCs
    /\ bus # "idle" => pc # "returned" /\ req = AccessOf

LEMMA InitBus == Init => BusInv
BY DEF Init, BusInv, PCs

\* What the steps have in common: one edge of the hardware, and one of five
\* things on the bus.
LEMMA Steps ==
    ASSUME Next
    PROVE  /\ HwEdge
           /\ \/ /\ pc = "returned" /\ pc' = "clear" /\ bus = "idle" /\ bus' = "idle" /\ req' = req
              \/ bus = "idle" /\ bus' = "strobe" /\ pc # "returned" /\ req' = AccessOf
                 /\ UNCHANGED driverVars
              \/ bus = "strobe" /\ bus' = "pending" /\ req' = req /\ UNCHANGED driverVars
              \/ bus = "pending" /\ ~Ack /\ bus' = bus /\ req' = req /\ UNCHANGED driverVars
              \/ bus = "pending" /\ Ack /\ bus' = "idle"
              \/ bus = "idle" /\ bus' = bus /\ req' = req /\ UNCHANGED driverVars
<1>1. ASSUME NEW c \in Calls, Call(c) PROVE HwEdge /\ pc = "returned" /\ pc' = "clear"
                                            /\ bus = "idle" /\ bus' = "idle" /\ req' = req
  BY <1>1 DEF Call
<1>2. CASE Issue \/ Strobe \/ Stall \/ Tick
  BY <1>2 DEF Issue, Strobe, Stall, Tick
<1>3. CASE PolledTooOften \/ ClearDone \/ ParamsWritten \/ Started \/ DataWritten \/ BeatSent
           \/ Polled \/ ErrorRead \/ TagJudged \/ WordRead \/ FramingRead \/ TagRead
  BY <1>3 DEF PolledTooOften, ClearDone, ParamsWritten, Started, DataWritten, BeatSent,
              Polled, ErrorRead, TagJudged, WordRead, FramingRead, TagRead, Acked
<1> QED  BY <1>1, <1>2, <1>3 DEF Next, Driver

LEMMA NextPC ==
    ASSUME BusInv, Next
    PROVE  pc' \in PCs
<1>1. CASE Issue \/ Strobe \/ Stall \/ Tick
  BY <1>1 DEF Issue, Strobe, Stall, Tick, driverVars, BusInv
<1>2. ASSUME NEW c \in Calls, Call(c) PROVE pc' \in PCs
  BY <1>2 DEF Call, PCs
<1>3. CASE BeatSent
  BY <1>3 DEF BeatSent, FirstOfSegment, PCs
<1>4. CASE PolledTooOften \/ ClearDone \/ ParamsWritten \/ Started \/ DataWritten
           \/ Polled \/ ErrorRead \/ TagJudged \/ WordRead \/ FramingRead \/ TagRead
  BY <1>4 DEF PolledTooOften, ClearDone, ParamsWritten, Started, DataWritten, FirstOfSegment,
              Polled, ErrorRead, TagJudged, WordRead, FramingRead, TagRead, Returns,
              ReadResult, PCs, BusInv
<1> QED  BY <1>1, <1>2, <1>3, <1>4 DEF Next, Driver

\* While the driver waits for the bus, what it asked for does not change.
LEMMA SameAccess == UNCHANGED driverVars => AccessOf' = AccessOf
BY DEF driverVars, AccessOf, InKeep, SegLen, InByte

LEMMA NextBus == BusInv /\ [Next]_vars => BusInv'
<1> SUFFICES ASSUME BusInv, [Next]_vars PROVE BusInv'  OBVIOUS
<1>1. CASE UNCHANGED vars
  <2>1. AccessOf' = AccessOf
    BY <1>1, SameAccess DEF vars, driverVars
  <2> QED  BY <1>1, <2>1 DEF vars, hwVars, driverVars, BusInv
<1>2. CASE Next
  <2>1. pc' \in PCs
    BY <1>2, NextPC
  <2>2. access' = IF access THEN ~Ready ELSE bus = "strobe"
    BY <1>2, Steps DEF HwEdge, AdapterEdge
  <2>3. bus' \in {"idle", "strobe", "pending"} /\ access' = (bus' = "pending")
    BY <1>2, <2>2, Steps DEF BusInv, Ack
  <2>4. bus' # "idle" => pc' = pc /\ pc # "returned" /\ req' = AccessOf /\ UNCHANGED driverVars
    BY <1>2, Steps DEF BusInv, driverVars
  <2>5. bus' # "idle" => pc' # "returned" /\ req' = AccessOf'
    BY <2>4, SameAccess
  <2> QED  BY <2>1, <2>3, <2>5 DEF BusInv
<1> QED  BY <1>1, <1>2

\* The adapter acknowledges only in a cycle in which the XBUS looks, for any
\* number of stalls and timeouts: no access takes effect twice
\* (rtl/soc/ascon_aead128_wb.v).
THEOREM AcksAreSampled == Spec => []AckIsSampled
<1>1. Init => BusInv
  BY InitBus
<1>2. BusInv /\ [Next]_vars => BusInv'
  BY NextBus
<1>3. BusInv => AckIsSampled
  BY DEF BusInv, AckIsSampled, Ack
<1> QED  BY <1>1, <1>2, <1>3, PTL DEF Spec

-----------------------------------------------------------------------------
(* What is on the bus, by the driver's position.                           *)

LEMMA AccessIs ==
    ASSUME BusInv, access
    PROVE  /\ bus = "pending" /\ pc \in PCs \ {"returned"}
           /\ pc = "clear" => req = Write32("CONTROL", [start |-> FALSE, dec |-> FALSE])
           /\ pc = "params" => req = Write32("PARAMS", call)
           /\ pc = "start" => req = Write32("CONTROL", [start |-> TRUE, dec |-> call.dec])
           /\ pc = "din" => req = Write32("DATA_IN",
                    [i \in 1..BeatBytes |-> IF i <= InKeep THEN InByte(off + (i - 1)) ELSE Zero])
           /\ pc = "dinctl" => req = Write32("DATA_IN_CTRL",
                    Ctrl(InKeep, IF seg = "ad" THEN 0 ELSE 1, off + InKeep = SegLen))
           /\ pc \in {"poll", "tagv", "error", "doutctl", "tag", "dout"} => ~req.we
           /\ pc = "dout" => req = Read("DATA_OUT")
           /\ pc \in {"poll", "tagv", "error", "doutctl", "tag"} => req.reg # "DATA_OUT"
<1>1. bus = "pending" /\ pc \in PCs \ {"returned"} /\ req = AccessOf
  BY DEF BusInv
<1>2. pc \in {"clear", "params", "start", "din", "dinctl"} => req = AccessOf
  BY <1>1
<1>3. CASE pc = "clear"
  BY <1>1, <1>3 DEF AccessOf
<1>4. CASE pc = "params"
  BY <1>1, <1>4 DEF AccessOf
<1>5. CASE pc = "start"
  BY <1>1, <1>5 DEF AccessOf
<1>6. CASE pc = "din"
  BY <1>1, <1>6 DEF AccessOf
<1>7. CASE pc = "dinctl"
  BY <1>1, <1>7 DEF AccessOf
<1>8. CASE pc \in {"poll", "tagv", "error", "doutctl", "tag", "dout"}
  BY <1>1, <1>8 DEF AccessOf, Read
<1> QED  BY <1>1, <1>3, <1>4, <1>5, <1>6, <1>7, <1>8 DEF PCs

\* Each register is touched from one position only.
LEMMA Touches ==
    ASSUME BusInv
    PROVE  /\ Writes("CONTROL") => pc \in {"clear", "start"}
           /\ Writes("PARAMS") => pc = "params"
           /\ Writes("DATA_IN") => pc = "din"
           /\ Writes("DATA_IN_CTRL") => pc = "dinctl"
           /\ Reads("DATA_OUT") => pc = "dout"
<1> SUFFICES ASSUME access
             PROVE  /\ Writes("CONTROL") => pc \in {"clear", "start"}
                    /\ Writes("PARAMS") => pc = "params"
                    /\ Writes("DATA_IN") => pc = "din"
                    /\ Writes("DATA_IN_CTRL") => pc = "dinctl"
                    /\ Reads("DATA_OUT") => pc = "dout"
  BY DEF Writes, Reads
<1>1. CASE pc \in {"clear", "params", "start", "din", "dinctl"}
  BY <1>1, AccessIs DEF Writes, Reads, Write32
<1>2. CASE pc \in {"poll", "tagv", "error", "doutctl", "tag", "dout"}
  BY <1>2, AccessIs DEF Writes, Reads, Read
<1> QED  BY <1>1, <1>2, AccessIs DEF PCs

\* A control write is START exactly when the driver is there.
LEMMA ControlIsDriver ==
    ASSUME BusInv, Writes("CONTROL")
    PROVE  /\ bus = "pending" /\ Ack /\ pc \in {"clear", "start"}
           /\ req.data.start => pc = "start" /\ req.data.dec = call.dec
           /\ pc = "start" => req.data.start
<1>1. access /\ req.reg # "DATA_IN_CTRL"
  BY DEF Writes
<1>2. bus = "pending" /\ pc \in {"clear", "start"}
  BY <1>1, AccessIs, Touches
<1>3. Ack
  BY <1>1 DEF Ack, Ready, Writes
<1>4. CASE pc = "clear"
  <2>1. req.data.start = FALSE
    BY <1>1, <1>4, AccessIs DEF Write32
  <2> QED  BY <1>2, <1>3, <1>4, <2>1
<1>5. CASE pc = "start"
  <2>1. req.data.start = TRUE /\ req.data.dec = call.dec
    BY <1>1, <1>5, AccessIs DEF Write32
  <2> QED  BY <1>2, <1>3, <1>5, <2>1
<1> QED  BY <1>2, <1>4, <1>5

\* A beat is the one the driver counts with.
LEMMA BeatIsDriver ==
    ASSUME BusInv, Writes("DATA_IN_CTRL")
    PROVE  /\ bus = "pending" /\ pc = "dinctl"
           /\ InBeat = Beat(SubSeq(datainR, 1, InKeep), IF seg = "ad" THEN 0 ELSE 1,
                            off + InKeep = SegLen)
<1>1. access
  BY DEF Writes
<1>2. bus = "pending" /\ pc = "dinctl"
  BY <1>1, AccessIs, Touches
<1>3. req.data = Ctrl(InKeep, IF seg = "ad" THEN 0 ELSE 1, off + InKeep = SegLen)
  BY <1>1, <1>2, AccessIs DEF Write32
<1>4. /\ req.data.keep = InKeep /\ req.data.user = (IF seg = "ad" THEN 0 ELSE 1)
      /\ req.data.last = (off + InKeep = SegLen)
  BY <1>3 DEF Ctrl
<1> QED  BY <1>2, <1>4 DEF InBeat

LEMMA NoBeatNoEnd == ~Writes("DATA_IN_CTRL") => InBeat = NoBeat
BY DEF InBeat

-----------------------------------------------------------------------------
(* What the driver counts with, whatever the engine does.                  *)

Early   == {"clear", "params", "start"}
Sending == {"din", "dinctl"}
Judged  == {"error", "tagv", "dout", "doutctl", "tag"}

Positions ==
    /\ call \in Calls \cup {None} /\ (pc # "returned" => call \in Calls)
    /\ off \in 0..255 /\ seg \in {"ad", "msg"}
    /\ pc \in Early => off = 0 /\ seg = "ad"
    /\ pc \in Sending => off <= SegLen
    /\ pc \in {"poll", "error", "tagv"} => off = 0
    /\ pc = "dout" => off < call.msglen
    /\ pc = "doutctl" => off <= call.msglen
    /\ pc = "tag" => off = call.msglen /\ ~call.dec
    /\ pc \in Early \cup Sending \cup {"poll", "error", "tagv"} => output = <<>>
    /\ pc # "returned" => ret = "OK"

LEMMA InitPositions == Init => Positions
BY DEF Init, Positions, Early, Sending

LEMMA CallTypes ==
    ASSUME Positions, pc # "returned"
    PROVE  /\ call \in Calls /\ call \in Jobs
           /\ call.adlen \in 0..255 /\ call.msglen \in 0..255 /\ call.dec \in BOOLEAN
           /\ call.adlen + BeatBytes < 256 /\ call.msglen + BeatBytes < 256
           /\ SegLen \in 0..255
<1>1. call \in Calls /\ call \in Jobs
  BY MmioAssumption DEF Positions
<1>2. /\ call.adlen \in 0..255 /\ call.msglen \in 0..255 /\ call.dec \in BOOLEAN
      /\ call.adlen + BeatBytes < 256 /\ call.msglen + BeatBytes < 256
  BY <1>1, JobFacts, Sizes
<1> QED  BY <1>1, <1>2 DEF SegLen

\* The driver never sends, and never reads, past the end of a segment.
LEMMA KeepTypes ==
    ASSUME Positions, pc \in Sending
    PROVE  /\ off \in Nat /\ SegLen \in 0..255 /\ off <= SegLen
           /\ InKeep \in 0..BeatBytes /\ off + InKeep <= SegLen
           /\ off + InKeep < SegLen => InKeep = BeatBytes
<1>1. off \in Nat /\ SegLen \in 0..255 /\ off <= SegLen
  BY CallTypes DEF Positions, Sending
<1>2. \A r \in Nat : /\ (IF r >= BeatBytes THEN BeatBytes ELSE r) \in 0..BeatBytes
                     /\ (IF r >= BeatBytes THEN BeatBytes ELSE r) <= r
                     /\ (IF r >= BeatBytes THEN BeatBytes ELSE r) < r =>
                           (IF r >= BeatBytes THEN BeatBytes ELSE r) = BeatBytes
  BY Sizes
<1>3. SegLen - off \in Nat
  BY <1>1
<1>4. /\ InKeep \in 0..BeatBytes /\ InKeep <= SegLen - off
      /\ InKeep < SegLen - off => InKeep = BeatBytes
  BY <1>2, <1>3 DEF InKeep
<1>5. InKeep \in Nat
  BY <1>4, Sizes
<1> QED  BY <1>1, <1>4, <1>5

LEMMA OutTypes ==
    ASSUME Positions, pc = "dout", NEW n,
           n = IF call.msglen - off >= BeatBytes THEN BeatBytes ELSE call.msglen - off
    PROVE  /\ off \in Nat /\ call.msglen \in 0..255 /\ n \in 1..BeatBytes
           /\ off + n <= call.msglen
           /\ off + n < call.msglen => n = BeatBytes
<1>1. off \in Nat /\ call.msglen \in 0..255 /\ off < call.msglen
  BY CallTypes DEF Positions
<1> QED  BY <1>1, Sizes

LEMMA SamePositions == Positions /\ UNCHANGED driverVars => Positions'
BY DEF Positions, driverVars, SegLen, Early, Sending

LEMMA NextPositions ==
    ASSUME Positions, Next
    PROVE  Positions'
<1> USE DEF Early, Sending
<1>1. ASSUME NEW c \in Calls, Call(c) PROVE Positions'
  BY <1>1 DEF Call, Positions
<1>2. CASE Issue \/ Strobe \/ Stall \/ Tick
  BY <1>2, SamePositions DEF Issue, Strobe, Stall, Tick
<1>3. CASE ClearDone \/ ParamsWritten \/ Polled
  BY <1>3 DEF ClearDone, ParamsWritten, Polled, Positions
<1>4. CASE Started
  <2>1. /\ pc = "start" /\ pc' = "din"
        /\ UNCHANGED <<call, seg, off, output, tagOut, ret, timeouts>>
    BY <1>4 DEF Started, FirstOfSegment
  <2>2. SegLen' = SegLen /\ SegLen \in 0..255
    BY <2>1, CallTypes DEF SegLen
  <2> QED  BY <2>1, <2>2 DEF Positions
<1>5. CASE DataWritten
  <2>1. SegLen' = SegLen
    BY <1>5 DEF DataWritten, SegLen
  <2> QED  BY <1>5, <2>1 DEF DataWritten, Positions
<1>6. CASE BeatSent
  <2>1. pc = "dinctl" /\ UNCHANGED <<call, output, tagOut, ret, fresh, timeouts>>
    BY <1>6 DEF BeatSent
  <2>2. /\ off \in Nat /\ SegLen \in 0..255 /\ InKeep \in 0..BeatBytes
        /\ call.msglen \in 0..255 /\ call \in Calls
    BY <2>1, KeepTypes, CallTypes
  <2>3. \/ off + InKeep < SegLen /\ off' = off + InKeep /\ pc' = "din" /\ seg' = seg
        \/ off' = 0 /\ seg' = "msg" /\ pc' = "din"
        \/ off' = 0 /\ pc' = "poll" /\ seg' = seg
    BY <1>6 DEF BeatSent, FirstOfSegment
  <2>4. CASE off + InKeep < SegLen /\ off' = off + InKeep /\ pc' = "din" /\ seg' = seg
    <3>1. SegLen' = SegLen
      BY <2>1, <2>4 DEF SegLen
    <3>2. off' \in 0..255 /\ off' <= SegLen
      BY <2>2, <2>4, Sizes
    <3> QED  BY <2>1, <2>4, <3>1, <3>2 DEF Positions
  <2>5. CASE off' = 0 /\ seg' = "msg" /\ pc' = "din"
    <3>1. SegLen' = call.msglen
      BY <2>1, <2>5 DEF SegLen
    <3>2. call' \in Calls /\ output' = <<>> /\ ret' = "OK"
      BY <2>1, <2>2 DEF Positions
    <3>3. off' <= SegLen'
      BY <2>2, <2>5, <3>1
    <3> QED  BY <2>5, <3>2, <3>3 DEF Positions
  <2>6. CASE off' = 0 /\ pc' = "poll" /\ seg' = seg
    BY <2>1, <2>6 DEF Positions
  <2> QED  BY <2>3, <2>4, <2>5, <2>6
<1>7. CASE PolledTooOften \/ TagRead
  BY <1>7 DEF PolledTooOften, TagRead, Returns, Positions
<1>8. CASE ErrorRead \/ TagJudged
  <2>1. /\ pc \in {"error", "tagv"} /\ UNCHANGED <<call, seg, off, output>>
        /\ \/ pc' = "returned"
           \/ pc' = "tagv" /\ ret' = ret
           \/ call.msglen > 0 /\ pc' = "dout" /\ ret' = ret
           \/ ~(call.msglen > 0) /\ ~call.dec /\ pc' = "tag" /\ ret' = ret
    BY <1>8 DEF ErrorRead, TagJudged, ReadResult, Returns
  <2>2. /\ call.msglen \in 0..255 /\ off = 0 /\ seg \in {"ad", "msg"} /\ call \in Calls
        /\ output = <<>> /\ ret = "OK"
    BY <2>1, CallTypes DEF Positions
  <2>3. CASE pc' = "returned"
    BY <2>1, <2>2, <2>3 DEF Positions
  <2>4. CASE pc' = "tagv" /\ ret' = ret
    BY <2>1, <2>2, <2>4 DEF Positions
  <2>5. CASE call.msglen > 0 /\ pc' = "dout" /\ ret' = ret
    BY <2>1, <2>2, <2>5 DEF Positions
  <2>6. CASE ~(call.msglen > 0) /\ ~call.dec /\ pc' = "tag" /\ ret' = ret
    <3>1. call.msglen \in 0..255 /\ off = 0
      BY <2>2
    <3>2. off = call.msglen
      BY <2>6, <3>1
    <3> QED  BY <2>1, <2>2, <2>6, <3>2 DEF Positions
  <2> QED  BY <2>1, <2>3, <2>4, <2>5, <2>6
<1>9. CASE WordRead
  <2> DEFINE n == IF call.msglen - off >= BeatBytes THEN BeatBytes ELSE call.msglen - off
  <2>1. /\ pc = "dout" /\ pc' = "doutctl" /\ off' = off + n
        /\ UNCHANGED <<call, seg, tagOut, ret, fresh, timeouts>>
    BY <1>9 DEF WordRead
  <2>2. off \in Nat /\ call.msglen \in 0..255 /\ n \in 1..BeatBytes /\ off + n <= call.msglen
    BY <2>1, OutTypes
  <2> HIDE DEF n
  <2>3. off' \in 0..255 /\ off' <= call.msglen
    BY <2>1, <2>2, Sizes
  <2> QED  BY <2>1, <2>3 DEF Positions
<1>10. CASE FramingRead
  <2>1. /\ pc = "doutctl" /\ UNCHANGED <<call, seg, off, output>>
        /\ \/ off < call.msglen /\ pc' = "dout" /\ ret' = ret
           \/ pc' = "returned"
           \/ ~(off < call.msglen) /\ ~call.dec /\ pc' = "tag" /\ ret' = ret
    BY <1>10 DEF FramingRead, Returns
  <2>2. /\ off \in 0..255 /\ call.msglen \in 0..255 /\ off <= call.msglen
        /\ seg \in {"ad", "msg"} /\ call \in Calls /\ ret = "OK"
    BY <2>1, CallTypes DEF Positions
  <2>3. CASE pc' = "returned"
    BY <2>1, <2>2, <2>3 DEF Positions
  <2>4. CASE off < call.msglen /\ pc' = "dout" /\ ret' = ret
    BY <2>1, <2>2, <2>4 DEF Positions
  <2>5. CASE ~(off < call.msglen) /\ ~call.dec /\ pc' = "tag" /\ ret' = ret
    <3>1. off = call.msglen
      BY <2>2, <2>5
    <3> QED  BY <2>1, <2>2, <2>5, <3>1 DEF Positions
  <2> QED  BY <2>1, <2>3, <2>4, <2>5
<1> QED  BY <1>1, <1>2, <1>3, <1>4, <1>5, <1>6, <1>7, <1>8, <1>9, <1>10 DEF Next, Driver

-----------------------------------------------------------------------------
(* The registers, whatever the engine does.                                *)

\* What START latches is the call: the parameters written before it are still
\* in the registers, and the pulse is over before the bus moves on.
Latched ==
    /\ pc = "start" \/ startPulse =>
          preg = [call EXCEPT !.tagok = IF call.dec THEN call.tagok ELSE preg.tagok]
    /\ startPulse => pc = "din" /\ bus = "idle" /\ decryptR = call.dec

RegTypes ==
    /\ preg \in JobType
    /\ decryptR \in BOOLEAN /\ startPulse \in BOOLEAN
    /\ busyR \in BOOLEAN /\ doneR \in BOOLEAN /\ tagvR \in BOOLEAN /\ errR \in BOOLEAN
    /\ errcodeR \in {"NONE", "TAG_INVALID"}
    /\ tagR \in CoreInputs \cup {None}
    /\ datainR \in [1..BeatBytes -> Bytes \cup {Zero}]

OutTyped == outbuf \in [0..MsgMax-1 -> OutBytes] /\ outw \in 0..255 /\ outr \in 0..255

DriverTypes ==
    /\ output \in Seq(OutBytes) /\ tagOut \in CoreInputs \cup {None}
    /\ ret \in Statuses /\ fresh \in BOOLEAN /\ timeouts \in 0..MaxTimeouts

\* All that holds however late a call is.
PlaneInv ==
    /\ BusInv /\ Positions /\ Latched
    /\ EngineSound /\ RegTypes /\ OutTyped /\ DriverTypes

LEMMA InitPlane == Init => PlaneInv
<1> SUFFICES ASSUME Init PROVE PlaneInv
  OBVIOUS
<1>1. preg \in JobType
  <2>1. (CHOOSE i \in Ids : TRUE) \in Ids
    BY EngineAssumption
  <2>2. 0 \in 0..AdMax /\ 0 \in 0..MsgMax /\ FALSE \in BOOLEAN
    BY Sizes
  <2> QED  BY <2>1, <2>2 DEF Init, JobType
<1>2. RegTypes
  <2>1. /\ decryptR \in BOOLEAN /\ startPulse \in BOOLEAN
        /\ busyR \in BOOLEAN /\ doneR \in BOOLEAN /\ tagvR \in BOOLEAN /\ errR \in BOOLEAN
    BY DEF Init
  <2>2. datainR \in [1..BeatBytes -> Bytes \cup {Zero}]
    BY DEF Init
  <2> QED  BY <1>1, <2>1, <2>2 DEF Init, RegTypes
<1>3. OutTyped
  BY DEF Init, OutTyped, OutBytes
<1>4. DriverTypes
  <2>1. output \in Seq(OutBytes) /\ fresh \in BOOLEAN
    BY EmptySeq DEF Init
  <2>2. timeouts \in 0..MaxTimeouts
    BY MmioAssumption DEF Init
  <2> QED  BY <2>1, <2>2 DEF Init, DriverTypes, Statuses
<1>5. Latched
  BY DEF Init, Latched
<1>6. EngineSound
  BY InitSound DEF Init
<1> QED  BY <1>2, <1>3, <1>4, <1>5, <1>6, InitBus, InitPositions DEF PlaneInv

\* The job the engine accepts is the call.
LEMMA StartsCall ==
    ASSUME PlaneInv, startPulse
    PROVE  StartJob = call /\ call \in Jobs
<1>1. call \in Calls /\ call \in Jobs /\ call \in JobType
  BY CallTypes, EngineAssumption DEF PlaneInv, Latched
<1>2. /\ preg = [call EXCEPT !.tagok = IF call.dec THEN call.tagok ELSE preg.tagok]
      /\ decryptR = call.dec
  BY DEF PlaneInv, Latched
<1>3. call.tagok => call.dec
  BY <1>1, MmioAssumption
<1>4. call.dec \in BOOLEAN /\ call.tagok \in BOOLEAN
  BY <1>1, JobFacts
<1>5. preg.tagok = IF call.dec THEN call.tagok ELSE preg.tagok
  BY <1>1, <1>2 DEF JobType
<1>6. (decryptR /\ preg.tagok) = call.tagok
  BY <1>2, <1>3, <1>4, <1>5
<1>7. StartJob = [preg EXCEPT !.dec = call.dec, !.tagok = call.tagok]
  BY <1>2, <1>6 DEF StartJob
<1>8. StartJob = call
  BY <1>1, <1>2, <1>7 DEF JobType
<1> QED  BY <1>1, <1>8

\* The data register holds a word, and a beat is the first bytes of it.
LEMMA BeatTyped == ASSUME PlaneInv PROVE InBeat.bytes \in Seq(Bytes \cup {Zero})
<1>1. CASE Writes("DATA_IN_CTRL")
  <2> DEFINE S == Bytes \cup {Zero}
  <2>1. pc = "dinctl" /\ InBeat.bytes = SubSeq(datainR, 1, InKeep)
    BY <1>1, BeatIsDriver DEF PlaneInv, Beat
  <2>2. InKeep \in 0..BeatBytes
    BY <2>1, KeepTypes DEF PlaneInv, Sending
  <2>3. datainR \in [1..BeatBytes -> S]
    BY DEF PlaneInv, RegTypes
  <2> HIDE DEF S
  <2>4. datainR \in Seq(S) /\ Len(datainR) = BeatBytes
    BY <2>3, Sizes, FunctionIsSeq
  <2>5. SubSeq(datainR, 1, InKeep) \in Seq(S)
    <3>1. \A i \in 1..InKeep : i \in 1..Len(datainR)
      BY <2>2, <2>4, Sizes
    <3> QED  BY <2>2, <2>4, <3>1, Sizes, SubSeqProperties
  <2> QED  BY <2>1, <2>5 DEF S
<1>2. CASE ~Writes("DATA_IN_CTRL")
  <2>1. InBeat.bytes = <<>>
    BY <1>2 DEF InBeat, NoBeat, Beat
  <2> QED  BY <2>1, EmptySeq
<1> QED  BY <1>1, <1>2

LEMMA NextSound == ASSUME PlaneInv, HwEdge PROVE EngineSound'
<1>1. EngineEdge(startPulse, StartJob, InBeat, TRUE) /\ CoreEdge /\ EngineSound
  BY DEF HwEdge, PlaneInv
<1>2. startPulse /\ est = "IDLE" => StartJob \in Jobs
  BY StartsCall
<1> QED  BY <1>1, <1>2, BeatTyped, SoundStep

LEMMA NextRegs == ASSUME PlaneInv, HwEdge PROVE RegTypes'
<1> DEFINE start == Writes("CONTROL") /\ req.data.start
           control == Writes("CONTROL")
           reject == decryptR /\ ~validO
<1>1. /\ startPulse' = start
      /\ decryptR' = IF start THEN req.data.dec ELSE decryptR
      /\ preg' = IF Writes("PARAMS")
                 THEN [req.data EXCEPT !.tagok = IF req.data.dec THEN req.data.tagok ELSE preg.tagok]
                 ELSE preg
      /\ datainR' = IF Writes("DATA_IN") THEN req.data ELSE datainR
  BY DEF HwEdge, RegEdge
<1>2. /\ busyR'  = (start \/ (busyR /\ ~control /\ ~doneO))
      /\ doneR'  = (~control /\ (doneO \/ doneR))
      /\ tagvR'  = (~control /\ IF doneO THEN ~reject ELSE tagvR)
      /\ errR'   = (~control /\ ((doneO /\ reject) \/ errR))
      /\ errcodeR' \in {"NONE", "TAG_INVALID", errcodeR}
      /\ tagR'   = IF doneO THEN res ELSE tagR
  BY DEF HwEdge, RegEdge
<1>3. RegTypes /\ BusInv /\ Positions
  BY DEF PlaneInv
<1>4. preg' \in JobType
  <2>1. CASE Writes("PARAMS")
    <3>1. access /\ pc = "params"
      BY <1>3, <2>1, Touches DEF Writes
    <3>2. req.data = call /\ call \in JobType
      BY <1>3, <3>1, AccessIs, CallTypes, EngineAssumption DEF Write32
    <3>3. preg' = [call EXCEPT !.tagok = IF call.dec THEN call.tagok ELSE preg.tagok]
      BY <1>1, <2>1, <3>2
    <3>4. (IF call.dec THEN call.tagok ELSE preg.tagok) \in BOOLEAN
      BY <1>3, <3>2 DEF RegTypes, JobType
    <3> QED  BY <3>2, <3>3, <3>4 DEF JobType
  <2>2. CASE ~Writes("PARAMS")
    BY <1>1, <1>3, <2>2 DEF RegTypes
  <2> QED  BY <2>1, <2>2
<1>5. datainR' \in [1..BeatBytes -> Bytes \cup {Zero}]
  <2>1. CASE Writes("DATA_IN")
    <3>1. access /\ pc = "din"
      BY <1>3, <2>1, Touches DEF Writes
    <3>2. req.data = [i \in 1..BeatBytes |-> IF i <= InKeep THEN InByte(off + (i - 1)) ELSE Zero]
      BY <1>3, <3>1, AccessIs DEF Write32
    <3>3. ASSUME NEW i \in 1..BeatBytes PROVE InByte(off + (i - 1)) \in Bytes
      <4>1. off + (i - 1) \in Nat /\ call.id \in Ids
        BY <1>3, <3>1, <3>3, CallTypes, JobFacts, Sizes DEF Positions
      <4> QED  BY <4>1 DEF InByte, AdByte, MsgByte, Bytes
    <3> QED  BY <1>1, <2>1, <3>2, <3>3
  <2>2. CASE ~Writes("DATA_IN")
    BY <1>1, <1>3, <2>2 DEF RegTypes
  <2> QED  BY <2>1, <2>2
<1>6. decryptR' \in BOOLEAN
  <2>1. CASE start
    <3>1. req.data.dec = call.dec /\ pc = "start"
      BY <1>3, <2>1, ControlIsDriver
    <3>2. call.dec \in BOOLEAN
      BY <1>3, <3>1, CallTypes
    <3> QED  BY <1>1, <2>1, <3>1, <3>2
  <2>2. CASE ~start
    BY <1>1, <1>3, <2>2 DEF RegTypes
  <2> QED  BY <2>1, <2>2
<1>7. busyR' \in BOOLEAN /\ doneR' \in BOOLEAN /\ tagvR' \in BOOLEAN /\ errR' \in BOOLEAN
  BY <1>2
<1>8. startPulse' \in BOOLEAN
  <2>1. CASE Writes("CONTROL")
    <3>1. access /\ pc \in {"clear", "start"}
      BY <1>3, <2>1, ControlIsDriver DEF Writes
    <3>2. CASE pc = "clear"
      <4>1. req.data.start = FALSE
        BY <1>3, <3>1, <3>2, AccessIs DEF Write32
      <4> QED  BY <1>1, <2>1, <4>1
    <3>3. CASE pc = "start"
      <4>1. req.data.start = TRUE
        BY <1>3, <3>1, <3>3, AccessIs DEF Write32
      <4> QED  BY <1>1, <2>1, <4>1
    <3> QED  BY <3>1, <3>2, <3>3
  <2>2. CASE ~Writes("CONTROL")
    BY <1>1, <2>2
  <2> QED  BY <2>1, <2>2
<1>9. tagR' \in CoreInputs \cup {None} /\ errcodeR' \in {"NONE", "TAG_INVALID"}
  BY <1>2, <1>3 DEF RegTypes, PlaneInv, EngineSound, EngineTyped, EngineTypeOK
<1> QED  BY <1>4, <1>5, <1>6, <1>7, <1>8, <1>9 DEF RegTypes

\* A beat of the result, or none, is collected where outw says.
LEMMA Collecting ==
    ASSUME HwEdge
    PROVE  /\ ~MValid => outbuf' = outbuf
           /\ MValid => outbuf' = [i \in DOMAIN outbuf |->
                                     IF i \in outw .. (outw + MKeep - 1)
                                     THEN OutByte(res, txpos + (i - outw)) ELSE outbuf[i]]
           /\ Writes("CONTROL") => outw' = 0 /\ outr' = 0
           /\ ~Writes("CONTROL") => outw' = IF MValid THEN Wrap8(outw + MKeep) ELSE outw
           /\ ~Writes("CONTROL") => outr' = IF Reads("DATA_OUT") THEN Wrap8(outr + BeatBytes)
                                                                 ELSE outr
<1>1. OutCollects(Writes("CONTROL")) /\ OutMoves(Writes("CONTROL"))
  BY DEF HwEdge
<1>2. CASE Writes("CONTROL")
  BY <1>1, <1>2 DEF OutCollects, OutMoves
<1>3. CASE ~Writes("CONTROL")
  BY <1>1, <1>3 DEF OutCollects, OutMoves
<1> QED  BY <1>2, <1>3

LEMMA OutByteTyped ==
    ASSUME NEW r \in CoreInputs, NEW k \in 0..255
    PROVE  OutByte(r, k) \in OutBytes
BY DEF OutByte, OutBytes

LEMMA NextOut == ASSUME PlaneInv, HwEdge PROVE OutTyped'
<1>1. OutTyped /\ EngineTyped /\ EngineTypeOK
  BY DEF PlaneInv, EngineSound, EngineTyped
<1>2. MValid => /\ res \in CoreInputs /\ txpos \in Nat /\ MKeep \in Nat
                /\ txpos + MKeep <= 255 /\ MKeep \in 1..BeatBytes
  <2> SUFFICES ASSUME MValid
               PROVE  /\ res \in CoreInputs /\ txpos \in Nat /\ MKeep \in Nat
                      /\ txpos + MKeep <= 255 /\ MKeep \in 1..BeatBytes
    OBVIOUS
  <2>1. /\ job.msglen \in 0..MsgMax /\ res \in CoreInputs
        /\ txpos \in Nat /\ txpos < job.msglen /\ MKeep \in 1..BeatBytes
    BY <1>1, Transmitting DEF MValid
  <2>2. txpos + MKeep <= 255
    BY <2>1, Sizes
  <2> QED  BY <2>1, <2>2, Sizes
<1>3. outw' \in 0..255 /\ outr' \in 0..255
  <2>1. CASE Writes("CONTROL")
    BY <2>1, Collecting
  <2>2. CASE ~Writes("CONTROL")
    <3>1. outr + BeatBytes \in Nat /\ (MValid => outw + MKeep \in Nat)
      BY <1>1, <1>2, Sizes DEF OutTyped
    <3>2. Wrap8(outr + BeatBytes) \in 0..255 /\ (MValid => Wrap8(outw + MKeep) \in 0..255)
      BY <3>1, WrapTyped
    <3>3. /\ outw' = IF MValid THEN Wrap8(outw + MKeep) ELSE outw
          /\ outr' = IF Reads("DATA_OUT") THEN Wrap8(outr + BeatBytes) ELSE outr
      BY <2>2, Collecting
    <3>4. outw \in 0..255 /\ outr \in 0..255
      BY <1>1 DEF OutTyped
    <3> QED  BY <3>2, <3>3, <3>4
  <2> QED  BY <2>1, <2>2
<1>4. outbuf' \in [0..MsgMax-1 -> OutBytes]
  <2>1. CASE ~MValid
    BY <1>1, <2>1, Collecting DEF OutTyped
  <2>2. CASE MValid
    <3>1. ASSUME NEW i \in 0..MsgMax-1, i \in outw .. (outw + MKeep - 1)
          PROVE  OutByte(res, txpos + (i - outw)) \in OutBytes
      <4>1. txpos + (i - outw) \in 0..255
        <5>1. i \in Int /\ outw \in Nat /\ outw <= i /\ i < outw + MKeep
          BY <1>1, <1>2, <2>2, <3>1, Sizes DEF OutTyped
        <5>2. txpos \in Nat /\ MKeep \in Nat /\ txpos + MKeep <= 255
          BY <1>2, <2>2
        <5> QED  BY <5>1, <5>2
      <4>2. res \in CoreInputs
        BY <1>2, <2>2
      <4> QED  BY <4>1, <4>2, OutByteTyped
    <3>2. outbuf' = [i \in 0..MsgMax-1 |->
                       IF i \in outw .. (outw + MKeep - 1)
                       THEN OutByte(res, txpos + (i - outw)) ELSE outbuf[i]]
      BY <1>1, <2>2, Collecting DEF OutTyped
    <3>3. \A i \in 0..MsgMax-1 : outbuf[i] \in OutBytes
      BY <1>1 DEF OutTyped
    <3> QED  BY <3>1, <3>2, <3>3
  <2> QED  BY <2>1, <2>2
<1> QED  BY <1>3, <1>4 DEF OutTyped

-----------------------------------------------------------------------------
(* Which action an edge is.                                                *)

LEMMA Acknowledged ==
    ASSUME Next, bus = "pending", Ack
    PROVE  /\ HwEdge /\ bus' = "idle"
           /\ pc = "clear" => ClearDone
           /\ pc = "params" => ParamsWritten
           /\ pc = "start" => Started
           /\ pc = "din" => DataWritten
           /\ pc = "dinctl" => BeatSent
           /\ pc = "poll" => Polled \/ PolledTooOften
           /\ pc = "error" => ErrorRead
           /\ pc = "tagv" => TagJudged
           /\ pc = "dout" => WordRead
           /\ pc = "doutctl" => FramingRead
           /\ pc = "tag" => TagRead
<1>1. ~Issue /\ ~Strobe /\ ~Stall /\ ~Tick /\ ~(\E c \in Calls : Call(c))
  BY DEF Issue, Strobe, Stall, Tick, Call
<1>2. \/ ClearDone \/ ParamsWritten \/ Started \/ DataWritten \/ BeatSent
      \/ Polled \/ PolledTooOften \/ ErrorRead \/ TagJudged \/ WordRead \/ FramingRead
      \/ TagRead
  BY <1>1 DEF Next, Driver
<1>3. /\ ClearDone => pc = "clear"
      /\ ParamsWritten => pc = "params"
      /\ Started => pc = "start"
      /\ DataWritten => pc = "din"
      /\ BeatSent => pc = "dinctl"
      /\ Polled \/ PolledTooOften => pc = "poll"
      /\ ErrorRead => pc = "error"
      /\ TagJudged => pc = "tagv"
      /\ WordRead => pc = "dout"
      /\ FramingRead => pc = "doutctl"
      /\ TagRead => pc = "tag"
  BY DEF ClearDone, ParamsWritten, Started, DataWritten, BeatSent, Polled,
         PolledTooOften, ErrorRead, TagJudged, WordRead, FramingRead, TagRead
<1>4. HwEdge /\ bus' = "idle"
  BY Steps
<1> QED  BY <1>2, <1>3, <1>4

LEMMA Unacknowledged ==
    ASSUME Next, ~(bus = "pending" /\ Ack)
    PROVE  HwEdge /\ (UNCHANGED driverVars \/ \E c \in Calls : Call(c))
<1>1. \/ Issue \/ Strobe \/ Stall \/ Tick \/ \E c \in Calls : Call(c)
  BY DEF Next, Driver, ClearDone, ParamsWritten, Started, DataWritten, BeatSent, Polled,
         PolledTooOften, ErrorRead, TagJudged, WordRead, FramingRead, TagRead, Acked
<1>2. HwEdge
  BY Steps
<1> QED  BY <1>1, <1>2 DEF Issue, Strobe, Stall, Tick

-----------------------------------------------------------------------------
(* PlaneInv is inductive.                                                  *)

LEMMA NextLatched == ASSUME PlaneInv, Next PROVE Latched'
<1> DEFINE start == Writes("CONTROL") /\ req.data.start
<1>1. BusInv /\ Positions /\ Latched /\ HwEdge
  BY Steps DEF PlaneInv
<1>2. /\ startPulse' = start
      /\ decryptR' = IF start THEN req.data.dec ELSE decryptR
      /\ preg' = IF Writes("PARAMS")
                 THEN [req.data EXCEPT !.tagok = IF req.data.dec THEN req.data.tagok ELSE preg.tagok]
                 ELSE preg
  BY <1>1 DEF HwEdge, RegEdge
<1>3. CASE start
  <2>1. bus = "pending" /\ Ack /\ pc = "start" /\ req.data.dec = call.dec
    BY <1>1, <1>3, ControlIsDriver
  <2>2. pc' = "din" /\ bus' = "idle" /\ call' = call
    <3>1. Started /\ bus' = "idle"
      BY <2>1, Acknowledged
    <3> QED  BY <3>1 DEF Started, FirstOfSegment
  <2>3. preg' = preg /\ decryptR' = call.dec
    BY <1>1, <1>2, <1>3, <2>1, Touches
  <2> QED  BY <1>1, <2>1, <2>2, <2>3 DEF Latched
<1>4. CASE ~start
  <2>1. ~startPulse'
    BY <1>2, <1>4
  <2> SUFFICES ASSUME pc' = "start"
               PROVE  preg' = [call' EXCEPT !.tagok = IF call'.dec THEN call'.tagok ELSE preg'.tagok]
    BY <2>1 DEF Latched
  <2>2. CASE bus = "pending" /\ Ack
    <3>1. pc = "params" /\ call' = call
      <4>1. pc # "start"
        <5>1. ASSUME pc = "start" PROVE FALSE
          BY <2>2, <5>1, Acknowledged DEF Started, FirstOfSegment
        <5> QED  BY <5>1
      <4>2. pc \in PCs
        BY <1>1 DEF BusInv
      <4>3. ClearDone \/ ParamsWritten \/ DataWritten \/ BeatSent \/ Polled \/ PolledTooOften
            \/ ErrorRead \/ TagJudged \/ WordRead \/ FramingRead \/ TagRead
        BY <1>1, <2>2, <4>1, <4>2, Acknowledged DEF PCs, BusInv
      <4> QED  BY <4>3 DEF ClearDone, ParamsWritten, DataWritten, BeatSent, FirstOfSegment,
                   Polled, PolledTooOften, ErrorRead, TagJudged, WordRead, FramingRead, TagRead,
                   ReadResult, Returns
    <3>2. access
      BY <2>2 DEF Ack
    <3>3. Writes("PARAMS") /\ req.data = call
      BY <1>1, <3>1, <3>2, AccessIs DEF Write32, Writes
    <3>4. call \in JobType
      BY <1>1, <3>1, CallTypes, EngineAssumption
    <3> DEFINE t == IF call.dec THEN call.tagok ELSE preg.tagok
    <3>5. preg' = [call EXCEPT !.tagok = t]
      BY <1>2, <3>3
    <3>6. preg'.tagok = t
      BY <3>4, <3>5 DEF JobType
    <3>7. (IF call.dec THEN call.tagok ELSE preg'.tagok) = t
      BY <3>6
    <3> QED  BY <3>1, <3>5, <3>7
  <2>3. CASE ~(bus = "pending" /\ Ack)
    <3>1. pc = "start" /\ call' = call
      BY <2>3, Unacknowledged DEF driverVars, Call
    <3>2. ~Writes("PARAMS")
      BY <1>1, <3>1, Touches
    <3> QED  BY <1>1, <1>2, <3>1, <3>2 DEF Latched
  <2> QED  BY <2>2, <2>3
<1> QED  BY <1>3, <1>4

\* A word of the result, and what is read of it.
LEMMA ReadTyped ==
    ASSUME OutTyped, NEW n \in 1..BeatBytes
    PROVE  /\ SubSeq(OutWord, 1, n) \in Seq(OutBytes) /\ Len(SubSeq(OutWord, 1, n)) = n
           /\ \A k \in 1..n : SubSeq(OutWord, 1, n)[k] = OutWord[k]
<1>1. Cleared \in OutBytes
  BY DEF OutBytes
<1>2. \A i \in DOMAIN outbuf : outbuf[i] \in OutBytes
  BY DEF OutTyped
<1>3. OutWord \in [1..BeatBytes -> OutBytes]
  BY <1>1, <1>2 DEF OutWord
<1> HIDE DEF OutWord
<1>4. OutWord \in Seq(OutBytes) /\ Len(OutWord) = BeatBytes
  BY <1>3, Sizes, FunctionIsSeq
<1>5. n \in Nat /\ \A k \in 1..n : k \in 1..Len(OutWord)
  BY <1>4, Sizes
<1>6. /\ SubSeq(OutWord, 1, n) \in Seq(OutBytes)
      /\ Len(SubSeq(OutWord, 1, n)) = IF 1 <= n THEN n - 1 + 1 ELSE 0
      /\ \A k \in 1 .. n - 1 + 1 : SubSeq(OutWord, 1, n)[k] = OutWord[1 + k - 1]
  BY <1>4, <1>5, SubSeqProperties
<1> QED  BY <1>6

LEMMA NextDriverTypes == ASSUME PlaneInv, Next PROVE DriverTypes'
<1>1. DriverTypes /\ OutTyped /\ RegTypes /\ Positions /\ BusInv
  BY DEF PlaneInv
<1>2. /\ ret' \in Statuses
      /\ tagOut' \in CoreInputs \cup {None}
  BY <1>1 DEF Next, Driver, driverVars, Issue, Strobe, Stall, Tick, Call, ClearDone,
         ParamsWritten, Started, DataWritten, BeatSent, Polled, PolledTooOften, ErrorRead,
         TagJudged, WordRead, FramingRead, TagRead, ReadResult, Returns, Statuses,
         DriverTypes, RegTypes
<1>3. fresh' \in BOOLEAN
  <2>1. fresh' = fresh \/ fresh' = (est' = "IDLE" /\ ~doneO')
    BY DEF Next, Driver, driverVars, Issue, Strobe, Stall, Tick, Call, ClearDone,
           ParamsWritten, Started, DataWritten, BeatSent, Polled, PolledTooOften, ErrorRead,
           TagJudged, WordRead, FramingRead, TagRead
  <2> QED  BY <1>1, <2>1 DEF DriverTypes
<1>4. timeouts' \in 0..MaxTimeouts
  <2>1. timeouts' = timeouts \/ (timeouts < MaxTimeouts /\ timeouts' = timeouts + 1)
    BY DEF Next, Driver, driverVars, Issue, Strobe, Stall, Tick, Call, ClearDone,
           ParamsWritten, Started, DataWritten, BeatSent, Polled, PolledTooOften, ErrorRead,
           TagJudged, WordRead, FramingRead, TagRead
  <2> QED  BY <1>1, <2>1, MmioAssumption DEF DriverTypes
<1>5. output' \in Seq(OutBytes)
  <2>1. CASE WordRead
    <3> DEFINE n == IF call.msglen - off >= BeatBytes THEN BeatBytes ELSE call.msglen - off
    <3>1. output' = output \o SubSeq(OutWord, 1, n) /\ pc = "dout"
      BY <2>1 DEF WordRead
    <3>2. n \in 1..BeatBytes
      BY <1>1, <3>1, OutTypes
    <3> HIDE DEF n
    <3>3. SubSeq(OutWord, 1, n) \in Seq(OutBytes)
      BY <1>1, <3>2, ReadTyped
    <3> QED  BY <1>1, <3>1, <3>3, ConcatProperties DEF DriverTypes
  <2>2. CASE ~WordRead
    <3>1. output' = output \/ output' = <<>>
      BY <2>2 DEF Next, Driver, driverVars, Issue, Strobe, Stall, Tick, Call, ClearDone,
             ParamsWritten, Started, DataWritten, BeatSent, Polled, PolledTooOften, ErrorRead,
             TagJudged, FramingRead, TagRead
    <3> QED  BY <1>1, <3>1, EmptySeq DEF DriverTypes
  <2> QED  BY <2>1, <2>2
<1> QED  BY <1>2, <1>3, <1>4, <1>5 DEF DriverTypes

LEMMA PlaneStays == PlaneInv /\ UNCHANGED vars => PlaneInv'
<1> SUFFICES ASSUME PlaneInv, UNCHANGED vars PROVE PlaneInv'
  OBVIOUS
<1>1. /\ UNCHANGED axisVars /\ UNCHANGED driverVars /\ UNCHANGED regVars
      /\ bus' = bus /\ pc' = pc
  BY DEF vars, hwVars, driverVars
<1>2. BusInv' /\ Positions' /\ EngineSound'
  BY <1>1, NextBus, SamePositions, SoundStays DEF PlaneInv
<1>3. Latched' /\ RegTypes' /\ OutTyped' /\ DriverTypes'
  BY <1>1 DEF PlaneInv, regVars, driverVars, Latched, RegTypes, OutTyped, DriverTypes
<1> QED  BY <1>2, <1>3 DEF PlaneInv

LEMMA NextPlane == PlaneInv /\ [Next]_vars => PlaneInv'
<1>1. ASSUME PlaneInv, Next PROVE PlaneInv'
  <2>1. HwEdge /\ BusInv /\ Positions
    BY <1>1, Steps DEF PlaneInv
  <2> QED  BY <1>1, <2>1, NextBus, NextPositions, NextLatched, NextSound, NextRegs, NextOut,
              NextDriverTypes DEF PlaneInv
<1> QED  BY <1>1, PlaneStays

LEMMA PlaneTypes == PlaneInv => TypeOK
<1> SUFFICES ASSUME PlaneInv PROVE TypeOK
  OBVIOUS
<1>1. EngineTypeOK /\ bus \in {"idle", "strobe", "pending"} /\ access \in BOOLEAN
  BY DEF PlaneInv, EngineSound, EngineTyped, BusInv
<1>2. pc \in PCs /\ call \in Calls \cup {None} /\ (pc # "returned" => call # None)
      /\ seg \in {"ad", "msg"} /\ off \in 0..255
  BY MmioAssumption, EngineAssumption DEF PlaneInv, BusInv, Positions
<1> QED  BY <1>1, <1>2 DEF PlaneInv, RegTypes, OutTyped, DriverTypes, TypeOK, PCs

\* The registers of the plane keep their widths, and the driver its positions
\* and its buffer, for every job and however late a call is
\* (rtl/soc/ascon_aead128_axis_mmio.v, firmware/ascon_accel/ascon_accel.c).
THEOREM TypeCorrect == Spec => []TypeOK
BY InitPlane, NextPlane, PlaneTypes, PTL DEF Spec

-----------------------------------------------------------------------------
(* A call whose START found the engine at rest.                            *)

\* The first n bytes of the call's result have been collected.
Collected(n) == outw = n /\ \A i \in 0 .. (n - 1) : outbuf[i] = OutByte(Ideal(call), i)

\* The status registers and the buffer hold the answer.
Answer ==
    /\ doneR /\ tagR = Ideal(call) /\ tagvR = (call.dec => call.tagok)
    /\ errcodeR = IF call.dec /\ ~call.tagok THEN "TAG_INVALID" ELSE "NONE"
    /\ Collected(call.msglen)

\* Engine and driver are at the same byte of the payload.
InStep ==
    /\ est = "RX" /\ ~startPulse /\ job = call
    /\ adpos = IF seg = "ad" THEN off ELSE call.adlen
    /\ msgpos = IF seg = "ad" THEN 0 ELSE off

\* Nothing of an answer is there yet.
NoAnswer == ~doneR /\ ~errR /\ ~doneO /\ outw = 0 /\ outr = 0 /\ decryptR = call.dec

\* While the payload is sent the engine is receiving it, or about to.
SendsOwn ==
    pc \in Sending =>
       /\ NoAnswer
       /\ \/ est = "IDLE" /\ startPulse /\ off = 0 /\ seg = "ad"
          \/ InStep
       /\ pc = "dinctl" => \A i \in 1..InKeep : datainR[i] = InByte(off + (i - 1))

\* While the driver waits as much is collected as the engine has sent, and the
\* status says so only when that is everything.
AtWork ==
    /\ ~doneR /\ ~errR /\ job = call /\ est # "RX"
    /\ Collected(CASE est = "TX" -> txpos
                   [] est = "DONE" \/ doneO -> call.msglen
                   [] OTHER -> 0)

Waiting ==
    /\ ~startPulse /\ decryptR = call.dec /\ outr = 0
    /\ IF est # "IDLE" \/ doneO THEN AtWork ELSE Answer

WaitsOwn == pc = "poll" => Waiting

\* And from DONE on the driver reads that answer, word by word.
Rested == est = "IDLE" /\ ~doneO /\ ~startPulse /\ Answer

ReadsOwn ==
    pc \in Judged =>
       /\ Rested
       /\ pc \in {"error", "tagv"} => outr = 0
       /\ pc # "error" => (call.dec => call.tagok)
       /\ pc = "dout" \/ (pc = "doutctl" /\ off < call.msglen) => outr = off
       /\ output = [k \in 1..off |-> OutByte(Ideal(call), k - 1)]

OwnCall == EngineOwn /\ SendsOwn /\ WaitsOwn /\ ReadsOwn

LivePCs == Sending \cup {"poll"} \cup Judged
LiveInv == fresh /\ pc \in LivePCs => OwnCall

FreshInv == PlaneInv /\ LiveInv /\ OwnResultIfFresh

-----------------------------------------------------------------------------
(* What the hardware does at one edge of such a call.                      *)

LEMMA RegMoves ==
    ASSUME PlaneInv, HwEdge, ~Writes("CONTROL")
    PROVE  /\ startPulse' = FALSE /\ decryptR' = decryptR
           /\ doneR' = (doneO \/ doneR)
           /\ tagvR' = IF doneO THEN ~(decryptR /\ ~validO) ELSE tagvR
           /\ errR' = ((doneO /\ decryptR /\ ~validO) \/ errR)
           /\ errcodeR' = IF doneO THEN IF decryptR /\ ~validO THEN "TAG_INVALID" ELSE "NONE"
                                   ELSE errcodeR
           /\ tagR' = IF doneO THEN res ELSE tagR
<1> DEFINE start == Writes("CONTROL") /\ req.data.start
           reject == decryptR /\ ~validO
<1>1. ~start
  OBVIOUS
<1>2. /\ startPulse' = start
      /\ decryptR' = IF start THEN req.data.dec ELSE decryptR
      /\ doneR'  = (~Writes("CONTROL") /\ (doneO \/ doneR))
      /\ tagvR'  = (~Writes("CONTROL") /\ IF doneO THEN ~reject ELSE tagvR)
      /\ errR'   = (~Writes("CONTROL") /\ ((doneO /\ reject) \/ errR))
  BY Zenon DEF HwEdge, RegEdge
<1>3. errcodeR' = IF doneO THEN IF reject THEN "TAG_INVALID" ELSE "NONE" ELSE errcodeR
  BY DEF HwEdge, RegEdge
<1>4. tagR' = IF doneO THEN res ELSE tagR
  BY DEF HwEdge, RegEdge
<1> HIDE DEF start, reject
<1>5. startPulse' = FALSE /\ decryptR' = decryptR
  BY <1>1, <1>2
<1>6. doneR' = (doneO \/ doneR) /\ errR' = ((doneO /\ reject) \/ errR)
  BY <1>2
<1>7. tagvR' = IF doneO THEN ~reject ELSE tagvR
  <2>1. tagvR \in BOOLEAN
    BY DEF PlaneInv, RegTypes
  <2> QED  BY <1>2, <2>1
<1> QED  BY <1>3, <1>4, <1>5, <1>6, <1>7 DEF reject

\* The engine's own registers.
LEMMA EngineMoves ==
    ASSUME HwEdge
    PROVE  /\ est = "IDLE" => IdleEdge(startPulse, StartJob)
           /\ est = "RX" => RxEdge(InBeat)
           /\ est = "RUN" => RunEdge
           /\ est = "BUSY" => BusyEdge
           /\ est = "WAIT" => WaitEdge
           /\ est = "TX" => TxEdge(TRUE)
           /\ est = "DONE" => DoneEdge
           /\ doneO' => est = "DONE" /\ est' = "IDLE"
<1>1. EngineEdge(startPulse, StartJob, InBeat, TRUE)
  BY DEF HwEdge
<1>2. /\ est = "IDLE" => IdleEdge(startPulse, StartJob)
      /\ est = "RX" => RxEdge(InBeat)
      /\ est = "RUN" => RunEdge
      /\ est = "BUSY" => BusyEdge
      /\ est = "WAIT" => WaitEdge
      /\ est = "TX" => TxEdge(TRUE)
      /\ est = "DONE" => DoneEdge
  BY <1>1 DEF EngineEdge, IdleEdge, RxEdge, RunEdge, BusyEdge, WaitEdge, TxEdge, DoneEdge
<1>3. doneO' => est = "DONE" /\ est' = "IDLE"
  BY <1>1 DEF EngineEdge, IdleEdge, RxEdge, RunEdge, BusyEdge, WaitEdge, TxEdge, DoneEdge
<1> QED  BY <1>2, <1>3

LEMMA OwnEdge ==
    ASSUME PlaneInv, EngineOwn, HwEdge, est = "RX" => PayloadBeat(InBeat)
    PROVE  EngineOwn'
<1>1. EngineEdge(startPulse, StartJob, InBeat, TRUE) /\ CoreEdge /\ EngineInv
  BY DEF HwEdge, PlaneInv, EngineInv
<1>2. startPulse /\ est = "IDLE" => StartJob \in Jobs
  BY StartsCall
<1>3. EngineInv'
  BY <1>1, <1>2, EngineStep
<1> QED  BY <1>3 DEF EngineInv

\* An answer stays until the next control write.
LEMMA AnswerStays ==
    ASSUME PlaneInv, Rested, HwEdge, ~Writes("CONTROL"), call' = call
    PROVE  Rested' /\ EngineOwn'
<1>1. est' = "IDLE" /\ ~doneO'
  <2>1. IdleEdge(startPulse, StartJob) /\ est = "IDLE" /\ ~startPulse
    BY EngineMoves DEF Rested
  <2> QED  BY <2>1 DEF IdleEdge
<1>2. /\ startPulse' = FALSE /\ tagvR' = tagvR /\ errcodeR' = errcodeR /\ tagR' = tagR
      /\ doneR'
  BY RegMoves DEF Rested, Answer
<1>3. outbuf' = outbuf /\ outw' = outw
  BY Collecting DEF Rested, MValid
<1>4. Answer'
  BY <1>2, <1>3 DEF Rested, Answer, Collected
<1>5. EngineOwn'
  BY <1>1, NoJobOwn DEF EngineOwn, Received, HasJob, Loaded, OwnAnswer, HasResult
<1> QED  BY <1>1, <1>2, <1>4, <1>5 DEF Rested

LEMMA NothingCollected ==
    ASSUME PlaneInv, HwEdge, ~Writes("CONTROL"), ~Reads("DATA_OUT"), NoAnswer, ~MValid,
           call' = call, ~doneO'
    PROVE  NoAnswer'
<1>1. outw' = outw /\ outr' = outr
  BY Collecting
<1>2. ~doneR' /\ ~errR' /\ decryptR' = decryptR
  BY RegMoves DEF NoAnswer
<1> QED  BY <1>1, <1>2 DEF NoAnswer

\* While nothing is offered the engine waits for the payload where it is, or
\* begins with it.
LEMMA SendQuiet ==
    ASSUME PlaneInv, EngineOwn, SendsOwn, pc \in Sending, HwEdge, InBeat = NoBeat,
           call' = call, seg' = seg, off' = off
    PROVE  InStep' /\ NoAnswer' /\ EngineOwn'
<1>1. BusInv /\ ~Writes("CONTROL") /\ ~Reads("DATA_OUT")
  BY Touches DEF PlaneInv, Sending
<1>2. startPulse' = FALSE
  BY <1>1, RegMoves
<1>3. EngineOwn'
  BY OwnEdge DEF PayloadBeat
<1>4. CASE est = "IDLE" /\ startPulse /\ off = 0 /\ seg = "ad"
  <2>1. IdleEdge(startPulse, StartJob) /\ StartJob = call
    BY <1>4, EngineMoves, StartsCall
  <2>2. est' = "RX" /\ job' = call /\ adpos' = 0 /\ msgpos' = 0 /\ ~doneO'
    BY <1>4, <2>1 DEF IdleEdge
  <2>3. NoAnswer'
    BY <1>1, <1>4, <2>2, NothingCollected DEF SendsOwn, MValid
  <2> QED  BY <1>2, <1>3, <1>4, <2>2, <2>3 DEF InStep
<1>5. CASE InStep
  <2>1. RxEdge(NoBeat) /\ est = "RX"
    BY <1>5, EngineMoves DEF InStep
  <2>2. adpos' = adpos /\ msgpos' = msgpos /\ est' = "RX"
    BY <2>1, RxNone
  <2>3. job' = job /\ ~doneO'
    BY <2>1 DEF RxEdge
  <2>4. NoAnswer'
    BY <1>1, <2>1, <2>3, NothingCollected DEF SendsOwn, MValid
  <2> QED  BY <1>2, <1>3, <1>5, <2>2, <2>3, <2>4 DEF InStep
<1> QED  BY <1>4, <1>5 DEF SendsOwn

\* A beat is the next bytes of the call's payload.
LEMMA BeatBytesAre ==
    ASSUME PlaneInv, SendsOwn, pc = "dinctl"
    PROVE  SubSeq(datainR, 1, InKeep) = [i \in 1..InKeep |-> InByte(off + (i - 1))]
<1> DEFINE S == Bytes \cup {Zero}
           f == [i \in 1..InKeep |-> InByte(off + (i - 1))]
<1>1. InKeep \in Nat /\ InKeep <= BeatBytes /\ off \in Nat
  BY KeepTypes, Sizes DEF PlaneInv, Sending
<1>2. datainR \in [1..BeatBytes -> S]
  BY DEF PlaneInv, RegTypes
<1>3. \A i \in 1..InKeep : datainR[i] = f[i]
  BY DEF SendsOwn, Sending
<1> HIDE DEF S
<1>4. \A i \in 1..InKeep : datainR[i] \in S
  BY <1>1, <1>2, Sizes
<1>5. f \in [1..InKeep -> S]
  BY <1>3, <1>4
<1> HIDE DEF f
<1>6. f \in Seq(S) /\ Len(f) = InKeep
  BY <1>1, <1>5, FunctionIsSeq
<1> DEFINE t == SubSeq(datainR, 1, InKeep)
<1>7. /\ t \in Seq(S) /\ Len(t) = IF 1 <= InKeep THEN InKeep - 1 + 1 ELSE 0
      /\ \A i \in 1 .. InKeep - 1 + 1 : t[i] = datainR[1 + i - 1]
  BY <1>1, <1>4, SubSeqProperties
<1> HIDE DEF t
<1>8. Len(t) = InKeep /\ \A i \in 1 .. Len(t) : t[i] = f[i]
  BY <1>1, <1>3, <1>7
<1>9. t = f
  BY <1>6, <1>7, <1>8, SeqEqual
<1> QED  BY <1>9 DEF t, f

\* The beat that is taken is the next one of the payload.
LEMMA SendBeat ==
    ASSUME PlaneInv, EngineOwn, SendsOwn, pc = "dinctl", bus = "pending", Ack, HwEdge,
           call' = call
    PROVE  /\ InStep /\ EngineOwn' /\ NoAnswer' /\ ~startPulse' /\ job' = call
           /\ seg = "ad" => est' = "RX" /\ adpos' = off + InKeep /\ msgpos' = 0
           /\ seg = "msg" => /\ adpos' = call.adlen /\ msgpos' = off + InKeep
                             /\ est' = IF off + InKeep = call.msglen THEN "RUN" ELSE "RX"
<1>1. BusInv /\ Positions /\ EngineInv
  BY DEF PlaneInv, EngineInv
<1>2. ~Writes("CONTROL") /\ ~Reads("DATA_OUT") /\ Writes("DATA_IN_CTRL")
  <2>1. access /\ req = Write32("DATA_IN_CTRL",
                    Ctrl(InKeep, IF seg = "ad" THEN 0 ELSE 1, off + InKeep = SegLen))
    BY <1>1, AccessIs DEF Ack
  <2> QED  BY <2>1 DEF Writes, Reads, Write32
<1>3. est = "RX"
  BY <1>2 DEF Ack, Ready, SReady
<1>4. InStep /\ NoAnswer
  BY <1>3 DEF SendsOwn, Sending
<1>5. /\ off \in Nat /\ SegLen \in 0..255 /\ InKeep \in Nat /\ off + InKeep <= SegLen
      /\ seg \in {"ad", "msg"} /\ (off + InKeep = SegLen) \in BOOLEAN
  BY <1>1, KeepTypes, Sizes DEF Sending, Positions
<1>6. RxEdge(InBeat)
  BY <1>3, EngineMoves
<1>7. InBeat = Beat([i \in 1..InKeep |-> InByte(off + (i - 1))], IF seg = "ad" THEN 0 ELSE 1,
                    off + InKeep = SegLen)
  BY <1>1, <1>2, BeatIsDriver, BeatBytesAre
<1>8. job' = call /\ ~doneO' /\ ~startPulse'
  BY <1>2, <1>4, <1>6, RegMoves DEF RxEdge, InStep
<1>9. NoAnswer'
  BY <1>2, <1>3, <1>4, <1>8, NothingCollected DEF MValid
<1>10. CASE seg = "ad"
  <2>1. SegLen = job.adlen /\ adpos = off /\ msgpos = 0 /\ job = call
    BY <1>4, <1>10 DEF SegLen, InStep
  <2>2. [i \in 1..InKeep |-> InByte(off + (i - 1))] = [i \in 1..InKeep |-> AdByte(job, adpos + (i - 1))]
    BY <1>10, <2>1 DEF InByte
  <2>3. /\ InBeat = Beat([i \in 1..InKeep |-> AdByte(job, adpos + (i - 1))], 0,
                         off + InKeep = SegLen)
        /\ adpos + InKeep <= job.adlen
    BY <1>5, <1>7, <1>10, <2>1, <2>2
  <2>4. PayloadBeat(InBeat)
    BY <1>5, <2>3 DEF PayloadBeat
  <2>5. InBeat.user = 0 /\ InBeat.bytes = [i \in 1..InKeep |-> AdByte(job, adpos + (i - 1))]
    BY <2>3 DEF Beat
  <2>6. adpos' = adpos + InKeep /\ msgpos' = msgpos /\ est' = "RX"
    BY <1>1, <1>5, <1>6, <2>3, <2>5, TakesAd
  <2>7. EngineOwn'
    BY <2>4, OwnEdge
  <2> QED  BY <1>4, <1>8, <1>9, <1>10, <2>1, <2>6, <2>7
<1>11. CASE seg = "msg"
  <2>1. SegLen = job.msglen /\ adpos = job.adlen /\ msgpos = off /\ job = call
    BY <1>4, <1>11 DEF SegLen, InStep
  <2>2. [i \in 1..InKeep |-> InByte(off + (i - 1))]
          = [i \in 1..InKeep |-> MsgByte(job, msgpos + (i - 1))]
    BY <1>11, <2>1 DEF InByte
  <2>3. /\ InBeat = Beat([i \in 1..InKeep |-> MsgByte(job, msgpos + (i - 1))], 1,
                         off + InKeep = SegLen)
        /\ msgpos + InKeep <= job.msglen
        /\ (off + InKeep = SegLen) => msgpos + InKeep = job.msglen /\ adpos = job.adlen
    BY <1>5, <1>7, <1>11, <2>1, <2>2
  <2>4. PayloadBeat(InBeat)
    BY <1>5, <2>3 DEF PayloadBeat
  <2>5. /\ InBeat.user = 1 /\ InBeat.last = (off + InKeep = SegLen)
        /\ InBeat.bytes = [i \in 1..InKeep |-> MsgByte(job, msgpos + (i - 1))]
    BY <2>3 DEF Beat
  <2>6. msgpos' = msgpos + InKeep /\ adpos' = adpos /\ est' = IF InBeat.last THEN "RUN" ELSE "RX"
    BY <1>1, <1>5, <1>6, <2>3, <2>5, TakesMsg
  <2>7. EngineOwn'
    BY <2>4, OwnEdge
  <2>8. est' = IF off + InKeep = call.msglen THEN "RUN" ELSE "RX"
    BY <2>1, <2>5, <2>6
  <2> QED  BY <1>4, <1>8, <1>9, <1>11, <2>1, <2>6, <2>7, <2>8
<1> QED  BY <1>5, <1>10, <1>11

\* A beat of the result continues what has been collected.
LEMMA Collects ==
    ASSUME PlaneInv, EngineOwn, est = "TX", job = call, Collected(txpos), HwEdge,
           ~Writes("CONTROL"), call' = call
    PROVE  /\ est' = "TX" => Collected(txpos)'
           /\ est' = "DONE" => Collected(call.msglen)'
           /\ est' \in {"TX", "DONE"}
<1>1. /\ job.msglen \in 0..MsgMax /\ txpos \in Nat /\ txpos < job.msglen
      /\ TxRem = job.msglen - txpos /\ MKeep \in 1..BeatBytes
      /\ MKeep = (IF TxRem <= BeatBytes THEN job.msglen - txpos ELSE BeatBytes)
  BY Transmitting DEF PlaneInv, EngineSound
<1>2. res = Ideal(call)
  BY DEF EngineOwn, OwnAnswer, HasResult
<1>3. outw = txpos /\ \A i \in 0 .. (txpos - 1) : outbuf[i] = OutByte(Ideal(call), i)
  BY DEF Collected
<1>4. /\ txpos + MKeep \in 0..255 /\ txpos + MKeep <= job.msglen
      /\ TxRem <= BeatBytes => txpos + MKeep = job.msglen
      /\ ~(TxRem <= BeatBytes) => MKeep = BeatBytes
  <2>1. \A m \in 0..MsgMax, p \in Nat :
           p < m => /\ m - p <= BeatBytes => p + (m - p) = m
                    /\ ~(m - p <= BeatBytes) => p + BeatBytes \in 0..255 /\ p + BeatBytes <= m
                    /\ m \in 0..255 /\ m <= m
    BY Sizes
  <2>2. CASE TxRem <= BeatBytes
    <3>1. MKeep = job.msglen - txpos /\ job.msglen - txpos <= BeatBytes
      BY <1>1, <2>2
    <3>2. txpos + MKeep = job.msglen
      BY <1>1, <2>1, <3>1
    <3>3. job.msglen \in 0..255 /\ job.msglen <= job.msglen
      BY <1>1, <2>1
    <3> QED  BY <2>2, <3>2, <3>3
  <2>3. CASE ~(TxRem <= BeatBytes)
    <3>1. MKeep = BeatBytes /\ ~(job.msglen - txpos <= BeatBytes)
      BY <1>1, <2>3
    <3>2. txpos + BeatBytes \in 0..255 /\ txpos + BeatBytes <= job.msglen
      BY <1>1, <2>1, <3>1
    <3> QED  BY <2>3, <3>1, <3>2
  <2> QED  BY <2>2, <2>3
<1>5. outw' = txpos + MKeep
  <2>1. outw' = Wrap8(txpos + MKeep)
    BY <1>3, Collecting DEF MValid
  <2> QED  BY <1>4, <2>1, Wraps
<1> DEFINE e == txpos + MKeep
<1>6. \A i \in 0 .. (e - 1) : outbuf'[i] = OutByte(Ideal(call), i)
  <2>1. outbuf' = [i \in DOMAIN outbuf |->
                     IF i \in txpos .. (txpos + MKeep - 1)
                     THEN OutByte(Ideal(call), txpos + (i - txpos)) ELSE outbuf[i]]
    BY <1>2, <1>3, Collecting DEF MValid
  <2>2. DOMAIN outbuf = 0..MsgMax-1
    BY DEF PlaneInv, OutTyped
  <2> SUFFICES ASSUME NEW i \in 0 .. (e - 1)
               PROVE  outbuf'[i] = OutByte(Ideal(call), i)
    OBVIOUS
  <2>3. i \in 0..MsgMax-1 /\ i \in Int
    BY <1>1, <1>4, Sizes
  <2>4. CASE i < txpos
    <3>1. i \in 0 .. (txpos - 1) /\ i \notin txpos .. (txpos + MKeep - 1)
      BY <1>1, <2>3, <2>4, Sizes
    <3> QED  BY <1>3, <2>1, <2>2, <2>3, <3>1
  <2>5. CASE ~(i < txpos)
    <3>1. i \in txpos .. (txpos + MKeep - 1) /\ txpos + (i - txpos) = i
      BY <1>1, <2>3, <2>5, Sizes
    <3> QED  BY <2>1, <2>2, <2>3, <3>1
  <2> QED  BY <2>4, <2>5
<1>7. /\ outw' = e /\ e \in 0..255
      /\ \A i \in 0 .. (e - 1) : outbuf'[i] = OutByte(Ideal(call), i)
      /\ TxRem <= BeatBytes => e = call.msglen
      /\ ~(TxRem <= BeatBytes) => e = txpos + BeatBytes
  <2>1. outw' = e /\ e \in 0..255
    BY <1>4, <1>5
  <2>2. /\ TxRem <= BeatBytes => e = call.msglen
        /\ ~(TxRem <= BeatBytes) => e = txpos + BeatBytes
    BY <1>4
  <2> HIDE DEF e
  <2> QED  BY <1>6, <2>1, <2>2
<1> HIDE DEF e
<1>8. \/ TxRem <= BeatBytes /\ est' = "DONE"
      \/ ~(TxRem <= BeatBytes) /\ est' = "TX" /\ txpos' = Wrap8(txpos + BeatBytes)
  BY EngineMoves DEF TxEdge
<1>9. CASE TxRem <= BeatBytes /\ est' = "DONE"
  <2>1. e = call.msglen
    BY <1>7, <1>9
  <2>2. outw' = call.msglen /\ \A i \in 0 .. (call.msglen - 1) : outbuf'[i] = OutByte(Ideal(call), i)
    BY <1>7, <2>1
  <2> QED  BY <1>9, <2>2 DEF Collected
<1>10. CASE ~(TxRem <= BeatBytes) /\ est' = "TX" /\ txpos' = Wrap8(txpos + BeatBytes)
  <2>1. txpos' = e
    BY <1>7, <1>10, Wraps
  <2>2. outw' = txpos' /\ \A i \in 0 .. (txpos' - 1) : outbuf'[i] = OutByte(Ideal(call), i)
    BY <1>7, <2>1
  <2> QED  BY <1>10, <2>2 DEF Collected
<1> QED  BY <1>8, <1>9, <1>10

\* While the driver waits.
LEMMA WaitMoves ==
    ASSUME PlaneInv, EngineOwn, Waiting, pc = "poll", HwEdge, call' = call
    PROVE  Waiting' /\ EngineOwn'
<1>1. BusInv /\ ~Writes("CONTROL") /\ ~Reads("DATA_OUT") /\ ~Writes("DATA_IN_CTRL")
  BY Touches DEF PlaneInv
<1>2. startPulse' = FALSE /\ decryptR' = decryptR /\ outr' = outr
  BY <1>1, RegMoves, Collecting
<1>3. EngineOwn'
  BY <1>1, NoBeatNoEnd, OwnEdge DEF PayloadBeat
<1>4. ~startPulse /\ decryptR = call.dec /\ outr = 0
  BY DEF Waiting
<1>5. CASE est = "IDLE" /\ ~doneO
  <2>1. Rested
    BY <1>4, <1>5 DEF Waiting, Rested
  <2>2. Rested'
    BY <1>1, <2>1, AnswerStays
  <2> QED  BY <1>2, <1>3, <1>4, <2>2 DEF Rested, Waiting
<1>6. CASE est = "IDLE" /\ doneO
  <2>1. AtWork /\ Collected(call.msglen)
    BY <1>6 DEF Waiting, AtWork
  <2>2. est' = "IDLE" /\ ~doneO'
    BY <1>4, <1>6, EngineMoves DEF IdleEdge
  <2>3. res = Ideal(call) /\ validO = (call.dec => call.tagok)
    BY <1>6, <2>1 DEF EngineOwn, OwnAnswer, HasResult, AtWork
  <2>4. call.dec \in BOOLEAN /\ call.tagok \in BOOLEAN
    BY CallTypes, JobFacts DEF PlaneInv
  <2>5. (decryptR /\ ~validO) = (call.dec /\ ~call.tagok)
    BY <1>4, <2>3, <2>4
  <2>6. /\ doneR' /\ tagR' = Ideal(call) /\ tagvR' = (call.dec => call.tagok)
        /\ errcodeR' = IF call.dec /\ ~call.tagok THEN "TAG_INVALID" ELSE "NONE"
    BY <1>1, <1>6, <2>3, <2>4, <2>5, RegMoves
  <2>7. outbuf' = outbuf /\ outw' = outw
    BY <1>1, <1>6, Collecting DEF MValid
  <2>8. Answer'
    BY <2>1, <2>6, <2>7 DEF Answer, Collected
  <2> QED  BY <1>2, <1>3, <1>4, <2>2, <2>8 DEF Waiting
<1>7. CASE est # "IDLE"
  <2>1. ~doneO
    BY <1>7 DEF EngineOwn, Received
  <2>2. AtWork /\ est \in {"RUN", "BUSY", "WAIT", "TX", "DONE"}
    BY <1>7 DEF Waiting, AtWork, PlaneInv, EngineSound, EngineTyped, EngineTypeOK, EngineStates
  <2>3. ~doneR' /\ ~errR'
    BY <1>1, <2>1, <2>2, RegMoves DEF AtWork
  <2>4. job' = call
    BY <2>2, EngineMoves DEF RunEdge, BusyEdge, WaitEdge, TxEdge, DoneEdge, AtWork
  <2>5. est # "TX" => outbuf' = outbuf /\ outw' = outw
    BY <1>1, Collecting DEF MValid
  <2>6. CASE est \in {"RUN", "BUSY"}
    <3>1. est' \in {"BUSY", "WAIT"} /\ ~doneO'
      BY <2>6, EngineMoves DEF RunEdge, BusyEdge
    <3>2. Collected(0)
      BY <2>1, <2>2, <2>6 DEF AtWork
    <3>3. Collected(0)'
      BY <2>5, <2>6, <3>2 DEF Collected
    <3>4. AtWork'
      BY <2>3, <2>4, <3>1, <3>3 DEF AtWork
    <3> QED  BY <1>2, <1>3, <1>4, <3>1, <3>4 DEF Waiting
  <2>7. CASE est = "WAIT"
    <3>1. /\ \/ est' = "WAIT"
             \/ est' = "TX" /\ txpos' = 0
             \/ est' = "DONE" /\ call.msglen = 0
          /\ ~doneO'
      <4>1. WaitEdge /\ job = call /\ est = "WAIT"
        BY <2>2, <2>7, EngineMoves DEF AtWork
      <4>2. ~doneO'
        BY <4>1, EngineMoves
      <4>3. \/ est' = "WAIT"
            \/ txpos' = 0 /\ est' = IF job.msglen = 0 THEN "DONE" ELSE "TX"
        BY <4>1 DEF WaitEdge
      <4>4. CASE call.msglen = 0
        BY <4>1, <4>2, <4>3, <4>4
      <4>5. CASE call.msglen # 0
        BY <4>1, <4>2, <4>3, <4>5
      <4> QED  BY <4>4, <4>5
    <3>2. Collected(0)
      BY <2>1, <2>2, <2>7 DEF AtWork
    <3>3. Collected(0)'
      BY <2>5, <2>7, <3>2 DEF Collected
    <3>4. AtWork'
      BY <2>3, <2>4, <3>1, <3>3 DEF AtWork
    <3> QED  BY <1>2, <1>3, <1>4, <3>1, <3>4 DEF Waiting
  <2>8. CASE est = "TX"
    <3>1. job = call /\ Collected(txpos)
      BY <2>1, <2>2, <2>8 DEF AtWork
    <3>2. /\ est' = "TX" => Collected(txpos)'
          /\ est' = "DONE" => Collected(call.msglen)'
          /\ est' \in {"TX", "DONE"}
      BY <1>1, <2>8, <3>1, Collects
    <3>3. ~doneO'
      BY <2>8, EngineMoves
    <3>4. AtWork'
      BY <2>3, <2>4, <3>2, <3>3 DEF AtWork
    <3> QED  BY <1>2, <1>3, <1>4, <3>2, <3>4 DEF Waiting
  <2>9. CASE est = "DONE"
    <3>1. est' = "IDLE" /\ doneO'
      BY <2>9, EngineMoves DEF DoneEdge
    <3>2. Collected(call.msglen)
      BY <2>1, <2>2, <2>9 DEF AtWork
    <3>3. Collected(call.msglen)'
      BY <2>5, <2>9, <3>2 DEF Collected
    <3>4. AtWork'
      BY <2>3, <2>4, <3>1, <3>3 DEF AtWork
    <3> QED  BY <1>2, <1>3, <1>4, <3>1, <3>4 DEF Waiting
  <2> QED  BY <2>2, <2>6, <2>7, <2>8, <2>9
<1> QED  BY <1>5, <1>6, <1>7

-----------------------------------------------------------------------------
(* One step of such a call, by where the driver is.                        *)

\* Between the acknowledges.
LEMMA OwnUnacknowledged ==
    ASSUME PlaneInv, LiveInv, Next, ~(bus = "pending" /\ Ack), fresh', pc' \in LivePCs
    PROVE  OwnCall'
<1> USE DEF LivePCs, Sending, Judged
<1>1. HwEdge /\ UNCHANGED driverVars
  BY Unacknowledged DEF Call
<1>2. UNCHANGED <<pc, call, seg, off, output, fresh>>
  BY <1>1 DEF driverVars
<1>3. OwnCall /\ pc \in LivePCs /\ BusInv
  BY <1>2 DEF LiveInv, PlaneInv
<1>4. ~Writes("DATA_IN") /\ ~Reads("DATA_OUT") /\ ~Writes("CONTROL") /\ ~Writes("PARAMS")
  BY <1>3, Touches DEF BusInv, Writes, Reads, Ack, Ready
<1>5. datainR' = datainR /\ outr' = outr
  BY <1>1, <1>4, Collecting DEF HwEdge, RegEdge
<1>6. CASE pc \in Sending
  <2>1. InBeat = NoBeat
    <3>1. ASSUME Writes("DATA_IN_CTRL") PROVE FALSE
      <4>1. pc = "dinctl" /\ access /\ bus = "pending"
        BY <1>3, <3>1, BeatIsDriver DEF Writes
      <4>2. est # "RX"
        BY <3>1, <4>1 DEF Ack, Ready, SReady
      <4>3. startPulse
        BY <1>3, <1>6, <4>2 DEF OwnCall, SendsOwn, InStep
      <4> QED  BY <4>1, <4>3 DEF PlaneInv, Latched
    <3> QED  BY <3>1, NoBeatNoEnd
  <2>2. InStep' /\ NoAnswer' /\ EngineOwn'
    BY <1>1, <1>2, <1>3, <1>6, <2>1, SendQuiet DEF OwnCall
  <2>3. InKeep' = InKeep
    BY <1>2 DEF InKeep, SegLen
  <2>4. pc' = "dinctl" => \A i \in 1..InKeep' : datainR'[i] = InByte(off + (i - 1))'
    BY <1>2, <1>3, <1>5, <1>6, <2>3 DEF OwnCall, SendsOwn, InByte
  <2>5. SendsOwn'
    BY <2>2, <2>4 DEF SendsOwn
  <2> QED  BY <1>2, <1>6, <2>2, <2>5 DEF OwnCall, WaitsOwn, ReadsOwn
<1>7. CASE pc = "poll"
  <2>1. Waiting' /\ EngineOwn'
    BY <1>1, <1>2, <1>3, <1>7, WaitMoves DEF OwnCall, WaitsOwn
  <2> QED  BY <1>2, <1>7, <2>1 DEF OwnCall, SendsOwn, WaitsOwn, ReadsOwn
<1>8. CASE pc \in Judged
  <2>1. Rested' /\ EngineOwn'
    BY <1>1, <1>2, <1>3, <1>4, <1>8, AnswerStays DEF OwnCall, ReadsOwn
  <2>2. ReadsOwn'
    BY <1>2, <1>3, <1>5, <1>8, <2>1 DEF OwnCall, ReadsOwn
  <2> QED  BY <1>2, <1>8, <2>1, <2>2 DEF OwnCall, SendsOwn, WaitsOwn
<1> QED  BY <1>3, <1>6, <1>7, <1>8

\* START, with the engine at rest: whatever an earlier call left, it is gone.
LEMMA OwnStarted ==
    ASSUME PlaneInv, Next, Started, fresh'
    PROVE  OwnCall'
<1> USE DEF Sending, Judged
<1>1. /\ pc = "start" /\ bus = "pending" /\ Ack /\ pc' = "din" /\ HwEdge
      /\ call' = call /\ seg' = seg /\ off' = off
      /\ est' = "IDLE" /\ ~doneO'
  BY DEF Started, Acked, FirstOfSegment
<1>2. BusInv /\ access /\ off = 0 /\ seg = "ad"
  BY <1>1 DEF PlaneInv, BusInv, Positions, Early
<1>3. Writes("CONTROL") /\ req.data.start /\ req.data.dec = call.dec
  <2>1. req = Write32("CONTROL", [start |-> TRUE, dec |-> call.dec])
    BY <1>1, <1>2, AccessIs
  <2>2. Writes("CONTROL")
    BY <1>2, <2>1 DEF Writes, Write32
  <2> QED  BY <1>1, <1>2, <2>2, ControlIsDriver
<1>4. startPulse' /\ ~doneR' /\ ~errR'
  BY <1>1, <1>3 DEF HwEdge, RegEdge
<1>5. decryptR' = call.dec
  BY <1>1, <1>3 DEF HwEdge, RegEdge
<1>6. outw' = 0 /\ outr' = 0
  BY <1>1, <1>3, Collecting
<1>7. EngineOwn'
  BY <1>1, NoJobOwn DEF EngineOwn, Received, HasJob, Loaded, OwnAnswer, HasResult
<1>8. SendsOwn'
  BY <1>1, <1>2, <1>4, <1>5, <1>6 DEF SendsOwn, NoAnswer
<1> QED  BY <1>1, <1>7, <1>8 DEF OwnCall, WaitsOwn, ReadsOwn

LEMMA OwnDataWritten ==
    ASSUME PlaneInv, OwnCall, Next, DataWritten
    PROVE  OwnCall'
<1> USE DEF Sending, Judged
<1>1. /\ pc = "din" /\ bus = "pending" /\ Ack /\ pc' = "dinctl" /\ HwEdge
      /\ call' = call /\ seg' = seg /\ off' = off
  BY DEF DataWritten, Acked
<1>2. BusInv /\ access
  BY <1>1 DEF PlaneInv, BusInv
<1>3. /\ Writes("DATA_IN") /\ ~Writes("DATA_IN_CTRL")
      /\ req.data = [i \in 1..BeatBytes |-> IF i <= InKeep THEN InByte(off + (i - 1)) ELSE Zero]
  <2>1. req = Write32("DATA_IN",
                [i \in 1..BeatBytes |-> IF i <= InKeep THEN InByte(off + (i - 1)) ELSE Zero])
    BY <1>1, <1>2, AccessIs
  <2> QED  BY <1>2, <2>1 DEF Writes, Write32
<1>4. datainR' = [i \in 1..BeatBytes |-> IF i <= InKeep THEN InByte(off + (i - 1)) ELSE Zero]
  BY <1>1, <1>3 DEF HwEdge, RegEdge
<1>5. InStep' /\ NoAnswer' /\ EngineOwn'
  BY <1>1, <1>3, NoBeatNoEnd, SendQuiet DEF OwnCall
<1>6. InKeep \in 0..BeatBytes /\ InKeep' = InKeep
  BY <1>1, KeepTypes DEF PlaneInv, InKeep, SegLen
<1>7. \A i \in 1..InKeep' : datainR'[i] = InByte(off + (i - 1))'
  <2> SUFFICES ASSUME NEW i \in 1..InKeep PROVE datainR'[i] = InByte(off + (i - 1))'
    BY <1>6
  <2>1. i \in 1..BeatBytes /\ i <= InKeep
    BY <1>6, Sizes
  <2>2. datainR'[i] = InByte(off + (i - 1))
    BY <1>4, <2>1
  <2> QED  BY <1>1, <2>2 DEF InByte
<1>8. SendsOwn'
  BY <1>5, <1>7 DEF SendsOwn
<1> QED  BY <1>1, <1>5, <1>8 DEF OwnCall, WaitsOwn, ReadsOwn

LEMMA OwnBeatSent ==
    ASSUME PlaneInv, OwnCall, Next, BeatSent
    PROVE  OwnCall'
<1> USE DEF Sending, Judged
<1>1. pc = "dinctl" /\ bus = "pending" /\ Ack /\ HwEdge /\ call' = call
  BY DEF BeatSent, Acked
<1>2. /\ InStep /\ EngineOwn' /\ NoAnswer' /\ ~startPulse' /\ job' = call
      /\ seg = "ad" => est' = "RX" /\ adpos' = off + InKeep /\ msgpos' = 0
      /\ seg = "msg" => /\ adpos' = call.adlen /\ msgpos' = off + InKeep
                        /\ est' = IF off + InKeep = call.msglen THEN "RUN" ELSE "RX"
  BY <1>1, SendBeat DEF OwnCall
<1>3. /\ off \in Nat /\ SegLen \in 0..255 /\ InKeep \in Nat /\ off + InKeep <= SegLen
      /\ seg \in {"ad", "msg"}
  BY <1>1, KeepTypes, Sizes DEF PlaneInv, Positions
<1>4. \/ off + InKeep < SegLen /\ off' = off + InKeep /\ pc' = "din" /\ seg' = seg
      \/ off + InKeep = SegLen /\ seg = "ad" /\ off' = 0 /\ seg' = "msg" /\ pc' = "din"
      \/ off + InKeep = SegLen /\ seg = "msg" /\ off' = 0 /\ seg' = "msg" /\ pc' = "poll"
  <2>1. CASE off + InKeep < SegLen
    BY <2>1 DEF BeatSent
  <2>2. CASE ~(off + InKeep < SegLen)
    <3>1. off + InKeep = SegLen
      BY <1>3, <2>2
    <3> QED  BY <1>3, <2>2, <3>1 DEF BeatSent, FirstOfSegment
  <2> QED  BY <2>1, <2>2
<1>5. CASE off + InKeep < SegLen /\ off' = off + InKeep /\ pc' = "din" /\ seg' = seg
  <2>1. CASE seg = "ad"
    <3>1. InStep'
      BY <1>1, <1>2, <1>5, <2>1 DEF InStep
    <3> QED  BY <1>2, <1>5, <3>1 DEF OwnCall, SendsOwn, WaitsOwn, ReadsOwn
  <2>2. CASE seg = "msg"
    <3>1. off + InKeep # call.msglen
      BY <1>3, <1>5, <2>2 DEF SegLen
    <3>2. InStep'
      BY <1>1, <1>2, <1>5, <2>2, <3>1 DEF InStep
    <3> QED  BY <1>2, <1>5, <3>2 DEF OwnCall, SendsOwn, WaitsOwn, ReadsOwn
  <2> QED  BY <1>3, <2>1, <2>2
<1>6. CASE off + InKeep = SegLen /\ seg = "ad" /\ off' = 0 /\ seg' = "msg" /\ pc' = "din"
  <2>1. InStep'
    BY <1>1, <1>2, <1>6 DEF InStep, SegLen
  <2> QED  BY <1>2, <1>6, <2>1 DEF OwnCall, SendsOwn, WaitsOwn, ReadsOwn
<1>7. CASE off + InKeep = SegLen /\ seg = "msg" /\ off' = 0 /\ seg' = "msg" /\ pc' = "poll"
  <2>1. est' = "RUN" /\ ~doneO'
    BY <1>2, <1>7 DEF SegLen, NoAnswer
  <2>2. Collected(0)'
    BY <1>2 DEF NoAnswer, Collected
  <2>3. AtWork'
    BY <1>1, <1>2, <2>1, <2>2 DEF AtWork, NoAnswer
  <2>4. Waiting'
    BY <1>2, <2>1, <2>3 DEF Waiting, NoAnswer
  <2> QED  BY <1>2, <1>7, <2>4 DEF OwnCall, SendsOwn, WaitsOwn, ReadsOwn
<1> QED  BY <1>4, <1>5, <1>6, <1>7

\* DONE, as the driver sees it.
LEMMA OwnPolled ==
    ASSUME PlaneInv, OwnCall, Next, Polled
    PROVE  OwnCall'
<1> USE DEF Sending, Judged
<1>1. /\ pc = "poll" /\ bus = "pending" /\ Ack /\ HwEdge
      /\ call' = call /\ off' = off /\ output' = output
      /\ pc' = IF doneR \/ errR THEN "error" ELSE "poll"
  BY DEF Polled, Acked
<1>2. Waiting /\ Waiting' /\ EngineOwn'
  BY <1>1, WaitMoves DEF OwnCall, WaitsOwn
<1>3. CASE pc' = "poll"
  BY <1>2, <1>3 DEF OwnCall, SendsOwn, WaitsOwn, ReadsOwn
<1>4. CASE pc' = "error"
  <2>1. doneR \/ errR
    BY <1>1, <1>4
  <2>2. Rested
    BY <1>2, <2>1 DEF Waiting, AtWork, Rested
  <2>3. ~Writes("CONTROL")
    BY <1>1, Touches DEF PlaneInv
  <2>4. Rested' /\ outr' = 0
    BY <1>1, <1>2, <2>2, <2>3, AnswerStays DEF Waiting
  <2>5. off = 0 /\ output = <<>>
    BY <1>1 DEF PlaneInv, Positions
  <2>6. output' = [k \in 1..off' |-> OutByte(Ideal(call), k - 1)'] /\ off' = 0
    BY <1>1, <2>5
  <2>7. ReadsOwn'
    BY <1>1, <1>4, <2>4, <2>6 DEF ReadsOwn
  <2> QED  BY <1>2, <1>4, <2>7 DEF OwnCall, SendsOwn, WaitsOwn
<1> QED  BY <1>1, <1>3, <1>4

\* What the driver reads while it judges and collects the answer.
LEMMA Reading ==
    ASSUME PlaneInv, OwnCall, pc \in Judged, Next, bus = "pending", Ack, call' = call
    PROVE  /\ Rested /\ Rested' /\ EngineOwn' /\ HwEdge
           /\ outr' = IF pc = "dout" THEN Wrap8(outr + BeatBytes) ELSE outr
<1>1. HwEdge /\ BusInv /\ access
  BY Steps DEF PlaneInv, BusInv
<1>2. ~Writes("CONTROL")
  BY <1>1, Touches DEF Judged
<1>3. Rested
  BY DEF OwnCall, ReadsOwn
<1>4. Rested' /\ EngineOwn'
  BY <1>1, <1>2, <1>3, AnswerStays
<1>5. (pc = "dout" => Reads("DATA_OUT")) /\ (pc # "dout" => ~Reads("DATA_OUT"))
  BY <1>1, AccessIs, Touches DEF Reads, Read
<1>6. outr' = IF pc = "dout" THEN Wrap8(outr + BeatBytes) ELSE outr
  BY <1>1, <1>2, <1>5, Collecting
<1> QED  BY <1>1, <1>3, <1>4, <1>6

\* Nothing has been read, and of an empty message that is everything.
LEMMA EmptyResult ==
    ASSUME NEW j, j.msglen = 0
    PROVE  ResultBytes(j) = <<>>
BY DEF ResultBytes

\* A tag that is not genuine is reported, and nothing is read.
LEMMA OwnJudged ==
    ASSUME PlaneInv, OwnCall, Next, ErrorRead \/ TagJudged
    PROVE  /\ pc' # "returned" => OwnCall'
           /\ pc' = "returned" => AnswerIsOwn'
<1> USE DEF Sending, Judged
<1>1. /\ pc \in {"error", "tagv"} /\ bus = "pending" /\ Ack
      /\ call' = call /\ off' = off /\ output' = output
  BY DEF ErrorRead, TagJudged, Acked
<1>2. /\ Rested /\ Rested' /\ EngineOwn' /\ outr' = outr
  BY <1>1, Reading
<1>3. /\ outr = 0 /\ off = 0 /\ output = <<>> /\ ret = "OK"
      /\ output = [k \in 1..off |-> OutByte(Ideal(call), k - 1)]
      /\ pc = "tagv" => (call.dec => call.tagok)
  BY <1>1 DEF OwnCall, ReadsOwn, PlaneInv, Positions
<1>4. call.msglen \in 0..255 /\ call.dec \in BOOLEAN
  BY <1>1, CallTypes DEF PlaneInv
<1>5. \/ pc' = "returned" /\ ret' = "TAG_INVALID" /\ call.dec /\ ~call.tagok
      \/ pc' = "tagv" /\ (call.dec => call.tagok)
      \/ pc' = "dout" /\ (call.dec => call.tagok) /\ call.msglen > 0
      \/ pc' = "returned" /\ ret' = "OK" /\ call.dec /\ call.tagok /\ call.msglen = 0
      \/ pc' = "tag" /\ ~call.dec
  <2>1. CASE ErrorRead
    <3>1. errcodeR = IF call.dec /\ ~call.tagok THEN "TAG_INVALID" ELSE "NONE"
      BY <1>2 DEF Rested, Answer
    <3>2. CASE call.dec /\ ~call.tagok
      BY <2>1, <3>1, <3>2 DEF ErrorRead, Returns
    <3>3. CASE call.dec /\ call.tagok
      BY <2>1, <3>1, <3>3 DEF ErrorRead, Returns
    <3>4. CASE ~call.dec
      <4>1. ReadResult
        BY <2>1, <3>1, <3>4 DEF ErrorRead
      <4> QED  BY <3>4, <4>1 DEF ReadResult
    <3> QED  BY <3>2, <3>3, <3>4
  <2>2. CASE TagJudged
    <3>1. (call.dec => call.tagok) /\ tagvR
      BY <1>2, <1>3, <2>2 DEF TagJudged, Rested, Answer
    <3>2. ReadResult
      BY <2>2, <3>1 DEF TagJudged
    <3>3. CASE call.msglen > 0
      BY <3>1, <3>2, <3>3 DEF ReadResult
    <3>4. CASE ~(call.msglen > 0)
      <4>1. call.msglen = 0
        BY <1>4, <3>4
      <4>2. CASE call.dec
        BY <3>1, <3>2, <3>4, <4>1, <4>2 DEF ReadResult, Returns
      <4>3. CASE ~call.dec
        BY <3>2, <3>4, <4>3 DEF ReadResult
      <4> QED  BY <4>2, <4>3
    <3> QED  BY <3>3, <3>4
  <2> QED  BY <2>1, <2>2
<1>6. pc' \in {"tagv", "dout", "tag"} /\ (call.dec => call.tagok) => OwnCall'
  <2> SUFFICES ASSUME pc' \in {"tagv", "dout", "tag"}, call.dec => call.tagok PROVE OwnCall'
    OBVIOUS
  <2>1. output' = [k \in 1..off' |-> OutByte(Ideal(call'), k - 1)] /\ off' = outr' /\ outr' = 0
    BY <1>1, <1>2, <1>3
  <2>2. ReadsOwn'
    BY <1>1, <1>2, <2>1 DEF ReadsOwn
  <2> QED  BY <1>2, <2>2 DEF OwnCall, SendsOwn, WaitsOwn
<1>7. ASSUME pc' = "returned", ret' = "TAG_INVALID", call.dec, ~call.tagok PROVE AnswerIsOwn'
  BY <1>1, <1>3, <1>7 DEF AnswerIsOwn
<1>8. ASSUME pc' = "returned", ret' = "OK", call.dec, call.tagok, call.msglen = 0
      PROVE  AnswerIsOwn'
  <2>1. output' = ResultBytes(call)
    BY <1>1, <1>3, <1>8, EmptyResult
  <2> QED  BY <1>1, <1>8, <2>1 DEF AnswerIsOwn, ResultBytes, Ideal, OutByte
<1> QED  BY <1>5, <1>6, <1>7, <1>8

\* A word of the result is the next bytes of it.
LEMMA OwnWordRead ==
    ASSUME PlaneInv, OwnCall, Next, WordRead
    PROVE  OwnCall'
<1> USE DEF Sending, Judged
<1> DEFINE n == IF call.msglen - off >= BeatBytes THEN BeatBytes ELSE call.msglen - off
           w == SubSeq(OutWord, 1, n)
           Byte(k) == OutByte(Ideal(call), k - 1)
           sofar == [k \in 1..off |-> Byte(k)]
           longer == [k \in 1..off + n |-> Byte(k)]
<1>1. /\ pc = "dout" /\ bus = "pending" /\ Ack /\ pc' = "doutctl" /\ call' = call
      /\ off' = off + n /\ output' = output \o w
  BY DEF WordRead, Acked
<1>2. Rested /\ Rested' /\ EngineOwn' /\ outr' = Wrap8(outr + BeatBytes)
  BY <1>1, Reading
<1>3. /\ off \in Nat /\ call.msglen \in 0..255 /\ n \in 1..BeatBytes
      /\ off + n <= call.msglen
      /\ off + n < call.msglen => n = BeatBytes
  BY <1>1, OutTypes DEF PlaneInv
<1>4. outr = off /\ output = sofar /\ (call.dec => call.tagok)
  BY <1>1 DEF OwnCall, ReadsOwn
<1>5. /\ w \in Seq(OutBytes) /\ Len(w) = n /\ \A k \in 1..n : w[k] = OutWord[k]
  BY <1>3, ReadTyped DEF PlaneInv
<1>6. call.msglen \in 0..MsgMax
  BY <1>1, CallTypes, JobFacts DEF PlaneInv
<1> HIDE DEF n, w
<1>7. outbuf \in [0..MsgMax-1 -> OutBytes]
      /\ \A i \in 0 .. (call.msglen - 1) : outbuf[i] = OutByte(Ideal(call), i)
  BY <1>2 DEF PlaneInv, OutTyped, Rested, Answer, Collected
<1>8. \A k \in 1..call.msglen : outbuf[k - 1] = Byte(k) /\ Byte(k) \in OutBytes
                                /\ k - 1 \in DOMAIN outbuf
  <2> SUFFICES ASSUME NEW k \in 1..call.msglen
               PROVE  outbuf[k - 1] = Byte(k) /\ Byte(k) \in OutBytes /\ k - 1 \in DOMAIN outbuf
    OBVIOUS
  <2>1. k - 1 \in 0 .. (call.msglen - 1) /\ k - 1 \in 0..MsgMax-1
    BY <1>6, Sizes
  <2>2. outbuf[k - 1] = Byte(k)
    BY <1>7, <2>1
  <2>3. outbuf[k - 1] \in OutBytes /\ k - 1 \in DOMAIN outbuf
    BY <1>7, <2>1
  <2> QED  BY <2>2, <2>3
<1>9. \A k \in 1..n : w[k] = Byte(off + k)
  <2> SUFFICES ASSUME NEW k \in 1..n PROVE w[k] = Byte(off + k)
    OBVIOUS
  <2>1. k \in 1..BeatBytes /\ off + k \in 1..call.msglen /\ off + (k - 1) = (off + k) - 1
    BY <1>3, Sizes
  <2>2. (off + k) - 1 \in DOMAIN outbuf /\ outbuf[(off + k) - 1] = Byte(off + k)
    BY <1>8, <2>1
  <2>3. OutWord[k] = outbuf[off + (k - 1)]
    BY <1>4, <2>1, <2>2 DEF OutWord
  <2> QED  BY <1>5, <2>1, <2>2, <2>3
<1> HIDE DEF Byte
<1>10. sofar \in Seq(OutBytes) /\ Len(sofar) = off /\ longer \in Seq(OutBytes) /\ Len(longer) = off + n
  <2>1. (\A k \in 1..off : k \in 1..call.msglen) /\ (\A k \in 1..off + n : k \in 1..call.msglen)
        /\ off + n \in Nat
    BY <1>3, Sizes
  <2>2. sofar \in [1..off -> OutBytes] /\ longer \in [1..off + n -> OutBytes]
    BY <1>8, <2>1
  <2> QED  BY <1>3, <2>1, <2>2, FunctionIsSeq
<1>11. \A k \in 1..off : sofar[k] = Byte(k)
  OBVIOUS
<1>12. \A k \in 1..off + n : longer[k] = Byte(k)
  OBVIOUS
<1> HIDE DEF sofar, longer
<1>13. sofar \o w = longer
  <2>1. /\ sofar \o w \in Seq(OutBytes) /\ Len(sofar \o w) = off + n
        /\ \A k \in 1 .. off + n : (sofar \o w)[k] = IF k <= off THEN sofar[k] ELSE w[k - off]
    BY <1>5, <1>10, ConcatProperties
  <2>2. ASSUME NEW k \in 1 .. off + n PROVE (sofar \o w)[k] = longer[k]
    <3>1. n \in Nat
      BY <1>3, Sizes
    <3>2. CASE k <= off
      BY <1>3, <1>11, <1>12, <2>1, <3>1, <3>2
    <3>3. CASE ~(k <= off)
      <4>1. k - off \in 1..n /\ off + (k - off) = k
        BY <1>3, <3>1, <3>3
      <4>2. w[k - off] = Byte(k)
        BY <1>9, <4>1
      <4> QED  BY <1>12, <2>1, <3>3, <4>2
    <3> QED  BY <3>2, <3>3
  <2> QED  BY <1>10, <2>1, <2>2, SeqEqual
<1>14. output' = [k \in 1..off' |-> OutByte(Ideal(call'), k - 1)]
  BY <1>1, <1>4, <1>13 DEF longer, Byte
<1>15. off' < call.msglen => outr' = off'
  <2> SUFFICES ASSUME off + n < call.msglen PROVE Wrap8(outr + BeatBytes) = off + n
    BY <1>1, <1>2
  <2>1. outr + BeatBytes = off + n /\ off + n \in 0..255
    BY <1>3, <1>4, Sizes
  <2> QED  BY <2>1, Wraps
<1>16. ReadsOwn'
  BY <1>1, <1>2, <1>4, <1>14, <1>15 DEF ReadsOwn
<1> QED  BY <1>1, <1>2, <1>16 DEF OwnCall, SendsOwn, WaitsOwn

LEMMA OwnFramingRead ==
    ASSUME PlaneInv, OwnCall, Next, FramingRead \/ TagRead
    PROVE  /\ pc' # "returned" => OwnCall'
           /\ pc' = "returned" => AnswerIsOwn'
<1> USE DEF Sending, Judged
<1>1. /\ pc \in {"doutctl", "tag"} /\ bus = "pending" /\ Ack
      /\ call' = call /\ off' = off /\ output' = output
  BY DEF FramingRead, TagRead, Acked
<1>2. Rested /\ Rested' /\ EngineOwn' /\ outr' = outr
  BY <1>1, Reading
<1>3. /\ off \in 0..255 /\ call.msglen \in 0..255 /\ ret = "OK" /\ off <= call.msglen
      /\ pc = "tag" => off = call.msglen /\ ~call.dec
  BY <1>1, CallTypes DEF PlaneInv, Positions
<1>4. /\ output = [k \in 1..off |-> OutByte(Ideal(call), k - 1)] /\ (call.dec => call.tagok)
      /\ pc = "doutctl" /\ off < call.msglen => outr = off
  BY <1>1 DEF OwnCall, ReadsOwn
<1>5. output' = [k \in 1..off' |-> OutByte(Ideal(call'), k - 1)]
  BY <1>1, <1>4
<1>6. \/ pc' = "dout" /\ outr' = off'
      \/ pc' = "tag"
      \/ pc' = "returned" /\ ret' = "OK" /\ call.dec /\ off = call.msglen
      \/ pc' = "returned" /\ ret' = "OK" /\ ~call.dec /\ off = call.msglen /\ tagOut' = Ideal(call)
  <2>1. CASE FramingRead
    <3>1. CASE off < call.msglen
      BY <1>1, <1>2, <1>4, <2>1, <3>1 DEF FramingRead
    <3>2. CASE ~(off < call.msglen)
      <4>1. off = call.msglen
        BY <1>3, <3>2
      <4> QED  BY <1>3, <2>1, <3>2, <4>1 DEF FramingRead, Returns
    <3> QED  BY <3>1, <3>2
  <2>2. CASE TagRead
    <3>1. pc = "tag" /\ tagOut' = tagR /\ pc' = "returned" /\ ret' = "OK"
      BY <2>2 DEF TagRead, Returns
    <3> QED  BY <1>2, <1>3, <3>1 DEF Rested, Answer
  <2> QED  BY <2>1, <2>2
<1>7. CASE pc' \in {"dout", "tag"}
  <2>1. ReadsOwn'
    BY <1>1, <1>2, <1>4, <1>5, <1>6, <1>7 DEF ReadsOwn
  <2> QED  BY <1>2, <1>7, <2>1 DEF OwnCall, SendsOwn, WaitsOwn
<1>8. CASE pc' = "returned"
  <2>1. ret' = "OK" /\ off = call.msglen /\ (~call.dec => tagOut' = Ideal(call))
    BY <1>6, <1>8
  <2>2. output' = ResultBytes(call')
    BY <1>1, <1>5, <2>1 DEF ResultBytes
  <2>3. tagOut' = Ideal(call') \/ call'.dec
    BY <1>1, <2>1
  <2>4. Ideal(call)' = Ideal(call') /\ ResultBytes(call)' = ResultBytes(call')
    BY DEF Ideal, ResultBytes
  <2>5. ~(call'.dec /\ ~call'.tagok) /\ ret' = "OK"
    BY <1>1, <1>4, <2>1
  <2>6. AnswerIsOwn'
    BY <2>2, <2>3, <2>4, <2>5, Zenon DEF AnswerIsOwn
  <2> QED  BY <1>8, <2>6
<1> QED  BY <1>6, <1>7, <1>8

-----------------------------------------------------------------------------
(* FreshInv is inductive.                                                  *)

LEMMA SameAnswer == UNCHANGED driverVars => (OwnResultIfFresh' <=> OwnResultIfFresh)
<1> SUFFICES ASSUME UNCHANGED driverVars PROVE OwnResultIfFresh' <=> OwnResultIfFresh
  OBVIOUS
<1>1. UNCHANGED <<pc, call, output, tagOut, ret, fresh>>
  BY DEF driverVars
<1>2. AnswerIsOwn' <=> AnswerIsOwn
  BY <1>1 DEF AnswerIsOwn, ResultBytes, Ideal, OutByte
<1> QED  BY <1>1, <1>2 DEF OwnResultIfFresh, Answered

LEMMA NextFresh ==
    ASSUME FreshInv, Next
    PROVE  LiveInv' /\ OwnResultIfFresh'
<1> USE DEF LivePCs, Sending, Judged
<1>1. PlaneInv /\ LiveInv /\ OwnResultIfFresh /\ BusInv
  BY DEF FreshInv, PlaneInv
<1>2. CASE ~(bus = "pending" /\ Ack)
  <2>1. LiveInv'
    BY <1>1, <1>2, OwnUnacknowledged DEF LiveInv
  <2>2. UNCHANGED driverVars \/ pc' = "clear"
    BY <1>2, Unacknowledged DEF Call
  <2> QED  BY <1>1, <2>1, <2>2, SameAnswer DEF OwnResultIfFresh, Answered
<1>3. CASE bus = "pending" /\ Ack
  <2>1. pc \in PCs \ {"returned"}
    BY <1>1, <1>3 DEF BusInv
  <2>2. CASE pc \in {"clear", "params"}
    <3>1. pc' \in {"params", "start"}
      BY <1>3, <2>2, Acknowledged DEF ClearDone, ParamsWritten
    <3> QED  BY <3>1 DEF LiveInv, OwnResultIfFresh, Answered
  <2>3. CASE pc = "start"
    <3>1. Started
      BY <1>3, <2>3, Acknowledged
    <3>2. pc' = "din"
      BY <3>1 DEF Started, FirstOfSegment
    <3> QED  BY <1>1, <3>1, <3>2, OwnStarted DEF LiveInv, OwnResultIfFresh, Answered
  <2>4. CASE pc \in {"din", "dinctl"}
    <3>1. DataWritten \/ BeatSent
      BY <1>3, <2>4, Acknowledged
    <3>2. fresh' = fresh /\ pc' # "returned"
      BY <3>1 DEF DataWritten, BeatSent, FirstOfSegment
    <3> QED  BY <1>1, <2>4, <3>1, <3>2, OwnDataWritten, OwnBeatSent
             DEF LiveInv, OwnResultIfFresh, Answered
  <2>5. CASE pc = "poll"
    <3>1. CASE PolledTooOften
      BY <3>1 DEF PolledTooOften, Returns, LiveInv, OwnResultIfFresh, Answered
    <3>2. CASE Polled
      <4>1. fresh' = fresh /\ pc' # "returned"
        BY <3>2 DEF Polled
      <4> QED  BY <1>1, <2>5, <3>2, <4>1, OwnPolled DEF LiveInv, OwnResultIfFresh, Answered
    <3> QED  BY <1>3, <2>5, <3>1, <3>2, Acknowledged
  <2>6. CASE pc \in {"error", "tagv"}
    <3>1. ErrorRead \/ TagJudged
      BY <1>3, <2>6, Acknowledged
    <3>2. fresh' = fresh
      BY <3>1 DEF ErrorRead, TagJudged
    <3> QED  BY <1>1, <2>6, <3>1, <3>2, OwnJudged DEF LiveInv, OwnResultIfFresh, Answered
  <2>7. CASE pc = "dout"
    <3>1. WordRead
      BY <1>3, <2>7, Acknowledged
    <3>2. fresh' = fresh /\ pc' # "returned"
      BY <3>1 DEF WordRead
    <3> QED  BY <1>1, <2>7, <3>1, <3>2, OwnWordRead DEF LiveInv, OwnResultIfFresh, Answered
  <2>8. CASE pc \in {"doutctl", "tag"}
    <3>1. FramingRead \/ TagRead
      BY <1>3, <2>8, Acknowledged
    <3>2. fresh' = fresh
      BY <3>1 DEF FramingRead, TagRead
    <3> QED  BY <1>1, <2>8, <3>1, <3>2, OwnFramingRead DEF LiveInv, OwnResultIfFresh, Answered
  <2> QED  BY <2>1, <2>2, <2>3, <2>4, <2>5, <2>6, <2>7, <2>8 DEF PCs
<1> QED  BY <1>2, <1>3

LEMMA FreshStays == FreshInv /\ UNCHANGED vars => FreshInv'
<1> SUFFICES ASSUME FreshInv, UNCHANGED vars PROVE FreshInv'
  OBVIOUS
<1>1. UNCHANGED axisVars /\ UNCHANGED driverVars /\ UNCHANGED regVars
  BY DEF vars, hwVars
<1>2. UNCHANGED <<est, job, adpos, msgpos, txpos, doneO>> /\ UNCHANGED regVars
      /\ UNCHANGED <<pc, call, seg, off, output, fresh>>
  BY <1>1 DEF axisVars, engineVars, driverVars
<1>3. EngineOwn => EngineOwn'
  BY <1>1, OwnStays
<1>4. (SendsOwn /\ WaitsOwn /\ ReadsOwn) => (SendsOwn /\ WaitsOwn /\ ReadsOwn)'
  <2>1. Answer => Answer'
    BY <1>2 DEF Answer, Collected, Ideal, OutByte, regVars
  <2>2. AtWork => AtWork'
    BY <1>2 DEF AtWork, Collected, Ideal, OutByte, regVars
  <2>3. SendsOwn => SendsOwn'
    BY <1>2 DEF SendsOwn, NoAnswer, InStep, InKeep, SegLen, InByte, regVars
  <2>4. WaitsOwn => WaitsOwn'
    BY <1>2, <2>1, <2>2 DEF WaitsOwn, Waiting, regVars
  <2>5. ReadsOwn => ReadsOwn'
    BY <1>2, <2>1 DEF ReadsOwn, Rested, Ideal, OutByte, regVars
  <2> QED  BY <2>3, <2>4, <2>5
<1>5. LiveInv'
  BY <1>2, <1>3, <1>4 DEF FreshInv, LiveInv, OwnCall
<1> QED  BY <1>1, <1>5, PlaneStays, SameAnswer DEF FreshInv

\* The invariant of the plane for any number of calls that give up.
LEMMA InitFresh == Init => FreshInv
BY InitPlane DEF Init, FreshInv, LiveInv, OwnResultIfFresh, Answered

LEMMA FreshStep == FreshInv /\ [Next]_vars => FreshInv'
<1>1. ASSUME FreshInv, Next PROVE FreshInv'
  BY <1>1, NextPlane, NextFresh DEF FreshInv
<1> QED  BY <1>1, FreshStays

\* Even after calls that gave up and left the engine where it was, a call whose
\* START found the engine at rest and that does not give up itself gets its own
\* result and tag, and TAG_INVALID exactly for a tag that is not genuine
\* (firmware/ascon_accel/ascon_accel.c, ascon_accel_wait_done).
THEOREM FreshOwnResult == Spec => []OwnResultIfFresh
<1>1. FreshInv => OwnResultIfFresh
  BY DEF FreshInv
<1> QED  BY <1>1, InitFresh, FreshStep, PTL DEF Spec

-----------------------------------------------------------------------------
(* As long as no call gives up.                                            *)

\* Nothing is under way in the engine, and no pulse to or from it.
AtRest == est = "IDLE" /\ ~startPulse /\ ~doneO

Resting == PCs \ (Sending \cup {"poll"})

\* The driver leaves the wait only when the engine is at rest again, and until
\* the payload is sent the engine receives, or is about to: so every START
\* finds the engine at rest.
Turns ==
    /\ doneR \/ errR => AtRest
    /\ doneO => est = "IDLE" /\ ~startPulse
    /\ startPulse => est = "IDLE" /\ pc = "din" /\ bus = "idle"
    /\ pc \in Resting => AtRest
    /\ pc \in Sending => est = "RX" \/ startPulse
    /\ call # None /\ pc \notin Early => fresh

TurnInv == PlaneInv /\ Turns /\ timeouts = 0

LEMMA InitTurns == Init => TurnInv
<1> SUFFICES ASSUME Init PROVE TurnInv  OBVIOUS
<1> QED  BY InitPlane DEF Init, EngineInit, TurnInv, Turns, AtRest, Resting, Sending, PCs

\* Where the driver goes on to, when no call gives up.
LEMMA DriverMoves ==
    ASSUME TurnInv, Next, MaxTimeouts = 0
    PROVE  /\ pc' \in Resting => pc \in Resting \/ (pc = "poll" /\ (doneR \/ errR))
           /\ pc' \in Sending => pc \in Sending \/ (pc = "start" /\ bus = "pending" /\ Ack)
           /\ pc = "start" /\ bus = "pending" /\ Ack => Started /\ pc' = "din" /\ bus' = "idle"
           /\ pc = "dinctl" /\ bus = "pending" /\ Ack /\ pc' \in Sending =>
                off + InKeep < SegLen \/ seg = "ad"
           /\ Started \/ pc' = "clear" \/ (fresh' = fresh /\ call' = call
                                            /\ (pc' \notin Early => pc \notin Early))
           /\ timeouts' = 0
<1>1. ASSUME NEW c \in Calls, Call(c)
      PROVE  pc = "returned" /\ pc' = "clear" /\ timeouts' = 0
  BY <1>1 DEF Call, TurnInv
<1>2. CASE Issue \/ Strobe \/ Stall \/ Tick
  <2>1. pc' = pc /\ timeouts' = 0 /\ ~(bus = "pending" /\ Ack) /\ fresh' = fresh /\ call' = call
    BY <1>2 DEF Issue, Strobe, Stall, Tick, driverVars, TurnInv
  <2> QED  BY <2>1
<1>3. CASE Started
  <2>1. pc = "start" /\ pc' = "din" /\ bus = "pending" /\ Ack /\ bus' = "idle" /\ timeouts' = 0
    BY <1>3 DEF Started, Acked, FirstOfSegment, TurnInv
  <2> QED  BY <1>3, <2>1 DEF Resting, Sending
<1>4. CASE BeatSent
  <2>1. /\ pc = "dinctl" /\ pc' \in {"din", "poll"} /\ timeouts' = 0
        /\ pc' = "din" => off + InKeep < SegLen \/ seg = "ad"
        /\ fresh' = fresh /\ call' = call
    BY <1>4 DEF BeatSent, FirstOfSegment, TurnInv
  <2> QED  BY <2>1 DEF Resting, Sending, Early
<1>5. CASE DataWritten \/ Polled
  BY <1>5 DEF DataWritten, Polled, Resting, Sending, Early, PCs, TurnInv
<1>6. CASE ClearDone \/ ParamsWritten \/ ErrorRead \/ TagJudged \/ WordRead \/ FramingRead
           \/ TagRead
  <2>1. /\ pc \in {"clear", "params", "error", "tagv", "dout", "doutctl", "tag"}
        /\ pc' \in Resting /\ timeouts' = 0 /\ fresh' = fresh /\ call' = call
        /\ pc' \notin Early => pc \notin Early
    BY <1>6 DEF ClearDone, ParamsWritten, ErrorRead, TagJudged, WordRead, FramingRead, TagRead,
                ReadResult, Returns, Resting, Sending, Early, PCs, TurnInv
  <2> QED  BY <2>1 DEF Resting, Sending, PCs
<1>7. ~PolledTooOften
  BY DEF PolledTooOften, TurnInv
<1> QED  BY <1>1, <1>2, <1>3, <1>4, <1>5, <1>6, <1>7
         DEF Next, Driver, Resting, Sending, Early, PCs

LEMMA NextTurns ==
    ASSUME TurnInv, Next, MaxTimeouts = 0
    PROVE  Turns'
<1> DEFINE start == Writes("CONTROL") /\ req.data.start
           control == Writes("CONTROL")
<1>1. BusInv /\ Positions /\ Turns /\ HwEdge
  BY Steps DEF TurnInv, PlaneInv
<1>2. /\ startPulse' = start
      /\ doneR' = (~control /\ (doneO \/ doneR))
      /\ errR' = (~control /\ ((doneO /\ decryptR /\ ~validO) \/ errR))
  BY <1>1 DEF HwEdge, RegEdge
<1>3. start => pc = "start" /\ bus = "pending" /\ Ack /\ pc' = "din" /\ bus' = "idle"
               /\ est = "IDLE" /\ ~startPulse
  BY <1>1, ControlIsDriver, DriverMoves DEF Turns, AtRest, Resting, Sending, PCs
<1>4. est = "IDLE" => est' = (IF startPulse THEN "RX" ELSE "IDLE")
  BY <1>1, EngineMoves DEF IdleEdge
<1>5. est = "IDLE" => ~doneO'
  BY <1>1, EngineMoves
<1>6. AtRest /\ ~start => AtRest'
  BY <1>2, <1>4, <1>5 DEF AtRest
<1>7. doneO' => est' = "IDLE" /\ ~startPulse'
  BY <1>1, <1>2, <1>3, EngineMoves
<1>8. doneR' \/ errR' => AtRest'
  <2>1. ASSUME doneR' \/ errR' PROVE ~start /\ (doneO \/ doneR \/ errR)
    BY <1>2, <2>1
  <2>2. doneO => est' = "IDLE" /\ ~doneO'
    BY <1>1, <1>4, <1>5 DEF Turns
  <2> QED  BY <1>1, <1>2, <1>6, <2>1, <2>2 DEF Turns, AtRest
<1>9. startPulse' => est' = "IDLE" /\ pc' = "din" /\ bus' = "idle"
  BY <1>2, <1>3, <1>4
<1>10. pc' \in Resting => AtRest'
  <2>1. ASSUME pc' \in Resting PROVE AtRest /\ ~start
    BY <1>1, <1>3, <2>1, DriverMoves DEF Turns, Resting, Sending
  <2> QED  BY <1>6, <2>1
<1>11. pc' \in Sending => est' = "RX" \/ startPulse'
  <2> SUFFICES ASSUME pc' \in Sending PROVE est' = "RX" \/ startPulse'
    OBVIOUS
  <2>1. CASE pc \in Sending /\ startPulse
    BY <1>1, <1>4, <2>1 DEF Turns
  <2>2. CASE pc \in Sending /\ ~startPulse
    <3>1. est = "RX" /\ RxEdge(InBeat)
      BY <1>1, <2>2, EngineMoves DEF Turns
    <3>2. CASE Writes("DATA_IN_CTRL")
      <4>1. Ack
        BY <3>1, <3>2 DEF Writes, Ack, Ready, SReady
      <4>2. /\ off + InKeep < SegLen \/ seg = "ad"
            /\ InBeat = Beat(SubSeq(datainR, 1, InKeep), IF seg = "ad" THEN 0 ELSE 1,
                             off + InKeep = SegLen)
        BY <1>1, <3>2, <4>1, BeatIsDriver, DriverMoves
      <4>3. off \in Nat /\ SegLen \in 0..255 /\ InKeep \in Nat
        BY <1>1, <3>2, BeatIsDriver, KeepTypes, Sizes DEF Sending
      <4>4. ~(InBeat.last /\ InBeat.user = 1)
        <5>1. /\ InBeat.last = (off + InKeep = SegLen)
              /\ InBeat.user = IF seg = "ad" THEN 0 ELSE 1
          BY <4>2 DEF Beat
        <5>2. CASE seg = "ad"
          BY <5>1, <5>2
        <5>3. CASE off + InKeep < SegLen
          <6>1. off + InKeep # SegLen
            BY <4>3, <5>3
          <6> QED  BY <5>1, <6>1, Zenon
        <5> QED  BY <4>2, <5>2, <5>3
      <4> QED  BY <3>1, <4>4 DEF RxEdge
    <3>3. CASE ~Writes("DATA_IN_CTRL")
      BY <3>1, <3>3, NoBeatNoEnd, RxNone
    <3> QED  BY <3>2, <3>3
  <2>3. CASE pc = "start" /\ bus = "pending" /\ Ack
    <3>1. access
      BY <2>3 DEF Ack
    <3>2. start
      BY <1>1, <2>3, <3>1, AccessIs, ControlIsDriver DEF Write32, Writes
    <3> QED  BY <1>2, <3>2
  <2> QED  BY <2>1, <2>2, <2>3, DriverMoves
<1>12. call' # None /\ pc' \notin Early => fresh'
  <2>1. CASE Started
    <3>1. pc = "start" /\ fresh' = (est' = "IDLE" /\ ~doneO')
      BY <2>1 DEF Started
    <3>2. AtRest
      BY <1>1, <3>1 DEF Turns, Resting, Sending, PCs
    <3> QED  BY <1>4, <1>5, <3>1, <3>2 DEF AtRest
  <2>2. CASE ~Started
    BY <1>1, <2>2, DriverMoves DEF Turns, Early
  <2> QED  BY <2>1, <2>2
<1> QED  BY <1>7, <1>8, <1>9, <1>10, <1>11, <1>12 DEF Turns

LEMMA TurnStep == MaxTimeouts = 0 /\ TurnInv /\ [Next]_vars => TurnInv'
<1> SUFFICES ASSUME MaxTimeouts = 0, TurnInv, [Next]_vars PROVE TurnInv'
  OBVIOUS
<1>1. PlaneInv'
  BY NextPlane DEF TurnInv
<1>2. CASE UNCHANGED vars
  <2>1. Turns' /\ timeouts' = 0
    BY <1>2 DEF TurnInv, Turns, AtRest, vars, hwVars, axisVars, engineVars, regVars, driverVars
  <2> QED  BY <1>1, <2>1 DEF TurnInv
<1>3. CASE Next
  BY <1>1, <1>3, NextTurns, DriverMoves DEF TurnInv
<1> QED  BY <1>2, <1>3

\* As long as no call gave up, the engine is receiving whenever a beat is on
\* the bus: writing START before the payload is enough to keep the bus from
\* ever stalling (firmware/ascon_accel/ascon_accel.c).
THEOREM NoBeatEverStalls == MaxTimeouts = 0 => (Spec => []BeatsNeverStall)
<1> SUFFICES ASSUME MaxTimeouts = 0 PROVE Spec => []BeatsNeverStall
  OBVIOUS
<1>1. TurnInv => BeatsNeverStall
  <2> SUFFICES ASSUME TurnInv, Writes("DATA_IN_CTRL") PROVE SReady
    BY DEF BeatsNeverStall
  <2>1. pc = "dinctl" /\ bus = "pending"
    BY BeatIsDriver DEF TurnInv, PlaneInv
  <2> QED  BY <2>1 DEF TurnInv, Turns, Sending, SReady
<1>2. TurnInv /\ [Next]_vars => TurnInv'
  BY TurnStep
<1> QED  BY <1>1, <1>2, InitTurns, PTL DEF Spec

\* As long as no call gave up, every call that returns has its own result, its
\* own tag and its own verdict, for any sequence of calls
\* (firmware/ascon_accel/ascon_accel.c, ascon_accel_encrypt and _decrypt).
THEOREM OwnResults == MaxTimeouts = 0 => (Spec => []OwnResult)
<1> SUFFICES ASSUME MaxTimeouts = 0 PROVE Spec => []OwnResult
  OBVIOUS
<1>1. FreshInv /\ TurnInv => OwnResult
  <2> SUFFICES ASSUME FreshInv, TurnInv, Answered, ret # "TIMEOUT" PROVE AnswerIsOwn
    BY DEF OwnResult
  <2>1. fresh
    BY DEF TurnInv, Turns, Answered, Early
  <2> QED  BY <2>1 DEF FreshInv, OwnResultIfFresh
<1>2. TurnInv /\ [Next]_vars => TurnInv'
  BY TurnStep
<1> QED  BY <1>1, <1>2, InitTurns, InitFresh, FreshStep, PTL DEF Spec

\* As long as no call gave up, DONE means that the whole result is in the
\* buffer and that the driver's reads begin at its first word
\* (rtl/soc/ascon_aead128_axis_mmio.v).
THEOREM DoneIsCollected == MaxTimeouts = 0 => (Spec => []DoneMeansCollected)
<1> SUFFICES ASSUME MaxTimeouts = 0 PROVE Spec => []DoneMeansCollected
  OBVIOUS
<1>1. FreshInv /\ TurnInv => DoneMeansCollected
  <2> SUFFICES ASSUME FreshInv, TurnInv, pc \in {"error", "tagv"}
               PROVE  /\ outw = call.msglen /\ outr = 0
                      /\ \A i \in 0 .. (call.msglen - 1) : outbuf[i] = OutByte(Ideal(call), i)
    BY DEF DoneMeansCollected
  <2>1. fresh
    <3>1. call # None
      BY MmioAssumption, EngineAssumption DEF TurnInv, PlaneInv, Positions
    <3> QED  BY <3>1 DEF TurnInv, Turns, Early
  <2>2. ReadsOwn
    BY <2>1 DEF FreshInv, LiveInv, LivePCs, Judged, OwnCall
  <2> QED  BY <2>2 DEF ReadsOwn, Judged, Rested, Answer, Collected
<1>2. TurnInv /\ [Next]_vars => TurnInv'
  BY TurnStep
<1> QED  BY <1>1, <1>2, InitTurns, InitFresh, FreshStep, PTL DEF Spec
=============================================================================
