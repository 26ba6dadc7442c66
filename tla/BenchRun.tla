------------------------------- MODULE BenchRun -------------------------------
(***************************************************************************)
(* The benchmark's host side: neorv32_upload.py, which waits for the       *)
(* bootloader's prompt, sends the image in chunks, waits for "OK", starts  *)
(* the program and logs what it prints for 45 seconds; ascon_bench.py,     *)
(* which captures or reads a log and draws the headline verdict.           *)
(*                                                                         *)
(* A read or write of the port may raise at any time (`faults` bounds how  *)
(* often): the port is reopened and the call is over, whether or not the   *)
(* bytes arrived.  A deadline may pass as soon as it is set.               *)
(*                                                                         *)
(* The bootloader and the processor are NEORV32's, not the repository's;   *)
(* they are modelled from what the tool expects of them.  The program      *)
(* prints a line for each case and a verdict.                              *)
(***************************************************************************)
EXTENDS Integers, Sequences, Functions

CONSTANTS
    Chunks,     \* how many writes of 256 bytes the image takes
    Cases,      \* how many cases the benchmark runs
    MaxFaults,  \* bound: how many port operations raise
    WireMax     \* bound: how many items the board prints ahead of the reader

ASSUME BenchAssumption == Chunks \in Nat \ {0} /\ Cases \in Nat \ {0} /\ MaxFaults \in Nat

VARIABLES
    boot,       \* the processor and what its bootloader holds
    wire,       \* what the board has printed and the host has not read
    up,         \* whether the port is open
    faults,     \* how many port operations may still raise
    host,       \* the host's command
    said        \* history: the CASE lines printed since the host listens for them

benchVars == <<boot, wire, up, faults, host, said>>

\* A case that was measured: right and faster, not right, not faster.
Measured == {"right", "wrong", "slow"}
Lines    == Measured \cup {"SW_ERR"}
Verdicts == {"PASS", "FAIL"}
Wires    == {"Bootloader", "CMD", "OK", "ERROR"} \cup Lines \cup Verdicts

Phases == {"idle", "nudge", "reset", "upload", "send", "ack", "execute", "log",
           "listen", "exited"}

NoHost == [phase |-> "idle", sent |-> 0, log |-> <<>>, early |-> FALSE, clean |-> TRUE,
           headline |-> "none"]

\* Keys that are not a part of the image, which are 1 .. Chunks.
Space   == 0
KeyU    == -1
KeyE    == -2

\* "off": the FPGA holds no SoC.  "bad": a byte of the image, or a case, went wrong.
Processor(st) == [st |-> st, got |-> 0, bad |-> FALSE, exe |-> FALSE, ran |-> 0]

BenchInit ==
    /\ boot = Processor("off") /\ wire = <<>> /\ up = FALSE
    /\ faults = MaxFaults /\ host = NoHost /\ said = <<>>

-----------------------------------------------------------------------------
(* The board.                                                              *)

\* What it prints is lost when nobody has the port open.
Hears(printed) == IF up THEN wire \o printed ELSE wire

Answers(b, printed) == boot' = b /\ wire' = Hears(printed)

\* The image is checked when its last byte is in.
LoadEnds(b) ==
    IF b.bad THEN Answers([b EXCEPT !.st = "halted"], <<"ERROR">>)
    ELSE Answers([b EXCEPT !.st = "prompt", !.exe = TRUE], <<"OK", "CMD">>)

TakesChunk(i) ==
    LET b == [boot EXCEPT !.got = @ + 1, !.bad = @ \/ i # boot.got + 1]
    IN IF b.got = Chunks THEN LoadEnds(b) ELSE Answers(b, <<>>)

Awaits == Processor("loading")

\* A byte that is not the image's, while it waits for the image.
TakesStray ==
    \/ Answers([boot EXCEPT !.bad = TRUE], <<>>)
    \/ LoadEnds([boot EXCEPT !.bad = TRUE])

Executes == Answers([boot EXCEPT !.st = "running", !.ran = 1], <<>>)

\* An image's bytes, read as commands.
TakesGarbage ==
    \/ Answers([boot EXCEPT !.st = "prompt"], <<"CMD">>)
    \/ Answers(Processor("countdown"), <<"Bootloader">>)
    \/ Answers([Awaits EXCEPT !.bad = TRUE], <<>>)
    \/ boot.exe /\ Executes

AtPrompt(key) ==
    CASE key = KeyU -> Answers(Awaits, <<>>)
      [] key = KeyE -> IF boot.exe THEN Executes ELSE Answers(boot, <<"ERROR", "CMD">>)
      [] OTHER      -> Answers(boot, <<"CMD">>)

\* Any key stops the countdown; once the program runs nobody reads.
Receives(key) ==
    LET image == key \in 1 .. Chunks
    IN CASE boot.st \in {"countdown", "prompt"} /\ image -> TakesGarbage
         [] boot.st = "countdown" /\ ~image -> Answers([boot EXCEPT !.st = "prompt"], <<"CMD">>)
         [] boot.st = "prompt" /\ ~image  -> AtPrompt(key)
         [] boot.st = "loading" /\ image  -> TakesChunk(key)
         [] boot.st = "loading" /\ ~image -> TakesStray
         [] OTHER -> UNCHANGED <<boot, wire>>

\* Nobody pressed a key: there is nothing to boot from.
AutobootFails ==
    /\ boot.st = "countdown"
    /\ boot' = [boot EXCEPT !.st = "halted"]
    /\ UNCHANGED <<wire, up, faults, host, said>>

PrintsCase ==
    /\ boot.st = "running" /\ boot.ran <= Cases /\ Len(wire) < WireMax
    /\ \E line \in Lines :
        /\ wire' = Hears(<<line>>)
        /\ said' = IF host.phase \in {"idle", "nudge", "exited"} THEN said ELSE Append(said, line)
        /\ boot' = [boot EXCEPT !.ran = @ + 1, !.bad = @ \/ line \in {"wrong", "SW_ERR"}]
    /\ UNCHANGED <<up, faults, host>>

PrintsVerdict ==
    /\ boot.st = "running" /\ boot.ran = Cases + 1 /\ Len(wire) < WireMax
    /\ wire' = Hears(<<IF boot.bad THEN "FAIL" ELSE "PASS">>)
    /\ boot' = [boot EXCEPT !.st = "done"]
    /\ UNCHANGED <<up, faults, host, said>>

BoardSteps == AutobootFails \/ PrintsCase \/ PrintsVerdict

\* The FPGA is configured, with the SoC or with something else.
Configured(soc) ==
    /\ boot' = Processor(IF soc THEN "countdown" ELSE "off")
    /\ wire' = IF soc THEN Hears(<<"Bootloader">>) ELSE wire

-----------------------------------------------------------------------------
(* The port.                                                               *)

\* The host's next state, after an operation that may have raised.
Then(h) == host' = IF up' = up THEN h ELSE [h EXCEPT !.clean = FALSE]

\* The bytes arrive, or the write raises before or after, or there is no port.
Write(key) ==
    \/ up /\ Receives(key) /\ UNCHANGED <<up, faults>>
    \/ /\ up /\ faults > 0
       /\ Receives(key) \/ UNCHANGED <<boot, wire>>
       /\ up' = FALSE /\ faults' = faults - 1
    \/ ~up /\ UNCHANGED <<boot, wire, up, faults>>

\* What arrived while the port was closed is gone.
Reopen ==
    /\ host.phase \notin {"idle", "exited"} /\ ~up
    /\ up' = TRUE /\ wire' = <<>>
    /\ UNCHANGED <<boot, faults, host, said>>

Has(chunk, text) == \E i \in 1 .. Len(chunk) : chunk[i] = text

\* The items of a sequence that are in a set: SelectSeq, as a function of how much
\* of the sequence has been looked at.
Only(seq, set) ==
    LET upTo[i \in 0 .. Len(seq)] ==
            IF i = 0 THEN <<>>
            ELSE IF seq[i] \in set THEN Append(upTo[i - 1], seq[i]) ELSE upTo[i - 1]
    IN  upTo[Len(seq)]

CaseLines(chunk) == Only(chunk, Lines)

Emit(h, chunk) == [h EXCEPT !.log = @ \o CaseLines(chunk),
                            !.early = @ \/ (h.phase = "nudge" /\ CaseLines(chunk) # <<>>)]

-----------------------------------------------------------------------------
(* ascon_bench.py report.  Only a measured line is a case.                 *)
ParseLog(log) == Only(log, Measured)

\* Mutant: a log without a case passes.
M_Passed(cases) == \A i \in 1 .. Len(cases) : cases[i] = "right"

Passed(cases) == cases # <<>> /\ \A i \in 1 .. Len(cases) : cases[i] = "right"

Headline(log) == IF Passed(ParseLog(log)) THEN "PASS" ELSE "FAIL"

Exits(h) == [h EXCEPT !.phase = "exited"]

Reports(h) == [Exits(h) EXCEPT !.headline = Headline(h.log)]

\* The port is closed when the program ends.
ClosesAtExit == up' = (up /\ host'.phase # "exited")

-----------------------------------------------------------------------------
(* neorv32_upload.py.                                                      *)

\* `how` is "nudge" for bench-run and "listen" for bench-host.
OpensPort(how) ==
    /\ host.phase = "idle"
    /\ \/ host' = [NoHost EXCEPT !.phase = how] /\ up' = TRUE
       \/ host' = Exits(NoHost) /\ UNCHANGED up
    /\ said' = <<>>
    /\ UNCHANGED <<boot, wire, faults>>

Nudge ==
    /\ host.phase = "nudge" /\ Len(wire) < WireMax
    /\ Write(Space) /\ Then(host)
    /\ UNCHANGED said

\* What the loop it reads in does with a chunk.
AfterRead(h, chunk) ==
    CASE h.phase = "nudge" /\ (Has(chunk, "CMD") \/ Has(chunk, "Bootloader")) -> "reset"
      [] h.phase = "ack" /\ Has(chunk, "OK") -> "execute"
      [] OTHER -> h.phase

Reading == host.phase \in {"nudge", "ack", "log"} \/ (host.phase = "send" /\ host.sent = 0)

Read ==
    /\ Reading /\ up
    /\ \E n \in 1 .. Len(wire) :
        LET chunk == SubSeq(wire, 1, n)
        IN /\ host' = [Emit(host, chunk) EXCEPT !.phase = AfterRead(host, chunk)]
           /\ wire' = SubSeq(wire, n + 1, Len(wire))
    /\ UNCHANGED <<boot, up, faults, said>>

\* A line that is cut by the loss goes on with the next one: any line may come of it.
ReadRaises ==
    /\ Reading /\ up /\ faults > 0
    /\ up' = FALSE /\ faults' = faults - 1
    /\ \/ Then(host)
       \/ \E line \in Lines : CaseLines(wire) # <<>> /\ Then(Emit(host, <<line>>))
    /\ UNCHANGED <<boot, wire, said>>

\* What raises here is swallowed: nothing is flushed and the port is not reopened.
ResetInput ==
    /\ host.phase = "reset"
    /\ \/ up /\ wire' = <<>> /\ UNCHANGED faults
       \/ up /\ faults > 0 /\ faults' = faults - 1 /\ UNCHANGED wire
       \/ ~up /\ UNCHANGED <<wire, faults>>
    /\ said' = <<>>
    /\ host' = [host EXCEPT !.phase = "upload"]
    /\ UNCHANGED <<boot, up>>

Upload ==
    /\ host.phase = "upload"
    /\ Write(KeyU) /\ Then([host EXCEPT !.phase = "send"])
    /\ UNCHANGED said

\* Mutant: one chunk more than the image has.
M_SendChunk ==
    /\ host.phase = "send" /\ host.sent <= Chunks
    /\ Write(host.sent + 1) /\ Then([host EXCEPT !.sent = @ + 1])
    /\ UNCHANGED said

SendChunk ==
    /\ host.phase = "send" /\ host.sent < Chunks
    /\ Write(host.sent + 1) /\ Then([host EXCEPT !.sent = @ + 1])
    /\ UNCHANGED said

ImageSent ==
    /\ host.phase = "send" /\ host.sent >= Chunks
    /\ host' = [host EXCEPT !.phase = "ack"]
    /\ UNCHANGED <<boot, wire, up, faults, said>>

Execute ==
    /\ host.phase = "execute"
    /\ Write(KeyE) /\ Then([host EXCEPT !.phase = "log"])
    /\ UNCHANGED said

\* Mutant: "OK" is waited for as long as it takes.
M_AfterDeadline(h) ==
    CASE h.phase = "nudge" -> Exits(h)
      [] h.phase = "log"   -> Reports(h)
      [] OTHER             -> h

\* Whatever the loop waits for: 90, 10 and 45 seconds.
AfterDeadline(h) ==
    CASE h.phase = "nudge" -> Exits(h)
      [] h.phase = "ack"   -> [h EXCEPT !.phase = "execute"]
      [] h.phase = "log"   -> Reports(h)
      [] OTHER             -> h

Deadline ==
    /\ host.phase \in {"nudge", "ack", "log"}
    /\ host' = AfterDeadline(host) /\ ClosesAtExit
    /\ UNCHANGED <<boot, wire, faults, said>>

HostReturns ==
    /\ host.phase = "exited"
    /\ host' = NoHost /\ wire' = <<>> /\ said' = <<>>
    /\ UNCHANGED <<boot, up, faults>>

-----------------------------------------------------------------------------
(* ascon_bench.py capture: line after line, until a verdict or a silence.  *)
ReadLine ==
    /\ host.phase = "listen" /\ wire # <<>>
    /\ LET h == Emit(host, <<Head(wire)>>)
       IN host' = IF Head(wire) \in Verdicts THEN Reports(h) ELSE h
    /\ wire' = Tail(wire) /\ ClosesAtExit
    /\ UNCHANGED <<boot, faults, said>>

Silence ==
    /\ host.phase = "listen" /\ wire = <<>>
    /\ host' = Reports(host) /\ ClosesAtExit
    /\ UNCHANGED <<boot, wire, faults, said>>

\* Nothing catches it here.
ReadLineRaises ==
    /\ host.phase = "listen" /\ faults > 0
    /\ host' = Exits(host) /\ faults' = faults - 1 /\ ClosesAtExit
    /\ UNCHANGED <<boot, wire, said>>

HostMoves == ResetInput \/ Upload \/ SendChunk \/ ImageSent \/ Execute \/ HostReturns
             \/ ReadLine \/ Silence

HostMay == Nudge \/ Read \/ ReadRaises \/ ReadLineRaises \/ Reopen

-----------------------------------------------------------------------------
BenchTypeOK ==
    /\ boot.st \in {"off", "countdown", "prompt", "loading", "running", "done", "halted"}
    /\ boot.got \in 0 .. Chunks /\ boot.ran \in 0 .. Cases + 1
    /\ Range(wire) \subseteq Wires /\ up \in BOOLEAN /\ faults \in 0 .. MaxFaults
    /\ host.phase \in Phases /\ host.sent \in 0 .. Chunks /\ Range(host.log) \subseteq Lines
    /\ host.headline \in {"none"} \cup Verdicts /\ Range(said) \subseteq Lines

\* The lines the board printed for this command that the host has read.
Heard == SubSeq(said, 1, Len(said) - Len(CaseLines(wire)))

(* A headline that says PASS was earned on the board: whatever was lost on *)
(* the way, a whole image was executed since the board was last            *)
(* configured; and when no operation on the port raised, the board had     *)
(* printed a case that is right and faster, and none that is not, before   *)
(* the log was closed (neorv32_upload.py, ascon_bench.py).  A log that     *)
(* opens with the lines of an older program is left out: they count, and   *)
(* should not.                                                             *)
HeadlineEarned ==
    host.headline = "PASS" /\ ~host.early =>
        /\ boot.ran > 0
        /\ host.clean => Range(Heard) \cap Measured = {"right"}
=============================================================================
