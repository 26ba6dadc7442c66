# Verification of pyrilascon

TLA+ models of the ASCON accelerator's RTL, of the driver code that operates it,
of the cores and testbenches the design-space generator emits, and of the tools
that verify, build, flash and run them; checked with TLC, with proofs checked by
TLAPS. Paths are relative to the
repository root.

## 1. The system

| Part | Where | State it keeps | Operations |
|---|---|---|---|
| Golden model | `ascon_hwmodel/aead_*.py` and helpers | none (pure) | encrypt, decrypt |
| Iterative permutation | `rtl/generated/accel/ascon_perm_iter_r1.v`, emitted by `generator/permutation.py` for any R rounds per cycle | `running`, `idx`, `s`, `state_o`, `valid_o` | start, R rounds per edge, deliver |
| AEAD core | `ascon_aead128_core.v`, `generator/aead.py` | state register, sponge `s`, offsets, `out_r`, `tag_o`, `valid_o`, `done_o` | one edge in each of 12 states |
| Stream engine | `ascon_aead128_axis.v`, `generator/axis.py` | state register, latched parameters, `adbuf`, `msgbuf`, `outbuf`, positions | receive beats, run the core, send beats |
| SLINK shim | `rtl/soc/ascon_slink_shim.v` | phase, two lengths, byte counter | turn a word stream into tagged beats |
| SLINK registers | `rtl/soc/ascon_aead128_slink_mmio.v` | parameters, tag, BUSY/DONE/TAGV/ERR, cycle counters | register writes, `eng_done` bookkeeping |
| SLINK driver | `firmware/ascon_slink/ascon_slink.c` | stack buffers, DMA descriptor | encrypt, decrypt |
| MMIO register file | `ascon_aead128_axis_mmio.v` | as above, plus a word of input and the whole output | register reads and writes, one stalls |
| Bus adapters | `rtl/soc/ascon_aead128_wb.v`, `ascon_aead128_slink_wb.v` | `access` | capture a strobe, hold the access, acknowledge |
| MMIO driver | `firmware/ascon_accel/*` | device handle, transports | encrypt, decrypt, hash/XOF, capabilities |
| Round of the permutation | `ascon_hwmodel/{pc,ps,pl,round,perm}.py`, emitted as `rtl/generated/ascon_model.vh` | none (pure) | constant, S-box, linear layer; the same as Verilog functions |
| Hash/XOF core | `generator/hash256.py` | `st`, `perm_ret`, sponge, offsets, digest | absorb, pad, permute, squeeze |
| Serial and microcoded permutations | `generator/serial.py`, `control.py` | phase, column, bit and round counters; program counter | one chunk, column, bit or micro-instruction per edge |
| Pipelined permutation and multi-context wrapper | `generator/permutation.py`, `structural.py` | `stage`, `vld`, `ctx_stage` per lane | shift |
| Testbenches and verification driver | `generator/verify.py`, `smoke.py`, `__main__.py` and the testbenches the generators emit | trial, error count, expected queue; process exit code | emit, compile, simulate, judge |
| Design space | `ascon_designspace/*.py` | none | enumerate, filter, resolve and tier configurations, print the ledger |
| Board flow | `ascon_boards/*.py` | files in the build directory, the board's SRAM and SPI flash | emit, synth, pnr, pack, load |
| Host tools | `host/*.py` | serial link, log | upload, run, capture, draw the verdict |

How they interact:

SLINK plane:

    application --call--> driver --register access--> registers --start pulse--> engine --start--> core
                            |                                                      ^  |               |
                            +--DMA--> SLINK TX FIFO --> shim --beats---------------+  |        permutation
                            +--DMA<-- SLINK RX FIFO <--------------beats--------------+

MMIO plane, where payload and result take the same way as the registers:

    application --call--> driver --one access at a time--> XBUS --> adapter --> register file --> engine

Generation and verification, one process that runs others:

    command line --emit--> core.v + tb.v --iverilog--> simulation --PASS/FAIL line--> exit code
                              \--(smoke top)--> board flow: synth > pnr > pack > load --> FPGA, SPI flash

Bring-up, three machines on a wire:

    upload tool --chunks--> bootloader --> program --CASE lines--> log --> headline verdict

Everything in hardware moves at every clock edge and reads its neighbours' old
values; the driver and the DMA share one bus. What is hard to test is therefore
where two state machines meet: pulses one cycle long, status held from the
operation before, two counters that must agree without talking to each other,
full and empty FIFOs, block and word boundaries, and calls that give up while
the hardware goes on. PROJECT.json lists these places line by line.

## 2. The modules

| Module | Models | Kind |
|---|---|---|
| `AeadGolden` | the golden model as operators on requests | pure |
| `CoreContract` | what the core promises its wrapper | abstract specification |
| `AeadCore` | AEAD core and permutation, edge by edge | implements `CoreContract` |
| `AxisEngine` | the stream engine's registers and one edge of them, on top of `CoreContract` | component without an environment |
| `StreamSystem` | `AxisEngine` between a stream master and a stream slave | composition |
| `SlinkPlane` | `AxisEngine`, shim, registers, FIFOs, DMA and `run()` | composition |
| `MmioPlane` | `AxisEngine`, register file, bus adapter, XBUS and the `ascon_accel` driver | composition |
| `PermGolden` | the round bit by bit, as Python computes it and as the Verilog functions do | pure |
| `PermContract` | what a permutation core with start and valid promises | abstract specification |
| `PermCores` | iterative, column-serial, bit-serial and microcoded core, their common testbench and the smoke top | implements `PermContract` |
| `PermPipe` | the pipelined permutation, one lane or several, with context tags, and its testbenches | component with its testbench |
| `HashCore` | Hash256, XOF128, CXOF128 (and HashA, XOFA) on top of `PermContract`, with their testbench | component with its testbench |
| `Verify` | the generator's command line and verification driver around all of these | composition |
| `Catalogue` | the grid of design points, the rules, the tiers and the ledger | tool |
| `BoardFlow` | the commands of `ascon_boards`, the files they leave and what they put on the board | tool |
| `BenchRun` | upload, capture and verdict, the bootloader and the benchmark at the other end | tool with its environment |
| `BringUp` | the Makefile's commands on one board: `Catalogue`, `BoardFlow` and `BenchRun` | composition |
| `AeadCoreProofs` | types, permutations, results and refinement of `AeadCore` | proofs |
| `AxisEngineProofs` | the engine's invariant, shared by the three systems around it | lemmas |
| `StreamSystemProofs` | theorems about `StreamSystem` | proofs |
| `VerifyProofs` | theorems about `PermGolden`, `PermPipe`, `PermCores` and `Verify` | proofs |
| `HashCoreProofs` | theorems about `HashCore` | proofs |
| `SlinkPlaneProofs` | theorems about `SlinkPlane` | proofs |
| `MmioPlaneProofs` | theorems about `MmioPlane` | proofs |
| `BringUpProofs` | theorems about `BringUp` and its three parts | proofs |
| `MC*` | constants of the runs | |

**The sponge state is a transcript.** 320 bits of cryptographic state are kept
as the sequence of operations applied to them: load, key, absorb a block (by the
offset and number of its bytes), permute (by the round constants used), squeeze.
`HashCore` does the same; `PermPipe` names a beat by its place in its lane's input
and the constants applied to it. Two states are equal if their transcripts are.
What this hides is the algebra of one round, which is what `PermGolden` and `PermCores` are about; what it keeps
is which bytes went in, when, in which order and after how many rounds, the part
that the control logic is responsible for.

**Bits where bits matter.** The serial cores rewrite the state piece by piece, so
`PermCores` computes on the real 320 bits. A word is the set of its one bits, which
makes xor symmetric difference and keeps TLC fast; `PermGolden` has the round twice,
table and five words as in Python, logic functions on one vector as in the Verilog,
and the cores (which use the second) are compared with the first.

**Payload bytes name themselves.** In the engine and the planes a byte is
(operation, segment, index), a cleared byte is `Zero`, and the result of the core
is named by the inputs it saw. An answer is right when it is `Ideal(job)`: the
result on exactly that job's payload. A byte that is lost, repeated, stale or
padding shows as a different name.

**One step is one clock edge.** `AeadCore` and `StreamSystem` move all registers
at once. In `SlinkPlane` every step is `HwEdge` (engine, core, shim, registers,
FIFOs) combined with at most one bus access, of the driver or of the DMA. `Tick`
is an edge with none, so driver and DMA may be as slow as they like. In `PermCores`
and `PermPipe` a step is a falling edge, where the testbench looks and drives,
with the rising edge after it. `MmioPlane`
goes one level deeper: an access is a strobe, a number of waiting edges and an
acknowledge (`Issue`, `Strobe`, `Stall`, `Acked`), because there an access can
stall, and each driver action is the edge at which its access is acknowledged.

**Images are named by their sources.** In `BoardFlow` a file or a memory holds the
version of the model its top and its header were emitted from; that is what a stale
file differs in. The synthesis tools, the loader, the bootloader and the processor
are external: each works or fails, and says so.

State and code correspond by name: `est` is the `st` of the axis module, `sst`
that of the shim, `doneR`/`busyR`/`tagvR`/`errR` the `*_r` registers, `doneO` and
`validO` the engine's `done_o` and `valid_o`; `outw`/`outr` are `out_wpos` and
`out_rpos`; `pc` is where the driver is. `fresh` is a history variable: at its START, this call found everything at rest.

### External parts

DMA, SLINK FIFOs and bus are NEORV32's and are not in this repository. They are
modelled as the driver and its comments use them: a write to a full TX FIFO is
lost, a read of an empty RX FIFO returns something, the DMA makes one access at a
time in order. Whether `neorv32_slink_setup` empties the FIFOs is not known from
this repository, so it is the constant `SetupFlushes`. The XBUS is modelled as
the comment of `ascon_aead128_wb.v` says: it strobes for one cycle and looks at the
acknowledge in the cycles after it, for as long as it takes. `iverilog`, `vvp`,
`yosys`, `nextpnr`, `gowin_pack` and `openFPGALoader` are processes with an exit code.

## 3. The runs

| Run | Instance | Shows |
|---|---|---|
| `aead_core` | Rate 2, R = 5, lengths 0..4 each, three kinds of request | every result is the golden result, the permutation handshake never breaks, and the core implements `CoreContract` with its fairness |
| `stream` | beats of 2 bytes, lengths 0..3, two names | the engine answers with this job's result, sends it once and framed exactly, holds its inputs while the core works, and always finishes |
| `slink` | the same, TX FIFO of 2 words, RX of 2, FIFOs never flushed | calls in any order each get their own result and leave nothing behind; no word is lost; shim and engine agree at every edge; every call returns |
| `slink_timeout` | one call may give up at any wait | a later call is right whenever its START found the plane at rest |
| `mmio` | beats of 2 bytes, fourteen calls with lengths 0..3, two names | calls in any order each get their own result; no beat stalls the bus; every access takes effect once; DONE means that the result is in the buffer; every call returns |
| `mmio_timeout` | six calls, one may give up waiting | a later call is right whenever its START found the engine at rest |
| `verify` | six permutation cores and the smoke top, three pipelines, three hash cores; see below | every core computes what the golden model does in the documented time, labels stay in step, the verdict counts every vector, every verification ends, and the start/valid cores implement `PermContract` |
| `bringup` | two versions of the model, image of two writes, two cases, one port fault, four commands | a flash that worked flashed its own sources, a headline PASS was earned by a whole image executed since the board was last configured, the ledger is the one of the documents that know of the bit-serial core, every command returns |
| `mmio_retry` | as `mmio_timeout` | **violated**: after a timeout a beat stalls the bus although START came first |
| `stream_unverified` | as `stream` | **violated**: plaintext leaves before the verdict |
| `slink_retry` | as `slink_timeout` | **violated**: a call after a timeout streams into an engine that does not receive |
| `xof_long` | XOF128 of twelve words | **violated**: the core never finishes |

Why these bounds are enough: Rate 2 with lengths 0..4 has every case of the
block loops (none, partial, full, full and partial, two full), and R = 5 divides
neither 8 nor 12, so that the last cycle of each permutation is a guarded,
partial one. Beats of 2 bytes with lengths 0..3 have the empty, partial, full and
full-and-partial segment. Two names tell a stale byte or result from the right
one. The TX FIFO is made smaller than the payload so that back-pressure occurs.

The calls of `mmio` take part of the pairs of lengths, because every stale byte of
the output buffer, which nothing clears, is part of the state; they include the
empty, partial, full and full-and-partial segment and both directions. One
timeout is enough to leave the engine in each of its states for the call after.

In `verify` the iterative core has R = 5 (divides no round count) and R = 8, the
column-serial one K = 1 and K = 32, the ends of what it is generated for; the
vectors are one with all 32 S-box inputs side by side and one with bits at the
word boundaries, where a rotation or a packing that is off by one shows. The
pipelines are six, eight and twelve stages deep, with one lane and two, one context
and several; any pattern of gaps may enter them in six cycles, which is more than the
testbenches, which never leave one, can show. A hash message or customization has
up to five bytes in blocks of two: empty, partial, full, and two full ones with
more. One hash core squeezes as many words as its state register has room for.

In `bringup` four commands reach a build, an edit, a second flash that fails on the
way, and the upload after it, or two uploads with a power cycle between. One port
operation that raises can lose any one write or read; the wire holds three items,
so that the board can be ahead of the reader.

Deadlock is checked in every run but `bringup`, where the system rests when the
commands are used up; elsewhere a clock edge, or the end that has been reached, is
always possible.

Fairness. The clock does not stop (`Busy` in `AeadCore`, `Internal`, `Tick`); the
core finishes what it accepted (`CoreFinishes`), which is not an assumption of
the code but what run `aead_core` shows of `AeadCore` (`ImplementsContract`
includes `CoreContract`'s fairness). The CPU and the DMA go on. `stream` needs
that master and slave do not pause for ever, as any stream does. In `verify` the
driver goes on and a simulation advances its clock (`VerifyFairness`): `vvp` has no
time limit, so a core that never finishes is a verification that never ends, which
`VerificationEnds` would show and `xof_long` does. In `bringup` a tool ends, one way
or the other, and the host program and its clock run on (`BringUpFairness`); the
board need not answer and nobody needs to press a key.

### Findings

1. *Unverified plaintext.* `ascon_hwmodel/aead_stream.py:214-216` states the
   hardware policy "buffer-until-verify for decrypt, never expose unauthenticated
   plaintext". `ascon_aead128_axis.v:112-118` captures `valid_o` and goes on to
   S_TX whatever it is. On the SLINK plane the beats also reach the caller's
   buffer (`ascon_slink.c:188-196`) before TAG_INVALID is returned.
2. *A call after a timeout.* `run()` returns from a timed-out wait without
   bringing anything to rest, and CLEAR resets registers only. The START of the
   next call is dropped by an engine that is busy and taken by a shim that is
   idle. From there on the words of one operation can be absorbed by another and
   `run()` can return OK with another call's result. `OwnResultIfFresh` shows the
   other side: a START that finds the plane at rest is enough.
3. *The same on the MMIO plane.* `ascon_accel.c:58-61` writes START first so that
   no DATA_IN_CTRL write stalls and times out the bus. After a call that gave up
   waiting, the `ascon_accel_reset` of the next one clears registers but not the
   engine; a busy engine drops the START and the first beat waits for an engine
   that nobody can start any more. The stall mostly keeps the next call from
   returning a wrong answer. It does not where START is written in the cycle in
   which the old operation ends: the engine takes it, and the old `done_o` sets
   DONE after START has cleared it, so that the new call reads the old answer.
   `OwnResultIfFresh` again excludes just that.

4. *A long XOF.* `generator/hash256.py:6` calls the output length of XOF128 a
   generation parameter and `emit_xof128_core` takes any. The squeeze states are
   numbered from 5 and `st` is four bits wide (line 77), so the state that squeezes
   the twelfth word is written `4'd16`, which is S_IDLE: the core stops without
   `done_o`, its testbench waits for it, and the simulation runs for ever.

A remark on the ledger, whose documents disagree. `CatalogueAsDocumented` holds, and is
what `README.md:69-70` and `179-180` and `docs/ARCHITECTURE.md:60-61` and `88-89` say:
134 generated points, none planned. `README.md:171-172` says "118 of 560 `GENERATED`; only
bit-serial remains", `README.md:51-52` calls bit-serial "the one deferred generator
family", and `realize.py:149-151` and `194` the remaining increment: that is the ledger
of before `bit_serial` became one of `GENERATED_PERMUTATION_PROFILES`
(`generator/__init__.py:58-60`). The 16 bit-serial points, four KAT-backed
algorithms on four datapaths, are the difference between 118 and 134, and the note
of `realize.py:194` is never given. Those lines are stale and the code does not
follow them.

A remark on `docs/AXI_STREAM_DATA_PLANE.md:118-123`, which asks for a TX FIFO as
deep as the largest payload: `NoWordLost` holds with a FIFO of two words and a
payload of four, because START precedes the payload, the engine takes a word at
every edge and the DMA needs at least one edge per word. With one word it fails.
`NoWordIsLost` proves the first for payloads
of any length. The documented depth is what a payload written before START would need.

## 4. The proofs

### AEAD core

`AeadCoreProofs` proves, for every `Rate`, every `R` in 1..12 and every set of
requests that `CoreAssumption` allows:

| Theorem | Property |
|---|---|
| `TypeCorrect` | `[]TypeOK` |
| `HandshakeHolds` | `[]PermHandshake` |
| `PermutationsWhole` | `[]PermIsWhole` |
| `BlocksStayInBounds` | `[]BlocksInBounds` |
| `ResultsGolden` | `[]ResultIsGolden` |
| `RefinesContract` | `Contract!Init /\ [][Contract!Next]_(Contract!vars)` |

`PermIsWhole` is not inductive: it speaks of the moment a permutation is
delivered. `PermProgress` strengthens it: while the permutation runs, `ps` holds
the state the core handed over and the rounds from the start index up to `idx`.
Then the last cycle, whose guard cuts off rounds past constant 15, delivers
exactly the rounds asked for, whatever the remainder of 12 or 8 by R. `IInv`
joins this with the types, the handshake and the block bounds; `Invariance` is
proved from one lemma per part of the machine.

`ResultIsGolden` speaks of a finished request only. `ResultInv` says it of every
edge: the sponge's transcript is a *prefix* of the golden one, and the state
register and the two offsets say which (`SpongeInStep`). During a permutation the
register is not such a prefix, so `Owed` stands for what it will be when the
permutation is back, and `Where` for the state that then goes on; `PermProgress`
is what makes the two agree at its end. A step of the machine is then one more
operation of the transcript, by lemmas about what a prefix of the golden loops is
followed by; offsets are whole blocks (`OffsetsAligned`), which is why the last,
padded block is told from a full one. `OutputsSoFar` is the same for the output
blocks.

`RefinesContract` is the safety part of `ImplementsContract`: a start is the
contract's start, the last edge is its end with the golden result, and every
other edge stutters. The contract's fairness is left to run `aead_core`.

The proofs treat `adoff` and `msgoff` as naturals. In the RTL they are 8 bits
wide; `BlocksInBounds` (offset at most the 8-bit length) is what makes that the
same.

### Stream engine

`AxisEngineProofs` is about the engine alone, whatever drives its stream, for every
beat size, every buffer size and every set of jobs that `EngineAssumption` allows
(positions and lengths fit eight bits, there is a name). Its invariant has two
levels. `EngineSound` is preserved by any bytes at all: the types, and that a busy
core works on exactly the inputs it is shown (`CorePhases`). `EngineOwn` is
preserved when the stream offers the payload of the accepted job in order
(`PayloadBeat`): the buffers hold a prefix of the payload, as long as the
positions say (`Received`, which `AdExtends` and `MsgExtends` carry over a beat of
any size), and what the core ends with is `Ideal(job)` (`OwnAnswer`). The
second level is what each system around the engine has to earn.

`StreamSystemProofs` earns it from a master that sends the payload of the accepted job:

| Theorem | Property |
|---|---|
| `TypeCorrect` | `[]TypeOK` |
| `CoreOwned` | `[]CoreOwnedByJob` |
| `OwnResults` | `[]ResultIsOurs` |
| `ExactOutput` | `[]OutputIsExact` |
| `InputsHeld` | `InputsHeldWhileBusy`, an action property |

None of these is inductive: they speak of the end of a job and say nothing about
the way there. `Sent` adds that the beats sent so far are full and in order, and
`BeatsNeeded` counts them at the last one. Run `stream` checks the same
invariant's consequences on its instance. `InputsHeld` then needs only that the
core is active in BUSY and WAIT alone.

### The two data planes

`SlinkPlaneProofs` and `MmioPlaneProofs` prove, for every beat, buffer and FIFO size
and every set of calls:

| Theorem | Property | Assuming |
|---|---|---|
| `TypeCorrect` (SLINK) | `[]TypeOK` | nothing |
| `ShimStaysInStep` | `[]ShimInStep` | no call gives up |
| `ReadyForEveryBeat` | `[]ReadyBeforeBeats` | no call gives up |
| `FreshOwnResult` (SLINK) | `[]OwnResultIfFresh` | `TxDepth > 1` |
| `NoWordIsLost` | `[]NoWordLost` | no call gives up, `TxDepth > 1` |
| `OwnResults` (SLINK) | `[]OwnResult` | the same, and `SetupFlushes` or `AllCollected` |
| `NothingIsLeft` | `[]NothingLeftBehind` | the same, and `AllCollected` |
| `TypeCorrect` (MMIO) | `[]TypeOK` | nothing |
| `AcksAreSampled` | `[]AckIsSampled` | nothing |
| `FreshOwnResult` (MMIO) | `[]OwnResultIfFresh` | nothing |
| `NoBeatEverStalls` | `[]BeatsNeverStall` | no call gives up |
| `OwnResults` (MMIO) | `[]OwnResult` | no call gives up |
| `DoneIsCollected` | `[]DoneMeansCollected` | no call gives up |

*The hypotheses.* "No call gives up" is `MaxTimeouts = 0`, as in runs `slink` and
`mmio`; `slink_retry` and `mmio_retry` show that `ReadyForEveryBeat` and
`NoBeatEverStalls` fail without it, and findings 2 and 3 that the two `OwnResults` do.
`AllCollected` says that a call which gets a result passes a buffer for it: the
driver (`ascon_slink.c:188`) leaves the result in the RX FIFO when `out` is null,
where the next call would find it, unless `neorv32_slink_setup` empties the FIFOs
(`SetupFlushes`). Run `slink` is an instance with `AllCollected` and no flush.
`TxDepth > 1` is in place of the sixteen words that
`docs/AXI_STREAM_DATA_PLANE.md` asks for, see the remark above.

*Turns.* Without timeouts the argument why driver and hardware do not meet out of
turn is the same on both planes (`Turns`): DONE is seen only when the engine is at
rest, the driver goes on to another START only after it has seen DONE, CLEAR and
START take DONE down, and the start pulse is over before a beat can arrive. On the
SLINK plane `EdgeInStep` then follows shim and engine through one edge, whose
counters agree because both are eight bits wide and neither passes the segment's
length. On the MMIO plane `BusInv` adds that the access on the bus is the one the
driver is at, so that the beat that ends the message is the one after which the
driver sends none.

*A fresh call.* What a call gets back is proved for one call at a time, from its
START to its return, on the condition that START found everything at rest. Calls that
gave up before may have left any rubbish; `PlaneInv`, which any step preserves, is
all that is known of it. `FreshInv` then says where the call is.

- On the MMIO plane driver and engine are at the same byte (`InStep`), so that
  each beat is a `PayloadBeat`; while the driver waits, the output buffer
  holds as many bytes of the answer as the engine has sent (`AtWork`); after DONE
  it holds all of them and the driver's copy is a prefix (`ReadsOwn`).
- On the SLINK plane `Flow` counts words: the shim has pulled n, the DMA has written
  m, and what is in the TX FIFO, at most one word, is the difference (`Stored`).
  That the shim pulls at every edge is why a FIFO of two words never fills
  (`HasRoom`). The shim's registers follow from n (`Pulled`), so the beat it offers
  is a `PayloadBeat`, keep bits included. `Collects` is the same on the way
  back: the engine has sent r result words, the DMA has fetched c, and the RX FIFO
  holds the words between. If the result does not fit the RX FIFO the engine waits
  and DONE does not come; that is a matter of liveness.

*All calls.* If no call gives up, every call is fresh: the last access of a call
leaves everything at rest (`Rest`, `AtRest`), and `OwnResults` follows from
`FreshOwnResult`. `NothingIsLeft` is that rest itself.

The assumptions on constants that these proofs made explicit: there is a name
(`Ids # {}`), no call is `None`, and only a decryption can have a
tag that is not genuine (`tagok` is FALSE for encryptions, which pass none).

### Hash cores

`HashCoreProofs` proves, for every block size, every set of variants, lengths and
vectors that `HashAssumption` allows, and any latency of the permutation below:

| Theorem | Property |
|---|---|
| `DigestsGolden` | `[]DigestIsGolden` |
| `HashTypeCorrect` | `[]HashTypeOK`, part of the types of `Verify` |
| `HashBenchPasses` | `[]NoMismatch`: the testbench counts no mismatch and ends after the last vector |

`DigestIsGolden` speaks of a finished hash only. `HashInv` has the argument of
`ResultInv` for this machine: at every edge the register holds a prefix of the
golden transcript, in a loop over a segment as many blocks as the offset has
(`LoopInStep`), in a squeeze state as many words as the state's number says
(`SqueezeInStep`). While a permutation is under way `Owed` is the register with it
applied and `Where` the state that takes it up; `Shake` is the handshake with
`PermContract`, in which the answer may take any number of edges and must be for
what was asked. `Busy` has what the states take from each other: `perm_rounds`
stays at p12 in the CXOF core, and the message's offset at 0 until its loop begins.
The states are the numbers of the emitted localparams (`HashCodes`,
`CxofCodes`), so that an encoding that names two states would break the proof.

One does: the theorems assume `SqueezeFits`, at most 11 output words, 23 for
CXOF128, beyond which finding 4 begins. The generator's own designs have four
(`hash256.py:142`), and run `verify` has a variant with eleven. The contract's "no
answer" must not be a sponge state (`HashAssumption`). They are theorems of
`HashSpec`, the core with its testbench; `VerifiedDigests` below carries the first
over to `Verify`.

### Permutations, pipelines and the driver

`VerifyProofs` is about four modules. For every depth up to sixteen, every number of
lanes and contexts, every length of the run and every pattern of gaps, every chunk
that divides 64, every `R` in 1..12 and every set of vectors:

| Theorem | Property | Of |
|---|---|---|
| `LabelsStayInStep` | `[]LabelsInStep` | `PipeSpec` |
| `EveryVectorIsChecked` | `[]EveryVectorChecked` | `PipeSpec` |
| `LatencyDocumented` | `[]LatencyAsDocumented` | `PermSpec` |
| `SboxLayersAgree` | the S-box formulas are the S-box table, for every state | `PermGolden` |
| `EmittedPermIsGolden` | the emitted `ascon_p6/p8/p12` are the golden permutation of every vector | `PermGolden` |
| `PermResultsGolden` | `[]PermResultIsGolden` | `PermSpec` |
| `PermTypeCorrect` | `[]PermTypeOK` | `PermSpec` |
| `PermBenchPasses` | `[]NothingWrong`: no mismatch is counted, and a board that is done matched | `PermSpec` |
| `PermImplementsContract` | `PermAbs!Init /\ [][PermAbs!Next]_(PermAbs!vars)` | `PermSpec` |
| `VerifiedDesigns` | labels, checked vectors and latencies | `VerifySpec` |
| `VerifiedResults` | results, `NothingWrong` and the contract | `VerifySpec` |
| `VerifiedDigests` | `[]DigestIsGolden`, assuming `SqueezeFits` | `VerifySpec` |
| `ExitCodesCount` | `[]ExitCodeCounts`, the first half of `VerdictIsEarned` | `VerifySpec` |
| `VerdictsEarned` | `[]VerdictIsEarned` | `VerifySpec` |
| `VerifyTypeCorrect` | `[]TypeOK`, assuming `SqueezeFits` | `VerifySpec` |
| `NoFalseAlarm` | `[]Reported`: a simulation that ended exits with 0, assuming `SqueezeFits` | `VerifySpec` |

*Pipelines.* Both properties look at the end of a pipeline and say nothing of its
middle. `PipeInv` adds, lane by lane, that a valid stage j holds an input with exactly
the first j+1 constants and that input's context (`Labelled`), that younger inputs are
in earlier stages (`InOrder`), that the inputs between the last one checked and the
last one driven are all in some stage (`InFlight`), and that stage j is empty from j
cycles after the last input on (`OnTime`). The last is what makes the testbench's
drain window, which is a count of cycles, long enough for every depth.

*Latencies.* `LatencyAsDocumented` speaks of the cycle of the answer. `LatencyInv` has the
core's place in its schedule at every cycle since the start: the rounds done times the
cycles of a round, plus those of the state it is in and of the columns or bits it has
been through (`IterTime`, `ColumnTime`, `BitTime`, `UcodeTime`). The last cycle of
the iterative core, which may do fewer than `R` rounds, is where the quotient is
rounded up. The 320 bits are not looked at.

*Results.* Run `verify` computes a few vectors; these proofs are about all of them. `Along`
is the path of a request: the states between its rounds, from the vector that went in
to the state that must come out. A core is right as long as it is on that path at the
place its schedule says (`Place`): after whole rounds in the iterative and
microcoded cores, and in the serial ones somewhere inside a round, with the columns
done so far substituted and the others not (`Substituted`), or the bits so far rotated
and mixed from words that are still the old ones (`Mixes`, `BitPlace`). `ResultInv` adds what the
testbench and the smoke top hold. It needs three facts on `PermGolden`. The formulas
are the table: a column has 32 values, and each layer is a function of one column
(`SboxLayersAgree`). A layer on one 320-bit vector, most significant word first, is the
layer on five words (`EmittedPermIsGolden`). And the golden permutation, a recursive
function of the round, ends where the path ends. Every step of a core is then a step
of `PermContract` or a stutter, which is `PermImplementsContract`.

*Recursive functions.* The library states induction for operators, which no prover here
can instantiate. The proofs state it for sets instead: a nonempty set of naturals has
a least member (`Least`, from the library's well-founded minimum), so a property that
is a set is inductive (`Induction`), and a recursive function exists and takes its steps
(`Iteration`).

*The driver.* Every step of `VerifyNext` is a step or a stutter of each testbench
(`BenchesStep`), so that their invariants hold inside `Verify` too. `ExitCodeCounts`
is about a driver that counts trials and errors and never asks how many trials there
should have been. `CountInv` (the testbenches that count end after the last vector)
and, for the pipelines, `EveryVectorChecked` say that nothing was left out, and
`DriverInv` that no simulation has ended before the driver runs one. The second half
of `VerdictIsEarned`, that a board is done only with the golden digest, is `NothingWrong`.
`NoFalseAlarm` is the other direction: no design of a kind that is modelled is
reported as failing by its own testbench. It rests on the hash cores' invariant and so on `SqueezeFits`.

### Board flow, upload and catalogue

`BringUpProofs` proves, for every number of edits, commands, chunks, cases and faults:

| Theorem | Property |
|---|---|
| `FlashIsThisBuild` | `[]FlashedIsThisBuild` |
| `HeadlinesEarned` | `[]HeadlineEarned` |
| `LedgerAsDocumented` | `[]CatalogueAsDocumented` |
| `BringUpTypeCorrect` | `[]TypeOK` |

*Flash.* That a flash ended well says nothing
about the file its loader read; `Chain` does: as long as no tool failed, the file that the
next tool reads (the sources, the netlist, the placed design, the bitstream, by the
number of tools left) is of what this command emitted, whatever lies beside it.
`Quiet` says that a command without a loader leaves the board as it was.

*Headline.* The report sees only the log, and the property says what the board did. `Follows`
connects them: while no operation on the port raised and nothing was there before the
prompt, what the board printed is the log followed by the CASE lines still on the
wire. `RanOK` has every line come from a program that ran since the board was last
configured, which is what is left when an operation did raise; `LogOK` has the log
empty before the prompt and the headline computed from it; `PortOK` says in which
phases the port is open. The input is flushed between the prompt and the upload, but
what raises in `Link.reset_input` is swallowed and nothing is flushed; `PromptsOK`
has nothing that counts left on the wire by then, because no program runs and no
case is printed once there was a prompt. Lines are counted by `Only`, and the proofs rest on what it
does to the items of a concatenation. The invariant needs that one command runs
at a time (`OneAtATime`): a flash during an upload would change the board under it.

*Ledger.* The counts 352, 208, 134 and 0 (`docs/ARCHITECTURE.md:60-61` and 88-89; the remark in
section 3 has the lines that disagree) are not evaluated but counted. The points of
a target are a product: algorithms, security profiles, and the choices of the other
axes that the rules leave, 22 for an ASIC and 13 for an FPGA (`AsicChoices`,
`FpgaChoices`). The 134 generated ones are two such sets, less the six
that are written by hand (`HandPoints`). `CountsProduct`, `CountsUnion` and `CountsImage` are
the lemmas on cardinality behind it.

### What the proofs assume

Every assumption on a constant is named in the module that declares it, and TLC
evaluates it in the runs. Besides those of the sections above: the contract's "no
answer" is neither a request nor an answer (`ContractAssumption`), and the numbers of
edits and commands are naturals (`FlowAssumption`, `CommandAssumption`). `SqueezeFits` is a
hypothesis of the theorems that name it.

### Only model-checked

Every invariant of a passing run is proved. What stays with TLC:

- Liveness, and with it the fairness that `ImplementsContract` and `ImplementsPerm`
  include beside the steps that are proved: TLAPS proves neither liveness nor ENABLED.
- The runs that expect a violation, which show a behaviour and not a property.

## 5. Plan

Done, in this order: golden model, contract, core, engine, SLINK plane; proofs about
core and engine; MMIO plane; permutation cores, pipelines and hash cores under the
verification driver; the proofs about the pipelines; catalogue, board flow and
upload; the proofs about the board flow and about the turns of driver and engine on
both planes; the core's results and its refinement; what the calls of both planes
return and leave behind; the digests of the hash cores; the latencies, and what the
verification driver adds to its testbenches; the results of the permutation cores on
every vector, the driver's verdict in both directions, the headline, the ledger and
the remaining types.

Worth doing next:

1. The AEAD, stream, register-file and Wishbone testbenches as further kinds in
   `Verify`.
2. Timing: `AeadCore` inside the engine, to check the busy cycles that
   `docs/AXI_STREAM_DATA_PLANE.md` documents.

## 6. What the models do not tell

Things seen in the code that no property speaks about:

- *Old output counts.* The log starts before the bootloader's prompt, so CASE lines
  and a verdict of a program that was running before are in it. `HeadlineEarned`
  leaves such a log out (`~host.early`); without that TLC finds a headline PASS for
  an image that never arrived.
- *Spliced lines.* A read that raises can lose the end of one line and the start of
  the next. A line is an item that arrives or does not; two halves that
  read as a CASE line are not modelled.
- *Lines that are not counted.* `SW_ERR` and `SKIP` lines match neither pattern of
  the report, and a log that the 45 second window cut is judged by what it has.
- *The header that is there stays.* `ensure_model_emitted` writes `ascon_model.vh`
  only when it is missing, so after an edit of the model the hardware is built from
  the old one and the smoke top compares it with the new one. The model keeps both
  versions apart and counts both as what the command emitted.
- *Realizable is by name.* The tier of a hand-written core is decided by algorithm,
  datapath and permutation alone, not by its control or top level, and names a file
  under `rtl/common/` that the repository does not have. `Catalogue` follows the code;
  some algorithms the generator can emit are "specified only" in the ledger.

## 7. Not modelled

- The testbenches of the AEAD core, the AXI-Stream wrapper, the register file and the
  Wishbone adapter: those cores are modelled with environments that do more than the
  testbenches do.
- The AEAD and hash emitters' text, tables of initial values and file writing.
- `ascon_accel`'s stream transports, whose hardware is not in the repository, and the
  mock and emulator that stand in for it; `hash_or_xof`, which no register file here
  implements; the cycle counters, `MODE`, `CAPS` and `ABI`.
- A bus that gives up before the adapter acknowledges: what software does after a bus
  error is not in the repository.
- The software reference AEAD (sequential byte arithmetic, compared with the golden
  model by the repository's tests), packing of beats in the stream reference model.
- Printing, measuring and argument checks of the firmware programs; board descriptors
  and the parsing of command lines.
- The SoC top levels, which wire an external processor.

`PROJECT.json` gives each part's status.
