------------------------------ MODULE BoardFlow ------------------------------
(***************************************************************************)
(* The board flow (ascon_boards): a command emits the smoke target's RTL,  *)
(* then runs the tools it asks for one after the other, each reading the   *)
(* file the one before it wrote, and stops at the first that fails.  The   *)
(* files are named after the board and stay where they are: a tool that    *)
(* fails leaves the file of an earlier build.                              *)
(*                                                                         *)
(* An image is named by what it was made from: the version of the model    *)
(* the self-checking top was emitted from, and the version the included    *)
(* header ascon_model.vh was, which is emitted only when it is missing.    *)
(* The tools and the loader are not the repository's: each works or fails. *)
(***************************************************************************)
EXTENDS Integers, Sequences

CONSTANTS
    MaxEdits,   \* bound: how often the model is edited
    NoImage,    \* no file, an empty memory
    SocImage    \* the SoC's bitstream, which its own script builds

ASSUME FlowAssumption == MaxEdits \in Nat

VARIABLES
    model,      \* the version of ascon_hwmodel in the tree
    header,     \* the version rtl/generated/ascon_model.vh is of; 0: missing
    source,     \* the version the emitted top is of; 0: never emitted
    artefact,   \* the files in the build directory
    sram,       \* what the FPGA is configured with
    spi,        \* what it loads at power-up
    flow        \* the command that runs

flowVars == <<model, header, source, artefact, sram, spi, flow>>

Versions == 1 .. MaxEdits + 1
Images   == {NoImage, SocImage} \cup [top : Versions, header : Versions]
Files    == {"json", "pnr", "fs"}

\* The tools a command runs, in order.
Tools == [emit |-> <<>>, synth |-> <<"synth">>, pnr |-> <<"pnr">>, pack |-> <<"pack">>,
          build |-> <<"synth", "pnr", "pack">>, flash |-> <<"synth", "pnr", "pack", "load">>]

BoardCommands == DOMAIN Tools

NoFlow == [cmd |-> "none", todo |-> <<>>, dry |-> FALSE, toFlash |-> FALSE, rc |-> 0,
           emitted |-> NoImage, was |-> <<NoImage, NoImage>>]

FlowIdle   == flow.cmd = "none"
FlowExited == flow.cmd # "none" /\ flow.todo = <<>>

FlowInit ==
    /\ model = 1 /\ header \in 0 .. 1 /\ source = 0
    /\ artefact = [f \in Files |-> NoImage]
    /\ sram = NoImage /\ spi = NoImage
    /\ flow = NoFlow

-----------------------------------------------------------------------------
\* Somebody changes the golden model; no command runs meanwhile.
Edit ==
    /\ FlowIdle /\ model <= MaxEdits
    /\ model' = model + 1
    /\ UNCHANGED <<header, source, artefact, sram, spi, flow>>

EnsureModelEmitted == header' = IF header = 0 THEN model ELSE header

\* The RTL is emitted whatever the command, a dry run's too.
Prepare(cmd, dry, toFlash) ==
    /\ FlowIdle
    /\ toFlash => cmd = "flash"
    /\ EnsureModelEmitted
    /\ source' = model
    /\ flow' = [cmd |-> cmd, todo |-> Tools[cmd], dry |-> dry, toFlash |-> toFlash, rc |-> 0,
                emitted |-> [top |-> model, header |-> header'], was |-> <<sram, spi>>]
    /\ UNCHANGED <<model, artefact, sram, spi>>

ToolInput(tool) ==
    CASE tool = "synth" -> [top |-> source, header |-> header]
      [] tool = "pnr"   -> artefact["json"]
      [] tool = "pack"  -> artefact["pnr"]
      [] tool = "load"  -> artefact["fs"]

ToolOutput == [synth |-> "json", pnr |-> "pnr", pack |-> "fs"]

\* The loader writes the FPGA itself, or the memory it loads at power-up.
Load(image, toFlash) ==
    IF toFlash THEN spi' = image /\ UNCHANGED sram ELSE sram' = image /\ UNCHANGED spi

DryStep ==
    /\ flow.todo # <<>> /\ flow.dry
    /\ flow' = [flow EXCEPT !.todo = Tail(@)]
    /\ UNCHANGED <<model, header, source, artefact, sram, spi>>

ToolWorks ==
    /\ flow.todo # <<>> /\ ~flow.dry
    /\ ToolInput(Head(flow.todo)) # NoImage
    /\ IF Head(flow.todo) = "load"
       THEN Load(ToolInput("load"), flow.toFlash) /\ UNCHANGED artefact
       ELSE /\ artefact' = [artefact EXCEPT ![ToolOutput[Head(flow.todo)]]
                                          = ToolInput(Head(flow.todo))]
            /\ UNCHANGED <<sram, spi>>
    /\ flow' = [flow EXCEPT !.todo = Tail(@)]
    /\ UNCHANGED <<model, header, source>>

\* Mutant: the exit code is the last tool's, and the next one runs all the same.
M_Failed(f) == [f EXCEPT !.todo = Tail(@), !.rc = IF Len(f.todo) = 1 THEN 1 ELSE 0]

\* What is left of the command after a tool's exit code.
Failed(f) == [f EXCEPT !.todo = <<>>, !.rc = 1]

ToolFails ==
    /\ flow.todo # <<>> /\ ~flow.dry
    /\ flow' = Failed(flow)
    /\ \/ UNCHANGED <<sram, spi>>
       \/ Head(flow.todo) = "load" /\ Load(NoImage, flow.toFlash)
    /\ UNCHANGED <<model, header, source, artefact>>

FlowReturns ==
    /\ FlowExited
    /\ flow' = NoFlow
    /\ UNCHANGED <<model, header, source, artefact, sram, spi>>

\* soc-flash and soc-flash-spi: the loader alone.
SocFlash(toFlash) ==
    /\ FlowIdle
    /\ Load(SocImage, toFlash) \/ Load(NoImage, toFlash)
    /\ UNCHANGED <<model, header, source, artefact, flow>>

PowerCycle ==
    /\ FlowIdle
    /\ sram' = spi
    /\ UNCHANGED <<model, header, source, artefact, spi, flow>>

FlowStep == DryStep \/ ToolWorks \/ ToolFails \/ FlowReturns

-----------------------------------------------------------------------------
FlowTypeOK ==
    /\ model \in Versions /\ header \in 0 .. MaxEdits + 1 /\ source \in 0 .. MaxEdits + 1
    /\ artefact \in [Files -> Images] /\ sram \in Images /\ spi \in Images
    /\ flow.cmd \in BoardCommands \cup {"none"} /\ flow.rc \in 0 .. 1
    /\ flow.emitted \in Images

(* A flash that says it worked left what this very command emitted in the  *)
(* memory it was asked to write, never an earlier build's file, and the    *)
(* other memory alone; a dry run, a command that does not flash and one    *)
(* that failed before the loader left the board as it was                  *)
(* (ascon_boards/__main__.py).                                             *)
FlashedIsThisBuild ==
    FlowExited =>
        IF flow.cmd = "flash" /\ ~flow.dry
        THEN flow.rc = 0 => <<sram, spi>> = IF flow.toFlash
                                            THEN <<flow.was[1], flow.emitted>>
                                            ELSE <<flow.emitted, flow.was[2]>>
        ELSE <<sram, spi>> = flow.was
=============================================================================
