------------------------------- MODULE BringUp -------------------------------
(***************************************************************************)
(* The commands of the Makefile, as a developer with one board gives them: *)
(* one after the other, but for the bitstream that is flashed from another *)
(* terminal while the upload waits for the bootloader.  Whatever changes   *)
(* the FPGA's configuration restarts what runs on it.                      *)
(***************************************************************************)
EXTENDS Catalogue, BoardFlow, BenchRun

CONSTANT MaxCommands    \* bound: how many commands are given

ASSUME CommandAssumption == MaxCommands \in Nat

VARIABLE left           \* how many still may be

bringUpVars == <<ledger, flowVars, benchVars, left>>

Idle == FlowIdle /\ host.phase = "idle"

BringUpInit == CatalogueInit /\ FlowInit /\ BenchInit /\ left = MaxCommands

Given == left > 0 /\ left' = left - 1

\* The processor restarts when the loader has written the FPGA itself.
FollowsSram ==
    /\ IF sram' = sram THEN UNCHANGED <<boot, wire>> ELSE Configured(sram' = SocImage)
    /\ UNCHANGED <<up, faults, host, said>>

-----------------------------------------------------------------------------
CatalogCommand ==
    /\ Idle /\ Given
    /\ PrintCatalogue
    /\ UNCHANGED <<flowVars, benchVars>>

BoardCommand ==
    /\ Idle /\ Given
    /\ \E cmd \in BoardCommands, dry, toFlash \in BOOLEAN : Prepare(cmd, dry, toFlash)
    /\ UNCHANGED <<ledger, benchVars>>

EditCommand == Idle /\ Edit /\ UNCHANGED <<ledger, benchVars, left>>

\* The SoC is flashed again even when it is there: the processor restarts.
SocFlashCommand ==
    /\ host.phase \in {"idle", "nudge"} /\ Given
    /\ \E toFlash \in BOOLEAN :
        /\ SocFlash(toFlash)
        /\ IF toFlash THEN UNCHANGED <<boot, wire>> ELSE Configured(sram' = SocImage)
    /\ UNCHANGED <<ledger, up, faults, host, said>>

PowerCycleCommand ==
    /\ Idle /\ Given
    /\ PowerCycle
    /\ Configured(sram' = SocImage)
    /\ UNCHANGED <<ledger, up, faults, host, said>>

BenchCommand ==
    /\ Idle /\ Given
    /\ OpensPort("nudge") \/ OpensPort("listen")
    /\ UNCHANGED <<ledger, flowVars>>

FlowRuns  == FlowStep /\ FollowsSram /\ UNCHANGED <<ledger, left>>
HostRuns  == HostMoves /\ UNCHANGED <<ledger, flowVars, left>>
TimeRuns  == Deadline /\ UNCHANGED <<ledger, flowVars, left>>
PortRuns  == HostMay /\ UNCHANGED <<ledger, flowVars, left>>
BoardRuns == BoardSteps /\ UNCHANGED <<ledger, flowVars, left>>

BringUpNext ==
    \/ CatalogCommand \/ BoardCommand \/ EditCommand
    \/ SocFlashCommand \/ PowerCycleCommand \/ BenchCommand
    \/ FlowRuns \/ HostRuns \/ TimeRuns \/ PortRuns \/ BoardRuns

\* A tool ends, the host's program runs on, its clock does too; nobody has to press a key.
BringUpFairness ==
    /\ WF_bringUpVars(FlowRuns) /\ WF_bringUpVars(HostRuns) /\ WF_bringUpVars(TimeRuns)

BringUpSpec == BringUpInit /\ [][BringUpNext]_bringUpVars /\ BringUpFairness

-----------------------------------------------------------------------------
\* The type invariant of the three parts.
TypeOK ==
    /\ \A l \in ledger : l.byTarget \in [Targets -> Nat] /\ l.byStatus \in [Statuses -> Nat]
    /\ FlowTypeOK /\ BenchTypeOK
    /\ left \in 0 .. MaxCommands

(* Every command comes back to the shell, whatever fails or is lost on the *)
(* way: a tool's failure ends the flow, and each loop of the upload has a  *)
(* deadline (ascon_boards/__main__.py, neorv32_upload.py).                 *)
EveryCommandReturns == ~Idle ~> Idle
=============================================================================
