------------------------------ MODULE Catalogue ------------------------------
(***************************************************************************)
(* The design-space catalogue (ascon_designspace: axes, resolve, rules,    *)
(* realize, catalog): the grid of design points of a target, the rules     *)
(* that reject some, the tier each of the others is realized in, and the   *)
(* ledger `make catalog` prints.                                           *)
(*                                                                         *)
(* An axis a grid gives one value (the padding) is left out of a point.    *)
(***************************************************************************)
EXTENDS Integers, FiniteSets

VARIABLE ledger     \* the ledger last printed: a set of one, or empty

Targets == {"asic", "fpga"}

Algorithms == {"aead128", "aead128a", "aead80pq", "hash", "hasha", "xof", "xofa", "cxof"}
KatBacked  == {"aead128", "hash", "hash256", "xof", "xof128", "cxof", "cxof128"}

AsicPoints ==
    [target : {"asic"}, algorithm : Algorithms, top : {"dual_enc_dec_cores"},
     datapath : {64, 32, 16, 8, 5, 1},
     permutation : {"one_round_per_cycle", "two_rounds_per_cycle", "column_serial", "bit_serial"},
     control : {"hardcoded_fsm"}, security : {"none", "asic_baseline"}]

FpgaPoints ==
    [target : {"fpga"}, algorithm : Algorithms,
     top : {"n_identical_aead_cores", "one_pipelined_n_contexts", "m_pipelines_n_contexts"},
     datapath : {128},
     permutation : {"four_rounds_per_cycle", "eight_rounds_per_cycle", "fully_pipelined"},
     control : {"axi_stream", "microcoded_sequencer", "axi_stream_microcoded_hybrid"},
     security : {"none", "fpga_fault_detect"}]

-----------------------------------------------------------------------------
(* What a coordinate stands for.  A datapath profile is named by its lane  *)
(* width.                                                                  *)
SboxColumns(p)  == IF p.permutation \in {"column_serial", "bit_serial"} THEN 1 ELSE 64
Pipelined(p)    == p.permutation = "fully_pipelined"
HasScheduler(p) == p.control \in {"command_fifo", "axi_stream",
                                  "axi_stream_microcoded_hybrid", "dma_fed"}
Interleaved(p)  == p.top \in {"one_pipelined_n_contexts", "m_pipelines_n_contexts"}

BitSerialFits(p) == p.permutation = "bit_serial" => p.datapath <= 16

ColumnSerialFits(p) ==
    p.permutation = "column_serial" => p.datapath <= 64 /\ SboxColumns(p) < 64

\* Mutant: contexts share a permutation that is not a pipeline.
M_ContextsScheduled(p) == Interleaved(p) => HasScheduler(p)

ContextsScheduled(p) == Interleaved(p) => HasScheduler(p) /\ Pipelined(p)

IsValid(p) == BitSerialFits(p) /\ ColumnSerialFits(p) /\ ContextsScheduled(p)

-----------------------------------------------------------------------------
Handwritten(p) ==
    /\ p.target = "fpga" /\ p.algorithm = "aead128" /\ p.datapath = 128
    /\ p.permutation \in {"four_rounds_per_cycle", "eight_rounds_per_cycle"}
    /\ p.security = "none"

GeneratorDatapaths == {128, 64, 32, 16, 8, 5, 1}

GeneratedPermutations ==
    {"one_round_per_cycle", "two_rounds_per_cycle", "four_rounds_per_cycle",
     "eight_rounds_per_cycle"} \cup {"fully_pipelined", "column_serial", "bit_serial"}

\* The order matters: the gates come before the cores.
Classify(p) ==
    IF p.security # "none" \/ p.algorithm \notin KatBacked THEN "specified_only"
    ELSE IF Handwritten(p) THEN "handwritten"
    ELSE IF p.datapath \notin GeneratorDatapaths THEN "specified_only"
    ELSE IF p.permutation \in GeneratedPermutations THEN "generated" ELSE "generator_planned"

Statuses == {"generated", "generator_planned", "handwritten", "specified_only"}

Entries == {p \in AsicPoints \cup FpgaPoints : IsValid(p)}

Summary == [byTarget |-> [t \in Targets |-> Cardinality({p \in Entries : p.target = t})],
            byStatus |-> [s \in Statuses |-> Cardinality({p \in Entries : Classify(p) = s})]]

CatalogueInit == ledger = {}

PrintCatalogue == ledger' = {Summary}

-----------------------------------------------------------------------------
(* The rules leave 352 ASIC and 208 FPGA points (docs/ARCHITECTURE.md:     *)
(* 60-61, rules.py:11, catalog.py:10), 134 of them are generated and none  *)
(* is planned any more (docs/ARCHITECTURE.md:88-89, README.md:69-70 and    *)
(* 179-180), and every point is counted in one status.  Not every document *)
(* agrees: README.md:51-52 and 171-172 ("118 of 560 `GENERATED`; only      *)
(* bit-serial remains") and realize.py:149-151 and 194 are from before     *)
(* bit_serial became a generated profile.                                  *)
CatalogueAsDocumented ==
    \A l \in ledger :
        /\ l.byTarget["asic"] = 352 /\ l.byTarget["fpga"] = 208
        /\ l.byStatus["generated"] = 134 /\ l.byStatus["generator_planned"] = 0
        /\ l.byStatus["handwritten"] + l.byStatus["specified_only"] = 560 - 134
=============================================================================
