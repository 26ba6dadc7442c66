------------------------------- MODULE Verify -------------------------------
(***************************************************************************)
(* The generator's command line (generator/__main__.py) and its            *)
(* verification driver (generator/verify.py): a design is emitted,         *)
(* compiled with its testbench, simulated, the first line that says PASS   *)
(* or FAIL is read, and the verdict becomes the exit code.                 *)
(*                                                                         *)
(* The simulation is one of the testbenches of PermCores, PermPipe and     *)
(* HashCore.  A "board" is the smoke top: no driver looks at it, its LEDs  *)
(* do.  Nothing limits how long a simulation may take.                     *)
(***************************************************************************)
EXTENDS PermCores, PermPipe, HashCore

CONSTANT VerifyKinds    \* what is verified: "perm", "pipe", "hash" or "board"

ASSUME VerifyAssumption == VerifyKinds \subseteq {"perm", "pipe", "hash", "board"}

VARIABLES
    vkind,      \* the design's testbench
    vphase,     \* "main", "compile", "simulate", "exited"; "flashed" for a board
    vresult,    \* what the verify_* function returned: passed, trials
    vexit       \* the exit code; 3 while there is none

verifyVars == <<vkind, vphase, vresult, vexit>>
allVars    == <<verifyVars, permVars, pipeVars, hashVars>>
benches    == <<permVars, pipeVars, hashVars>>

NoResult == [passed |-> FALSE, trials |-> 0]

-----------------------------------------------------------------------------
\* Without --verify the module is written and that is all.
EmitOnly ==
    /\ vphase = "main"
    /\ vphase' = "exited" /\ vexit' = 0
    /\ UNCHANGED <<vkind, vresult, benches>>

ToolsMissing ==
    /\ vphase = "main"
    /\ vphase' = "exited" /\ vexit' = 2
    /\ UNCHANGED <<vkind, vresult, benches>>

VerifyStarts ==
    /\ vphase = "main"
    /\ vphase' = "compile"
    /\ UNCHANGED <<vkind, vresult, vexit, benches>>

\* Nothing says PASS or FAIL: the compiler refused, or vvp ended before its
\* testbench came to a line.  What that had done by then is seen by nobody.
FailsWithoutLine ==
    /\ vphase = "compile"
    /\ vphase' = "exited" /\ vresult' = NoResult /\ vexit' = 1
    /\ UNCHANGED <<vkind, benches>>

Compiles ==
    /\ vphase = "compile"
    /\ vphase' = "simulate"
    /\ UNCHANGED <<vkind, vresult, vexit, benches>>

\* One step of the testbench that was compiled, or of the board.
PermSimulates ==
    /\ vphase \in {"simulate", "flashed"} /\ vkind \in {"perm", "board"}
    /\ PermNext
    /\ UNCHANGED <<verifyVars, pipeVars, hashVars>>

PipeSimulates ==
    /\ vphase = "simulate" /\ vkind = "pipe"
    /\ PipeNext
    /\ UNCHANGED <<verifyVars, permVars, hashVars>>

HashSimulates ==
    /\ vphase = "simulate" /\ vkind = "hash"
    /\ HashNext
    /\ UNCHANGED <<verifyVars, permVars, pipeVars>>

SimEnded == CASE vkind = "perm"  -> bphase = "end" [] vkind = "pipe"  -> pend
              [] vkind = "hash"  -> hphase = "end" [] vkind = "board" -> sdone

Errors == CASE vkind = "perm" -> berr [] vkind = "pipe" -> perr [] vkind = "hash" -> herr

SumOver(f) ==
    LET upTo[n \in 0..Cardinality(DOMAIN f)] == IF n = 0 THEN 0 ELSE upTo[n - 1] + f[n - 1]
    IN  upTo[Cardinality(DOMAIN f)]

Trials == CASE vkind = "perm" -> btrial [] vkind = "pipe" -> SumOver(prd) [] vkind = "hash" -> htrial

\* The line is "PASS <trials> ..." or "FAIL <mismatches> of <trials> ...", and
\* the first number in it is taken for the trials.
ReadsVerdict ==
    /\ vphase = "simulate" /\ SimEnded
    /\ vresult' = [passed |-> Errors = 0, trials |-> IF Errors = 0 THEN Trials ELSE Errors]
    /\ vexit' = IF vresult'.passed THEN 0 ELSE 1
    /\ vphase' = "exited"
    /\ UNCHANGED <<vkind, benches>>

-----------------------------------------------------------------------------
\* The testbenches that are not simulated rest in one of their first states.
OneOf(set) == CHOOSE x \in set : TRUE

VerifyInit ==
    /\ vkind \in VerifyKinds
    /\ vphase = IF vkind = "board" THEN "flashed" ELSE "main"
    /\ vresult = NoResult /\ vexit = 3
    /\ PermInit /\ (bphase = "smoke" <=> vkind = "board")
    /\ (vkind \notin {"perm", "board"} => design = OneOf(PermDesigns))
    /\ PipeInit /\ (vkind # "pipe" => pdesign = OneOf(PipeDesigns))
    /\ HashInit /\ (vkind # "hash" => variant = OneOf(HashVariants))

\* Nothing follows an exit code or a board's verdict.
Rests == (vphase = "exited" \/ sdone) /\ UNCHANGED allVars

Driver     == EmitOnly \/ ToolsMissing \/ VerifyStarts \/ FailsWithoutLine \/ Compiles \/ ReadsVerdict
VerifyNext == Driver \/ PermSimulates \/ PipeSimulates \/ HashSimulates \/ Rests

\* The tools that are called return, except that a simulation goes on for as
\* long as its testbench does, and while it does its clock ticks.  For the
\* bit-exact cores that weak fairness has its "enabled" spelt out, as in
\* PermClock: their every cycle changes bcyc, por or sdone.
PermTicking == vphase \in {"simulate", "flashed"} /\ vkind \in {"perm", "board"} /\ ~PermStopped

VerifyFairness ==
    /\ WF_allVars(Driver) /\ WF_allVars(PipeSimulates) /\ WF_allVars(HashSimulates)
    /\ []<>~PermTicking \/ []<><<PermSimulates>>_allVars

VerifySpec == VerifyInit /\ [][VerifyNext]_allVars /\ VerifyFairness

-----------------------------------------------------------------------------
(* Properties.                                                             *)

TypeOK ==
    /\ vkind \in VerifyKinds /\ vexit \in 0..3
    /\ vphase \in {"main", "compile", "simulate", "exited", "flashed"}
    /\ vresult \in [passed : BOOLEAN, trials : Nat]
    /\ PermTypeOK /\ PipeTypeOK /\ HashTypeOK

\* The vectors the testbench has presented so far.
Presented == CASE vkind = "perm" -> PermTrials
               [] vkind = "pipe" -> SumOver([g \in Lanes |-> Len(pq[g])])
               [] vkind = "hash" -> HashTrials

\* Exit code 0 after a simulation means that every vector that was presented
\* was answered and compared, although the testbenches print PASS whenever no
\* comparison failed, without a look at how many there were.
ExitCodeCounts ==
    (vphase = "exited" /\ SimEnded) =>
        /\ vexit = 0 <=> vresult.passed
        /\ vresult.passed => vresult.trials = Presented

\* The same of every verdict: a board that is done has compared its one result
\* and lights the LED that says so.
VerdictIsEarned == ExitCodeCounts /\ (sdone => smatch)

\* Every verification comes to an exit code, and every board to its verdict:
\* no design leaves its testbench waiting.
VerificationEnds == <>(vphase = "exited" \/ sdone)
=============================================================================
