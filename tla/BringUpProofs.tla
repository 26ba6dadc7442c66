---------------------------- MODULE BringUpProofs ----------------------------
(***************************************************************************)
(* Proofs about BringUp, for every number of edits, commands, chunks,      *)
(* cases and faults: a flash that says it worked left what it emitted on   *)
(* the board, whatever failed before and whatever files lie in the build   *)
(* directory; a headline that says PASS was earned on the board; the       *)
(* catalogue's counts are the documented ones.                             *)
(***************************************************************************)
EXTENDS BringUp, WellFoundedInduction, SequenceTheorems, FiniteSetTheorems, TLAPS

-----------------------------------------------------------------------------
(* The inductive invariant.                                                *)

\* What is left of a flash, and of a command that does not load.
FlashTodos ==
    {<<"synth", "pnr", "pack", "load">>, <<"pnr", "pack", "load">>, <<"pack", "load">>,
     <<"load">>, <<>>}

QuietTodos ==
    {<<"synth", "pnr", "pack">>, <<"pnr", "pack">>, <<"synth">>, <<"pnr">>, <<"pack">>, <<>>}

FlowFields == {"cmd", "todo", "dry", "toFlash", "rc", "emitted", "was"}

FlowShape ==
    /\ DOMAIN flow = FlowFields /\ flow = [x \in FlowFields |-> flow[x]]
    /\ flow.cmd \in BoardCommands \cup {"none"} /\ flow.dry \in BOOLEAN
    /\ DOMAIN artefact = Files /\ artefact = [x \in Files |-> artefact[x]]

Untouched == <<sram, spi>> = flow.was

Written == <<sram, spi>> = IF flow.toFlash THEN <<flow.was[1], flow.emitted>>
                                           ELSE <<flow.emitted, flow.was[2]>>

\* No tool of this command writes the board.
Quiet ==
    flow.cmd \notin {"flash", "none"} => flow.todo \in QuietTodos /\ Untouched

\* The file the next tool of a flash reads is of what the command emitted:
\* this is what makes the invariant inductive.
Chain ==
    flow.cmd = "flash" =>
        /\ flow.todo \in FlashTodos
        /\ flow.dry \/ flow.todo # <<>> => Untouched
        /\ ~flow.dry /\ flow.rc = 0 =>
              /\ Len(flow.todo) = 4 => flow.emitted = [top |-> source, header |-> header]
              /\ Len(flow.todo) = 3 => artefact["json"] = flow.emitted
              /\ Len(flow.todo) = 2 => artefact["pnr"] = flow.emitted
              /\ Len(flow.todo) = 1 => artefact["fs"] = flow.emitted
              /\ Len(flow.todo) = 0 => Written
        /\ flow.todo # <<>> => flow.rc = 0

IInv == FlowShape /\ Quiet /\ Chain

-----------------------------------------------------------------------------
(* Facts about what is left of a command.                                  *)

LEMMA FlashTail ==
    ASSUME NEW t \in FlashTodos, t # <<>>
    PROVE  /\ Tail(t) \in FlashTodos /\ Len(Tail(t)) = Len(t) - 1 /\ Len(t) \in 1 .. 4
           /\ Len(t) = 4 => Head(t) = "synth" /\ Tail(t) # <<>>
           /\ Len(t) = 3 => Head(t) = "pnr" /\ Tail(t) # <<>>
           /\ Len(t) = 2 => Head(t) = "pack" /\ Tail(t) # <<>>
           /\ Len(t) = 1 => Head(t) = "load" /\ Tail(t) = <<>>
<1>1. CASE t = <<"synth", "pnr", "pack", "load">>
  BY <1>1 DEF FlashTodos
<1>2. CASE t = <<"pnr", "pack", "load">>
  BY <1>2 DEF FlashTodos
<1>3. CASE t = <<"pack", "load">>
  BY <1>3 DEF FlashTodos
<1>4. CASE t = <<"load">>
  BY <1>4 DEF FlashTodos
<1> QED  BY <1>1, <1>2, <1>3, <1>4 DEF FlashTodos

LEMMA QuietTail ==
    ASSUME NEW t \in QuietTodos, t # <<>>
    PROVE  Tail(t) \in QuietTodos /\ Head(t) \in {"synth", "pnr", "pack"}
<1>1. CASE t = <<"synth", "pnr", "pack">>
  BY <1>1 DEF QuietTodos
<1>2. CASE t = <<"pnr", "pack">>
  BY <1>2 DEF QuietTodos
<1>3. CASE t = <<"synth">>
  BY <1>3 DEF QuietTodos
<1>4. CASE t = <<"pnr">>
  BY <1>4 DEF QuietTodos
<1>5. CASE t = <<"pack">>
  BY <1>5 DEF QuietTodos
<1> QED  BY <1>1, <1>2, <1>3, <1>4, <1>5 DEF QuietTodos

LEMMA ToolsOf ==
    /\ Tools["flash"] = <<"synth", "pnr", "pack", "load">>
    /\ \A cmd \in BoardCommands \ {"flash"} : Tools[cmd] \in QuietTodos
    /\ BoardCommands = {"emit", "synth", "pnr", "pack", "build", "flash"}
BY DEF Tools, BoardCommands, QuietTodos

LEMMA Empty == Len(<<>>) = 0
OBVIOUS

-----------------------------------------------------------------------------
LEMMA InitIInv == BringUpInit => IInv
<1> SUFFICES ASSUME BringUpInit PROVE IInv  OBVIOUS
<1>1. flow = NoFlow /\ artefact = [f \in Files |-> NoImage]
  BY DEF BringUpInit, FlowInit
<1> QED  BY <1>1 DEF IInv, FlowShape, FlowFields, Quiet, Chain, NoFlow

LEMMA PrepareStep ==
    ASSUME IInv, NEW cmd \in BoardCommands, NEW dry \in BOOLEAN, NEW toFlash \in BOOLEAN,
           Prepare(cmd, dry, toFlash)
    PROVE  IInv'
<1>1. /\ flow' = [cmd |-> cmd, todo |-> Tools[cmd], dry |-> dry, toFlash |-> toFlash, rc |-> 0,
                  emitted |-> [top |-> model, header |-> header'], was |-> <<sram, spi>>]
      /\ source' = model /\ artefact' = artefact /\ sram' = sram /\ spi' = spi
  BY DEF Prepare
<1>2. FlowShape'
  BY <1>1 DEF IInv, FlowShape, FlowFields
<1>3. Quiet'
  BY <1>1, ToolsOf DEF Quiet, Untouched
<1>4. Chain'
  <2> SUFFICES ASSUME cmd = "flash" PROVE Chain'
    BY <1>1 DEF Chain
  <2>1. flow'.todo = <<"synth", "pnr", "pack", "load">>
    BY <1>1, ToolsOf
  <2>2. Len(flow'.todo) = 4 /\ flow'.todo # <<>>
    BY <2>1
  <2> QED  BY <1>1, <2>1, <2>2 DEF Chain, FlashTodos, Untouched
<1> QED  BY <1>2, <1>3, <1>4 DEF IInv

\* The command goes on with the board as it was.
LEMMA QuietGoesOn ==
    ASSUME IInv, flow.cmd \notin {"flash", "none"}, sram' = sram, spi' = spi,
           flow'.cmd = flow.cmd, flow'.was = flow.was, flow'.todo \in QuietTodos
    PROVE  Quiet' /\ Chain'
BY DEF IInv, Quiet, Chain, Untouched

LEMMA DryStepInv == IInv /\ DryStep => IInv'
<1> SUFFICES ASSUME IInv, DryStep PROVE IInv'  OBVIOUS
<1>1. /\ flow.todo # <<>> /\ flow.dry
      /\ flow' = [flow EXCEPT !.todo = Tail(@)]
      /\ source' = source /\ header' = header /\ artefact' = artefact
      /\ sram' = sram /\ spi' = spi
  BY DEF DryStep
<1>2. /\ flow'.todo = Tail(flow.todo)
      /\ \A x \in FlowFields \ {"todo"} : flow'[x] = flow[x]
  BY <1>1 DEF IInv, FlowShape, FlowFields
<1>3. FlowShape'
  BY <1>1, <1>2 DEF IInv, FlowShape, FlowFields
<1>4. CASE flow.cmd = "flash"
  <2>1. flow'.todo \in FlashTodos
    BY <1>1, <1>2, <1>4, FlashTail DEF IInv, Chain
  <2> QED  BY <1>1, <1>2, <1>3, <1>4, <2>1 DEF IInv, Chain, Quiet, Untouched, FlowFields
<1>5. CASE flow.cmd \notin {"flash", "none"}
  <2>1. flow'.todo \in QuietTodos
    BY <1>1, <1>2, <1>5, QuietTail DEF IInv, Quiet
  <2> QED  BY <1>1, <1>2, <1>3, <1>5, <2>1, QuietGoesOn DEF IInv, FlowFields
<1>6. CASE flow.cmd = "none"
  BY <1>2, <1>3, <1>6 DEF IInv, Quiet, Chain, FlowFields
<1> QED  BY <1>4, <1>5, <1>6

LEMMA ToolWorksInv == IInv /\ ToolWorks => IInv'
<1> SUFFICES ASSUME IInv, ToolWorks PROVE IInv'  OBVIOUS
<1>1. /\ flow.todo # <<>> /\ ~flow.dry
      /\ flow' = [flow EXCEPT !.todo = Tail(@)]
      /\ source' = source /\ header' = header
  BY DEF ToolWorks
<1>2. /\ flow'.todo = Tail(flow.todo)
      /\ \A x \in FlowFields \ {"todo"} : flow'[x] = flow[x]
  BY <1>1 DEF IInv, FlowShape, FlowFields
<1>3. ASSUME Head(flow.todo) # "load"
      PROVE  /\ artefact' = [artefact EXCEPT ![ToolOutput[Head(flow.todo)]]
                                           = ToolInput(Head(flow.todo))]
             /\ sram' = sram /\ spi' = spi
  BY <1>3 DEF ToolWorks
<1>4. ASSUME Head(flow.todo) = "load"
      PROVE  Load(artefact["fs"], flow.toFlash) /\ artefact' = artefact
  BY <1>4 DEF ToolWorks, ToolInput
<1>5. FlowShape'
  <2>1. DOMAIN artefact' = Files /\ artefact' = [x \in Files |-> artefact'[x]]
    BY <1>3, <1>4 DEF IInv, FlowShape
  <2> QED  BY <1>1, <1>2, <2>1 DEF IInv, FlowShape, FlowFields
<1>6. CASE flow.cmd = "flash"
  <2> DEFINE n == Len(flow.todo)
  <2>1. /\ flow.todo \in FlashTodos /\ Untouched /\ flow.rc = 0
    BY <1>1, <1>6 DEF IInv, Chain
  <2>2. flow'.todo \in FlashTodos /\ Len(flow'.todo) = n - 1 /\ n \in 1 .. 4
    BY <1>1, <1>2, <2>1, FlashTail
  <2>3. CASE n = 4
    <3>1. Head(flow.todo) = "synth" /\ Len(flow'.todo) = 3
      BY <1>1, <2>1, <2>2, <2>3, FlashTail
    <3>2. artefact'["json"] = flow.emitted /\ sram' = sram /\ spi' = spi
      BY <1>1, <1>3, <1>6, <2>1, <2>3, <3>1
      DEF IInv, FlowShape, Chain, ToolInput, ToolOutput, Files
    <3>3. flow'.todo # <<>>
      BY <1>1, <1>2, <2>1, <2>3, FlashTail
    <3>4. /\ flow'.rc = 0 /\ flow'.cmd = "flash" /\ ~flow'.dry
          /\ flow'.emitted = flow.emitted /\ flow'.was = flow.was
      BY <1>1, <1>2, <1>6, <2>1 DEF FlowFields
    <3>5. Untouched'
      BY <2>1, <3>2, <3>4 DEF Untouched
    <3>6. Chain'
      <4>1. /\ Len(flow'.todo) = 4 => flow'.emitted = [top |-> source', header |-> header']
            /\ Len(flow'.todo) = 3 => artefact'["json"] = flow'.emitted
            /\ Len(flow'.todo) = 2 => artefact'["pnr"] = flow'.emitted
            /\ Len(flow'.todo) = 1 => artefact'["fs"] = flow'.emitted
            /\ Len(flow'.todo) = 0 => Written'
        BY <3>1, <3>2, <3>4
      <4> QED  BY <2>2, <3>3, <3>4, <3>5, <4>1, Zenon DEF Chain
    <3> QED  BY <1>5, <3>4, <3>6 DEF IInv, Quiet
  <2>4. CASE n = 3
    <3>1. Head(flow.todo) = "pnr" /\ Len(flow'.todo) = 2
      BY <1>1, <2>1, <2>2, <2>4, FlashTail
    <3>2. artefact'["pnr"] = flow.emitted /\ sram' = sram /\ spi' = spi
      BY <1>1, <1>3, <1>6, <2>1, <2>4, <3>1
      DEF IInv, FlowShape, Chain, ToolInput, ToolOutput, Files
    <3>3. flow'.todo # <<>>
      BY <1>1, <1>2, <2>1, <2>4, FlashTail
    <3>4. /\ flow'.rc = 0 /\ flow'.cmd = "flash" /\ ~flow'.dry
          /\ flow'.emitted = flow.emitted /\ flow'.was = flow.was
      BY <1>1, <1>2, <1>6, <2>1 DEF FlowFields
    <3>5. Untouched'
      BY <2>1, <3>2, <3>4 DEF Untouched
    <3>6. Chain'
      <4>1. /\ Len(flow'.todo) = 4 => flow'.emitted = [top |-> source', header |-> header']
            /\ Len(flow'.todo) = 3 => artefact'["json"] = flow'.emitted
            /\ Len(flow'.todo) = 2 => artefact'["pnr"] = flow'.emitted
            /\ Len(flow'.todo) = 1 => artefact'["fs"] = flow'.emitted
            /\ Len(flow'.todo) = 0 => Written'
        BY <3>1, <3>2, <3>4
      <4> QED  BY <2>2, <3>3, <3>4, <3>5, <4>1, Zenon DEF Chain
    <3> QED  BY <1>5, <3>4, <3>6 DEF IInv, Quiet
  <2>5. CASE n = 2
    <3>1. Head(flow.todo) = "pack" /\ Len(flow'.todo) = 1
      BY <1>1, <2>1, <2>2, <2>5, FlashTail
    <3>2. artefact'["fs"] = flow.emitted /\ sram' = sram /\ spi' = spi
      BY <1>1, <1>3, <1>6, <2>1, <2>5, <3>1
      DEF IInv, FlowShape, Chain, ToolInput, ToolOutput, Files
    <3>3. flow'.todo # <<>>
      BY <1>1, <1>2, <2>1, <2>5, FlashTail
    <3>4. /\ flow'.rc = 0 /\ flow'.cmd = "flash" /\ ~flow'.dry
          /\ flow'.emitted = flow.emitted /\ flow'.was = flow.was
      BY <1>1, <1>2, <1>6, <2>1 DEF FlowFields
    <3>5. Untouched'
      BY <2>1, <3>2, <3>4 DEF Untouched
    <3>6. Chain'
      <4>1. /\ Len(flow'.todo) = 4 => flow'.emitted = [top |-> source', header |-> header']
            /\ Len(flow'.todo) = 3 => artefact'["json"] = flow'.emitted
            /\ Len(flow'.todo) = 2 => artefact'["pnr"] = flow'.emitted
            /\ Len(flow'.todo) = 1 => artefact'["fs"] = flow'.emitted
            /\ Len(flow'.todo) = 0 => Written'
        BY <3>1, <3>2, <3>4
      <4> QED  BY <2>2, <3>3, <3>4, <3>5, <4>1, Zenon DEF Chain
    <3> QED  BY <1>5, <3>4, <3>6 DEF IInv, Quiet
  <2>6. CASE n = 1
    <3>1. Head(flow.todo) = "load" /\ Len(flow'.todo) = 0 /\ artefact["fs"] = flow.emitted
      BY <1>1, <1>6, <2>1, <2>2, <2>6, FlashTail DEF IInv, Chain
    <3>2. flow'.todo = <<>>
      BY <1>1, <1>2, <2>1, <2>6, FlashTail
    <3>3. Written'
      BY <1>2, <1>4, <2>1, <3>1 DEF Load, Written, Untouched, FlowFields
    <3>4. flow'.cmd = "flash" /\ ~flow'.dry
      BY <1>1, <1>2, <1>6 DEF FlowFields
    <3>5. Len(flow'.todo) \notin 1 .. 4
      BY <3>1
    <3>6. Chain'
      <4>1. /\ Len(flow'.todo) = 4 => flow'.emitted = [top |-> source', header |-> header']
            /\ Len(flow'.todo) = 3 => artefact'["json"] = flow'.emitted
            /\ Len(flow'.todo) = 2 => artefact'["pnr"] = flow'.emitted
            /\ Len(flow'.todo) = 1 => artefact'["fs"] = flow'.emitted
            /\ Len(flow'.todo) = 0 => Written'
        BY <3>3, <3>5
      <4> QED  BY <2>2, <3>2, <3>4, <4>1, Zenon DEF Chain
    <3> QED  BY <1>5, <3>4, <3>6 DEF IInv, Quiet
  <2> QED  BY <2>2, <2>3, <2>4, <2>5, <2>6
<1>7. CASE flow.cmd \notin {"flash", "none"}
  <2>1. flow'.todo \in QuietTodos /\ Head(flow.todo) # "load"
    BY <1>1, <1>2, <1>7, QuietTail DEF IInv, Quiet
  <2> QED  BY <1>1, <1>2, <1>3, <1>5, <1>7, <2>1, QuietGoesOn DEF IInv, FlowFields
<1>8. CASE flow.cmd = "none"
  BY <1>2, <1>5, <1>8 DEF IInv, Quiet, Chain, FlowFields
<1> QED  BY <1>6, <1>7, <1>8

LEMMA ToolFailsInv == IInv /\ ToolFails => IInv'
<1> SUFFICES ASSUME IInv, ToolFails PROVE IInv'  OBVIOUS
<1>1. /\ flow.todo # <<>> /\ ~flow.dry
      /\ flow' = [flow EXCEPT !.todo = <<>>, !.rc = 1]
      /\ artefact' = artefact
      /\ (sram' = sram /\ spi' = spi) \/ Head(flow.todo) = "load"
  BY DEF ToolFails, Failed
<1>2. /\ flow'.todo = <<>> /\ flow'.rc = 1
      /\ \A x \in FlowFields \ {"todo", "rc"} : flow'[x] = flow[x]
  BY <1>1 DEF IInv, FlowShape, FlowFields
<1>3. FlowShape'
  BY <1>1, <1>2 DEF IInv, FlowShape, FlowFields
<1>4. CASE flow.cmd = "flash"
  BY <1>1, <1>2, <1>3, <1>4 DEF IInv, Quiet, Chain, FlashTodos, FlowFields
<1>5. CASE flow.cmd \notin {"flash", "none"}
  <2>1. sram' = sram /\ spi' = spi
    BY <1>1, <1>5, QuietTail DEF IInv, Quiet
  <2>2. flow'.todo \in QuietTodos
    BY <1>2 DEF QuietTodos
  <2> QED  BY <1>2, <1>3, <1>5, <2>1, <2>2, QuietGoesOn DEF IInv, FlowFields
<1>6. CASE flow.cmd = "none"
  BY <1>2, <1>3, <1>6 DEF IInv, Quiet, Chain, FlowFields
<1> QED  BY <1>4, <1>5, <1>6

\* Whatever happens while no command runs.
LEMMA IdleStep ==
    ASSUME IInv, FlowIdle, UNCHANGED <<artefact, flow>>
    PROVE  IInv'
BY DEF IInv, FlowShape, FlowIdle, Quiet, Chain

LEMMA UnchangedStep == IInv /\ UNCHANGED flowVars => IInv'
<1> SUFFICES ASSUME IInv, UNCHANGED flowVars PROVE IInv'  OBVIOUS
<1> QED  BY DEF flowVars, IInv, FlowShape, Quiet, Chain, Untouched, Written

LEMMA NextIInv == IInv /\ [BringUpNext]_bringUpVars => IInv'
<1> SUFFICES ASSUME IInv, [BringUpNext]_bringUpVars PROVE IInv'  OBVIOUS
<1>1. CASE BoardCommand
  BY <1>1, PrepareStep DEF BoardCommand
<1>2. CASE EditCommand \/ SocFlashCommand \/ PowerCycleCommand
  BY <1>2, IdleStep DEF EditCommand, Edit, SocFlashCommand, SocFlash, PowerCycleCommand, PowerCycle
<1>3. CASE FlowRuns
  <2>1. CASE FlowReturns
    <3>1. flow' = NoFlow /\ artefact' = artefact
      BY <2>1 DEF FlowReturns
    <3> QED  BY <3>1 DEF IInv, FlowShape, FlowFields, Quiet, Chain, NoFlow
  <2> QED  BY <1>3, <2>1, DryStepInv, ToolWorksInv, ToolFailsInv DEF FlowRuns, FlowStep
<1>4. CASE CatalogCommand \/ BenchCommand \/ HostRuns \/ TimeRuns \/ PortRuns \/ BoardRuns
  BY <1>4, UnchangedStep DEF CatalogCommand, BenchCommand, HostRuns, TimeRuns, PortRuns, BoardRuns
<1>5. CASE UNCHANGED bringUpVars
  BY <1>5, UnchangedStep DEF bringUpVars, flowVars
<1> QED  BY <1>1, <1>2, <1>3, <1>4, <1>5 DEF BringUpNext

LEMMA IInvFlashed == IInv => FlashedIsThisBuild
<1> SUFFICES ASSUME IInv, FlowExited PROVE FlashedIsThisBuild
  BY DEF FlashedIsThisBuild
<1>1. flow.cmd # "none" /\ flow.todo = <<>> /\ Len(flow.todo) = 0
  BY Empty DEF FlowExited
<1> QED  BY <1>1 DEF IInv, FlowShape, Quiet, Chain, Untouched, Written, FlashedIsThisBuild

-----------------------------------------------------------------------------
(* A flash that exits with 0 left the image of its own sources in the      *)
(* memory it was asked to write, and everything that is not a flash left   *)
(* the board alone, after any history of failed builds, edits and          *)
(* power cycles (ascon_boards/__main__.py).                                *)
THEOREM FlashIsThisBuild == BringUpSpec => []FlashedIsThisBuild
<1>1. BringUpInit => IInv
  BY InitIInv
<1>2. IInv /\ [BringUpNext]_bringUpVars => IInv'
  BY NextIInv
<1>3. IInv => FlashedIsThisBuild
  BY IInvFlashed
<1> QED  BY <1>1, <1>2, <1>3, PTL DEF BringUpSpec

-----------------------------------------------------------------------------
(* Induction.  The library states it for operators; these lemmas are about  *)
(* sets and functions.                                                     *)

NatLess == {p \in Nat \X Nat : p[1] < p[2]}

LEMMA Least ==
    ASSUME NEW T \in SUBSET Nat, T # {}
    PROVE  \E x \in T : \A y \in T : x <= y
<1>1. IsWellFoundedOn(NatLess, Nat)
  BY NatLessThanWellFounded DEF OpToRel, NatLess
<1>2. PICK x \in T : \A y \in T : <<y, x>> \notin NatLess
  BY <1>1, WFMin
<1>3. ASSUME NEW y \in T PROVE x <= y
  <2>1. <<y, x>> \in Nat \X Nat /\ <<y, x>>[1] = y /\ <<y, x>>[2] = x
    OBVIOUS
  <2> QED  BY <1>2, <2>1 DEF NatLess
<1> QED  BY <1>3

LEMMA Induction ==
    ASSUME NEW X \in SUBSET Nat, 0 \in X, \A n \in X : n + 1 \in X
    PROVE  X = Nat
<1> SUFFICES ASSUME Nat \ X # {} PROVE FALSE
  OBVIOUS
<1>1. PICK x \in Nat \ X : \A y \in Nat \ X : x <= y
  BY Least
<1>2. x - 1 \in X
  BY <1>1
<1> QED  BY <1>1, <1>2

\* The same up to a bound.
LEMMA BoundedInduction ==
    ASSUME NEW n \in Nat, NEW X, 0 \in X, \A k \in 0..(n - 1) : k \in X => k + 1 \in X
    PROVE  \A k \in 0..n : k \in X
<1> DEFINE T == {k \in Nat : k <= n => k \in X}
<1>1. 0 \in T /\ \A k \in T : k + 1 \in T
  OBVIOUS
<1>2. T = Nat
  BY <1>1, Induction
<1> QED  BY <1>2

Iterates(f, X, v, n, step) ==
    f \in [0..n -> X] /\ f[0] = v /\ \A k \in 1..n : f[k] = step[k][f[k - 1]]

\* A function that is defined along 0..n, one application at a time, exists.
LEMMA Iteration ==
    ASSUME NEW X, NEW v \in X, NEW n \in Nat, NEW step \in [1..n -> [X -> X]]
    PROVE  \E f : Iterates(f, X, v, n, step)
<1> DEFINE Upto(m, f) == /\ f \in [0..m -> X] /\ f[0] = v
                         /\ \A k \in 1..m : f[k] = step[k][f[k - 1]]
           Good       == {m \in Nat : m <= n => \E f \in [0..m -> X] : Upto(m, f)}
<1>1. 0 \in Good
  <2>1. Upto(0, [k \in 0..0 |-> v])
    OBVIOUS
  <2> QED  BY <2>1
<1>2. ASSUME NEW m \in Good PROVE m + 1 \in Good
  <2>a. m \in Nat /\ m + 1 \in Nat /\ (m <= n => \E f \in [0..m -> X] : Upto(m, f))
    OBVIOUS
  <2> SUFFICES ASSUME m + 1 <= n PROVE \E f \in [0..(m + 1) -> X] : Upto(m + 1, f)
    BY <2>a
  <2>1. PICK f \in [0..m -> X] : Upto(m, f)
    BY <2>a
  <2> DEFINE g == [k \in 0..(m + 1) |-> IF k = m + 1 THEN step[m + 1][f[m]] ELSE f[k]]
  <2>2. step[m + 1][f[m]] \in X
    BY <2>1
  <2>3. g \in [0..(m + 1) -> X]
    BY <2>1, <2>2
  <2>4. \A k \in 1..(m + 1) : g[k] = step[k][g[k - 1]]
    BY <2>1
  <2>5. g[0] = v
    BY <2>1
  <2>6. Upto(m + 1, g)
    BY <2>3, <2>4, <2>5
  <2> QED  BY <2>3, <2>6
<1>3. Good = Nat
  <2> HIDE DEF Good
  <2>1. Good \in SUBSET Nat
    BY DEF Good
  <2> QED  BY <1>1, <1>2, <2>1, Induction
<1>4. n \in Good
  BY <1>3
<1> HIDE DEF Upto
<1>5. \E f \in [0..n -> X] : Upto(n, f)
  BY <1>4
<1> QED  BY <1>5 DEF Upto, Iterates

-----------------------------------------------------------------------------
(* Facts about the items of a sequence that are in a set.                  *)

\* f[i] is what is kept of the first i items.
KeepsAlong(f, s, set, X) ==
    /\ f \in [0 .. Len(s) -> Seq(X)] /\ f[0] = <<>>
    /\ \A i \in 1 .. Len(s) : f[i] = IF s[i] \in set THEN Append(f[i - 1], s[i]) ELSE f[i - 1]

LEMMA OnlyAlong ==
    ASSUME NEW X, NEW s \in Seq(X), NEW set
    PROVE  \E f : KeepsAlong(f, s, set, X) /\ Only(s, set) = f[Len(s)]
<1> DEFINE n       == Len(s)
           step    == [i \in 1 .. n |->
                          [q \in Seq(X) |-> IF s[i] \in set THEN Append(q, s[i]) ELSE q]]
           body(g) == [i \in 0 .. Len(s) |->
                          IF i = 0 THEN <<>>
                          ELSE IF s[i] \in set THEN Append(g[i - 1], s[i]) ELSE g[i - 1]]
           t       == CHOOSE g : g = body(g)
<1>1. n \in Nat /\ \A i \in 1 .. n : s[i] \in X
  OBVIOUS
<1>2. step \in [1 .. n -> [Seq(X) -> Seq(X)]]
  <2> SUFFICES ASSUME NEW i \in 1 .. n, NEW q \in Seq(X)
               PROVE  (IF s[i] \in set THEN Append(q, s[i]) ELSE q) \in Seq(X)
    OBVIOUS
  <2> QED  BY <1>1
<1>3. <<>> \in Seq(X)
  OBVIOUS
<1>4. PICK f : Iterates(f, Seq(X), <<>>, n, step)
  <2> HIDE DEF step, n
  <2> QED  BY <1>1, <1>2, <1>3, Iteration
<1>5. KeepsAlong(f, s, set, X)
  <2>1. \A i \in 1 .. n, q \in Seq(X) : step[i][q] = IF s[i] \in set THEN Append(q, s[i]) ELSE q
    OBVIOUS
  <2> HIDE DEF step
  <2>2. f \in [0 .. n -> Seq(X)] /\ f[0] = <<>>
    BY <1>4 DEF Iterates
  <2>3. ASSUME NEW i \in 1 .. n
        PROVE  f[i] = IF s[i] \in set THEN Append(f[i - 1], s[i]) ELSE f[i - 1]
    <3>1. f[i] = step[i][f[i - 1]]
      BY <1>4 DEF Iterates
    <3>2. f[i - 1] \in Seq(X)
      BY <1>1, <2>2
    <3> QED  BY <2>1, <3>1, <3>2
  <2> QED  BY <2>2, <2>3 DEF KeepsAlong
<1>6. f = body(f)
  <2>1. /\ f = [i \in 0 .. Len(s) |-> f[i]]
        /\ \A i \in 0 .. Len(s) :
              f[i] = IF i = 0 THEN <<>>
                     ELSE IF s[i] \in set THEN Append(f[i - 1], s[i]) ELSE f[i - 1]
    <3>1. f = [i \in 0 .. Len(s) |-> f[i]] /\ f[0] = <<>>
      BY <1>5 DEF KeepsAlong
    <3>2. \A i \in 1 .. Len(s) : f[i] = IF s[i] \in set THEN Append(f[i - 1], s[i]) ELSE f[i - 1]
      BY <1>5 DEF KeepsAlong
    <3>3. \A i \in 0 .. Len(s) : i # 0 => i \in 1 .. Len(s)
      BY <1>1
    <3> QED  BY <3>1, <3>2, <3>3
  <2> QED  BY <2>1
<1>7. t = body(t)
  <2> HIDE DEF body
  <2> QED  BY <1>6
<1>8. Only(s, set) = t[n]
  BY DEF Only
<1>9. t \in [0 .. n -> Seq(X)] /\ t = f
  <2> HIDE DEF t
  <2> DEFINE Same == {i \in 0 .. n : t[i] = f[i]}
  <2>1. 0 \in Same
    BY <1>1, <1>5, <1>7 DEF KeepsAlong
  <2>2. ASSUME NEW k \in 0 .. (n - 1), k \in Same PROVE k + 1 \in Same
    <3>1. k + 1 \in 1 .. n /\ (k + 1) - 1 = k
      BY <1>1
    <3>2. t[k + 1] = IF s[k + 1] \in set THEN Append(t[k], s[k + 1]) ELSE t[k]
      <4>1. k + 1 \in 0 .. Len(s) /\ k + 1 # 0
        BY <1>1, <3>1
      <4>2. body(t)[k + 1] = IF s[k + 1] \in set THEN Append(t[(k + 1) - 1], s[k + 1])
                            ELSE t[(k + 1) - 1]
        BY <4>1
      <4> HIDE DEF body
      <4> QED  BY <1>7, <3>1, <4>2
    <3>3. f[k + 1] = IF s[k + 1] \in set THEN Append(f[k], s[k + 1]) ELSE f[k]
      BY <1>5, <3>1 DEF KeepsAlong
    <3> QED  BY <2>2, <3>1, <3>2, <3>3
  <2>3. \A i \in 0 .. n : i \in Same
    <3> HIDE DEF Same
    <3> QED  BY <1>1, <2>1, <2>2, BoundedInduction
  <2>4. DOMAIN t = 0 .. n /\ t = [i \in 0 .. n |-> t[i]]
    BY <1>7
  <2>5. f = [i \in 0 .. n |-> f[i]]
    BY <1>5 DEF KeepsAlong
  <2>6. t = f
    BY <2>3, <2>4, <2>5
  <2> QED  BY <1>5, <2>6 DEF KeepsAlong
<1> QED  BY <1>5, <1>8, <1>9

LEMMA OnlyIsSeq ==
    ASSUME NEW X, NEW s \in Seq(X), NEW set
    PROVE  Only(s, set) \in Seq(X \cap set)
<1>1. PICK f : KeepsAlong(f, s, set, X) /\ Only(s, set) = f[Len(s)]
  BY OnlyAlong
<1> DEFINE Good == {i \in 0 .. Len(s) : f[i] \in Seq(X \cap set)}
<1>2. 0 \in Good
  BY <1>1 DEF KeepsAlong
<1>3. ASSUME NEW k \in 0 .. (Len(s) - 1), k \in Good PROVE k + 1 \in Good
  <2>1. f[k + 1] = IF s[k + 1] \in set THEN Append(f[k], s[k + 1]) ELSE f[k]
    BY <1>1 DEF KeepsAlong
  <2>2. s[k + 1] \in X
    OBVIOUS
  <2>3. s[k + 1] \in set => s[k + 1] \in X \cap set
    BY <2>2
  <2>4. f[k] \in Seq(X \cap set)
    BY <1>3
  <2>5. f[k + 1] \in Seq(X \cap set)
    BY <2>1, <2>3, <2>4
  <2> QED  BY <2>5
<1>4. \A i \in 0 .. Len(s) : i \in Good
  <2> HIDE DEF Good
  <2> QED  BY <1>2, <1>3, BoundedInduction
<1> QED  BY <1>1, <1>4

LEMMA OnlyOfEmpty ==
    ASSUME NEW set
    PROVE  Only(<<>>, set) = <<>>
<1>1. <<>> \in Seq({}) /\ Len(<<>>) = 0
  OBVIOUS
<1>2. PICK f : KeepsAlong(f, <<>>, set, {}) /\ Only(<<>>, set) = f[Len(<<>>)]
  BY <1>1, OnlyAlong
<1> QED  BY <1>1, <1>2 DEF KeepsAlong

AppendsLast(a, b, x) == Append(a \o b, x) = a \o Append(b, x)

LEMMA AppendOfConcat ==
    ASSUME NEW X, NEW a \in Seq(X), NEW b \in Seq(X), NEW x \in X
    PROVE  AppendsLast(a, b, x)
<1> SUFFICES Append(a \o b, x) = a \o Append(b, x)
  BY DEF AppendsLast
<1>1. a \o b \in Seq(X) /\ Append(b, x) = b \o <<x>> /\ <<x>> \in Seq(X)
  BY ConcatProperties, AppendIsConcat
<1>2. Append(a \o b, x) = (a \o b) \o <<x>>
  BY <1>1, AppendIsConcat
<1> QED  BY <1>1, <1>2, ConcatAssociative

LEMMA OnlyOfConcat ==
    ASSUME NEW X, NEW s \in Seq(X), NEW t \in Seq(X), NEW set
    PROVE  Only(s \o t, set) = Only(s, set) \o Only(t, set)
<1> DEFINE u == s \o t
<1>0. /\ u \in Seq(X) /\ Len(u) = Len(s) + Len(t) /\ Len(s) \in Nat /\ Len(t) \in Nat
      /\ \A i \in 1 .. Len(s) : u[i] = s[i]
      /\ \A i \in 1 .. Len(t) : u[Len(s) + i] = t[i]
  OBVIOUS
<1>1. PICK f : KeepsAlong(f, s, set, X) /\ Only(s, set) = f[Len(s)]
  BY OnlyAlong
<1>2. PICK g : KeepsAlong(g, t, set, X) /\ Only(t, set) = g[Len(t)]
  BY OnlyAlong
<1>3. PICK h : KeepsAlong(h, u, set, X) /\ Only(u, set) = h[Len(u)]
  BY <1>0, OnlyAlong
<1>4. h[Len(s)] = f[Len(s)]
  <2> DEFINE Same == {i \in 0 .. Len(s) : h[i] = f[i]}
  <2>1. 0 \in Same
    BY <1>0, <1>1, <1>3 DEF KeepsAlong
  <2>2. ASSUME NEW k \in 0 .. (Len(s) - 1), k \in Same PROVE k + 1 \in Same
    <3>1. k + 1 \in 1 .. Len(s) /\ k + 1 \in 1 .. Len(u) /\ (k + 1) - 1 = k /\ u[k + 1] = s[k + 1]
      BY <1>0
    <3>2. h[k + 1] = IF u[k + 1] \in set THEN Append(h[k], u[k + 1]) ELSE h[k]
      BY <1>3, <3>1 DEF KeepsAlong
    <3>3. f[k + 1] = IF s[k + 1] \in set THEN Append(f[k], s[k + 1]) ELSE f[k]
      BY <1>1, <3>1 DEF KeepsAlong
    <3> QED  BY <2>2, <3>1, <3>2, <3>3
  <2>3. \A i \in 0 .. Len(s) : i \in Same
    <3> HIDE DEF Same
    <3> QED  BY <1>0, <2>1, <2>2, BoundedInduction
  <2> QED  BY <1>0, <2>3
<1>5. h[Len(s) + Len(t)] = f[Len(s)] \o g[Len(t)]
  <2> DEFINE Joined == {i \in 0 .. Len(t) : h[Len(s) + i] = f[Len(s)] \o g[i]}
  <2>0. f[Len(s)] \in Seq(X) /\ \A i \in 0 .. Len(t) : g[i] \in Seq(X)
    <3>1. f \in [0 .. Len(s) -> Seq(X)] /\ g \in [0 .. Len(t) -> Seq(X)]
      BY <1>1, <1>2 DEF KeepsAlong
    <3>2. Len(s) \in 0 .. Len(s)
      BY <1>0
    <3> QED  BY <3>1, <3>2
  <2>1. 0 \in Joined
    <3>1. f[Len(s)] \o <<>> = f[Len(s)]
      BY <2>0
    <3>2. g[0] = <<>> /\ Len(s) + 0 = Len(s) /\ 0 \in 0 .. Len(t)
      BY <1>0, <1>2 DEF KeepsAlong
    <3> QED  BY <1>4, <3>1, <3>2
  <2>2. ASSUME NEW k \in 0 .. (Len(t) - 1), k \in Joined PROVE k + 1 \in Joined
    <3> DEFINE a == f[Len(s)]
               b == g[k]
               x == t[k + 1]
               p == Len(s) + (k + 1)
    <3>1. /\ k + 1 \in 1 .. Len(t) /\ p \in 1 .. Len(u) /\ p - 1 = Len(s) + k
          /\ (k + 1) - 1 = k /\ u[p] = x
      BY <1>0
    <3>2. h[p] = IF x \in set THEN Append(h[Len(s) + k], x) ELSE h[Len(s) + k]
      BY <1>3, <3>1 DEF KeepsAlong
    <3>3. g[k + 1] = IF x \in set THEN Append(b, x) ELSE b
      BY <1>2, <3>1 DEF KeepsAlong
    <3>4. a \in Seq(X) /\ b \in Seq(X) /\ x \in X
      BY <1>0, <2>0
    <3>5. h[Len(s) + k] = a \o b
      BY <2>2
    <3>6. Append(a \o b, x) = a \o Append(b, x)
      <4> HIDE DEF a, b, x
      <4>1. AppendsLast(a, b, x)
        BY <3>4, AppendOfConcat
      <4> QED  BY <4>1 DEF AppendsLast
    <3>7. h[p] = a \o g[k + 1]
      BY <3>2, <3>3, <3>5, <3>6
    <3>8. k + 1 \in 0 .. Len(t)
      BY <3>1
    <3> QED  BY <3>7, <3>8
  <2>3. \A i \in 0 .. Len(t) : i \in Joined
    <3> HIDE DEF Joined
    <3> QED  BY <1>0, <2>1, <2>2, BoundedInduction
  <2>4. Len(t) \in Joined
    <3> HIDE DEF Joined
    <3>1. Len(t) \in 0 .. Len(t)
      BY <1>0
    <3> QED  BY <2>3, <3>1
  <2> QED  BY <2>4
<1> QED  BY <1>0, <1>1, <1>2, <1>3, <1>5

LEMMA OnlyOfOne ==
    ASSUME NEW x, NEW set
    PROVE  Only(<<x>>, set) = IF x \in set THEN <<x>> ELSE <<>>
<1>1. <<x>> \in Seq({x}) /\ Len(<<x>>) = 1 /\ <<x>>[1] = x
  OBVIOUS
<1>2. PICK f : KeepsAlong(f, <<x>>, set, {x}) /\ Only(<<x>>, set) = f[Len(<<x>>)]
  BY <1>1, OnlyAlong
<1>3. f[0] = <<>> /\ f[1] = IF x \in set THEN Append(f[0], x) ELSE f[0]
  BY <1>1, <1>2 DEF KeepsAlong
<1>4. Append(<<>>, x) = <<x>>
  OBVIOUS
<1> QED  BY <1>1, <1>2, <1>3, <1>4

LEMMA OnlyHas ==
    ASSUME NEW X, NEW s \in Seq(X), NEW set
    PROVE  Range(Only(s, set)) = Range(s) \cap set
<1>1. PICK f : KeepsAlong(f, s, set, X) /\ Only(s, set) = f[Len(s)]
  BY OnlyAlong
<1> DEFINE Seen(i) == {s[j] : j \in 1 .. i} \cap set
           Good    == {i \in 0 .. Len(s) : Range(f[i]) = Seen(i)}
<1>2. Len(s) \in Nat /\ DOMAIN s = 1 .. Len(s) /\ \A i \in 1 .. Len(s) : s[i] \in X
  OBVIOUS
<1>3. 0 \in Good
  <2>1. Range(<<>>) = {}
    BY DEF Range
  <2>2. Seen(0) = {}
    OBVIOUS
  <2> QED  BY <1>1, <1>2, <2>1, <2>2 DEF KeepsAlong
<1>4. ASSUME NEW k \in 0 .. (Len(s) - 1), k \in Good PROVE k + 1 \in Good
  <2> DEFINE x == s[k + 1]
  <2>1. k + 1 \in 1 .. Len(s) /\ k \in 0 .. Len(s) /\ (k + 1) - 1 = k
    BY <1>2
  <2>2. f[k + 1] = IF x \in set THEN Append(f[k], x) ELSE f[k]
    BY <1>1, <2>1 DEF KeepsAlong
  <2>3. {s[j] : j \in 1 .. (k + 1)} = {s[j] : j \in 1 .. k} \cup {x}
    <3>1. 1 .. (k + 1) = 1 .. k \cup {k + 1}
      BY <2>1
    <3> QED  BY <3>1
  <2>4. f[k] \in Seq(X) /\ x \in X
    BY <1>1, <1>2, <2>1 DEF KeepsAlong
  <2>5. Range(Append(f[k], x)) = Range(f[k]) \cup {x}
    <3> DEFINE q == f[k]
    <3>0. q \in Seq(X) /\ x \in X
      BY <2>4
    <3> HIDE DEF q, x
    <3>1. /\ DOMAIN Append(q, x) = 1 .. (Len(q) + 1) /\ DOMAIN q = 1 .. Len(q) /\ Len(q) \in Nat
          /\ Append(q, x)[Len(q) + 1] = x /\ \A i \in 1 .. Len(q) : Append(q, x)[i] = q[i]
      BY <3>0
    <3>2. 1 .. (Len(q) + 1) = 1 .. Len(q) \cup {Len(q) + 1}
      BY <3>1
    <3>3. Range(Append(q, x)) = Range(q) \cup {x}
      BY <3>1, <3>2 DEF Range
    <3> QED  BY <3>3 DEF q
  <2>6. Range(f[k]) = Seen(k)
    BY <1>4
  <2>7. Range(f[k + 1]) = Seen(k + 1)
    <3> HIDE DEF x
    <3> QED  BY <2>2, <2>3, <2>5, <2>6
  <2> QED  BY <2>1, <2>7
<1>5. \A i \in 0 .. Len(s) : i \in Good
  <2> HIDE DEF Good
  <2> QED  BY <1>2, <1>3, <1>4, BoundedInduction
<1>6. Range(f[Len(s)]) = Seen(Len(s))
  <2>1. Len(s) \in 0 .. Len(s)
    BY <1>2
  <2>2. Len(s) \in Good
    <3> HIDE DEF Good
    <3> QED  BY <1>5, <2>1
  <2> QED  BY <2>2
<1> QED  BY <1>1, <1>2, <1>6 DEF Range

-----------------------------------------------------------------------------
(* The invariant of the upload and the capture.                            *)

BootStates == {"off", "countdown", "prompt", "loading", "running", "done", "halted"}

BootRecords == [st : BootStates, got : 0 .. Chunks, bad : BOOLEAN, exe : BOOLEAN,
                ran : 0 .. Cases + 1]

\* The image is not complete while it is awaited; a program ran if it runs or is done.
BootOK(b) ==
    /\ b \in BootRecords
    /\ b.st = "loading" => b.got < Chunks
    /\ b.ran > 0 <=> b.st \in {"running", "done"}

HostRecords == [phase : Phases, sent : 0 .. Chunks, log : Seq(Lines), early : BOOLEAN,
                clean : BOOLEAN, headline : {"none"} \cup Verdicts]

PlacesOK ==
    /\ BootOK(boot) /\ host \in HostRecords
    /\ wire \in Seq(Wires) /\ said \in Seq(Lines)
    /\ up \in BOOLEAN /\ faults \in 0 .. MaxFaults

\* The phases whose lines belong to this command's program.
After == {"upload", "send", "ack", "execute", "log", "listen"}

Reported == host.phase = "exited" /\ host.headline # "none"

PortOK ==
    /\ host.phase \in {"idle", "exited"} => ~up
    /\ host.phase = "idle" => wire = <<>>
    /\ host.phase \notin {"idle", "exited"} /\ host.clean => up

\* Lines come from a program that ran since the board was last configured.
RanOK ==
    /\ host.phase \in After /\ CaseLines(wire) # <<>> => boot.ran > 0
    /\ host.phase # "idle" /\ ~host.early /\ host.log # <<>> => boot.ran > 0

LogOK ==
    /\ host.phase \in {"nudge", "reset"} /\ ~host.early => host.log = <<>>
    /\ host.phase = "listen" => ~host.early
    /\ host.headline # "none" => host.phase = "exited" /\ host.headline = Headline(host.log)

\* While no operation on the port raised, what the board printed is in the log or on
\* the wire.
Follows ==
    host.clean /\ ~host.early /\ (host.phase \in After \/ Reported) =>
        said = host.log \o CaseLines(wire)

BenchInv == PlacesOK /\ PortOK /\ RanOK /\ LogOK /\ Follows

\* What the host waits for before it uploads.
Prompts == {"Bootloader", "CMD"}

\* After a prompt no program runs, and none of its lines is printed.
PromptsLast(b, w) ==
    \A i \in 1 .. Len(w) :
        w[i] \in Prompts => b.st # "running" /\ \A j \in i .. Len(w) : w[j] \notin Lines

\* What is left on the wire when the prompt has been read is no case, flushed or not.
PromptsOK ==
    /\ host.phase = "nudge" => PromptsLast(boot, wire)
    /\ host.phase = "reset" => boot.st # "running" /\ CaseLines(wire) = <<>>

\* The board's command and the bench's are given one after the other.
OneAtATime == FlowIdle \/ host.phase = "idle"

-----------------------------------------------------------------------------
(* The board.                                                              *)

\* What it prints that is neither a case nor a verdict.
Plain == {"Bootloader", "CMD", "OK", "ERROR"}

\* The board took what it was sent.
BoardMoves ==
    /\ BootOK(boot') /\ (boot.ran > 0 => boot'.ran > 0)
    /\ wire' \in Seq(Wires) /\ CaseLines(wire') = CaseLines(wire)

LEMMA NoCaseLines ==
    ASSUME NEW X, NEW p \in Seq(X), X \cap Lines = {}
    PROVE  CaseLines(p) = <<>>
<1> DEFINE q == Only(p, Lines)
<1>1. q \in Seq(X \cap Lines)
  BY OnlyIsSeq
<1>2. q \in Seq({})
  BY <1>1
<1> HIDE DEF q
<1>3. q = <<>>
  BY <1>2
<1> QED  BY <1>3 DEF q, CaseLines

LEMMA PlainHasNoCase ==
    ASSUME NEW p \in Seq(Plain)
    PROVE  CaseLines(p) = <<>>
<1>1. Plain \cap Lines = {}
  BY DEF Plain, Lines, Measured
<1> QED  BY <1>1, NoCaseLines

LEMMA CaseLinesOfConcat ==
    ASSUME NEW s \in Seq(Wires), NEW t \in Seq(Wires)
    PROVE  /\ CaseLines(s \o t) = CaseLines(s) \o CaseLines(t)
           /\ CaseLines(s) \in Seq(Lines) /\ CaseLines(t) \in Seq(Lines)
           /\ s \o t \in Seq(Wires)
<1>1. Only(s \o t, Lines) = Only(s, Lines) \o Only(t, Lines)
  BY OnlyOfConcat
<1>2. Only(s, Lines) \in Seq(Wires \cap Lines) /\ Only(t, Lines) \in Seq(Wires \cap Lines)
  BY OnlyIsSeq
<1>3. Wires \cap Lines = Lines
  BY DEF Wires
<1> QED  BY <1>1, <1>2, <1>3 DEF CaseLines

LEMMA CaseLinesType ==
    ASSUME NEW s \in Seq(Wires)
    PROVE  CaseLines(s) \in Seq(Lines)
BY CaseLinesOfConcat

LEMMA HearsPlain ==
    ASSUME NEW p \in Seq(Plain), wire \in Seq(Wires), wire' = Hears(p)
    PROVE  wire' \in Seq(Wires) /\ CaseLines(wire') = CaseLines(wire)
<1>1. CASE ~up
  BY <1>1 DEF Hears
<1>2. CASE up
  <2>1. p \in Seq(Wires)
    BY DEF Plain, Wires
  <2>2. wire' = wire \o p
    BY <1>2 DEF Hears
  <2>3. CaseLines(wire \o p) = CaseLines(wire) \o <<>>
    BY <2>1, CaseLinesOfConcat, PlainHasNoCase
  <2>4. CaseLines(wire) \o <<>> = CaseLines(wire)
    BY CaseLinesType
  <2>5. wire \o p \in Seq(Wires)
    BY <2>1
  <2> QED  BY <2>2, <2>3, <2>4, <2>5
<1> QED  BY <1>1, <1>2

LEMMA AnswersMoves ==
    ASSUME NEW b, BootOK(b), boot.ran > 0 => b.ran > 0, wire \in Seq(Wires),
           NEW p \in Seq(Plain), Answers(b, p)
    PROVE  BoardMoves
BY HearsPlain DEF Answers, BoardMoves

LEMMA PlainSeqs ==
    /\ <<>> \in Seq(Plain) /\ <<"ERROR">> \in Seq(Plain) /\ <<"OK", "CMD">> \in Seq(Plain)
    /\ <<"CMD">> \in Seq(Plain) /\ <<"ERROR", "CMD">> \in Seq(Plain)
    /\ <<"Bootloader">> \in Seq(Plain)
BY DEF Plain

LEMMA LoadEndsMoves ==
    ASSUME NEW b \in BootRecords, b.ran = 0, boot.ran = 0, wire \in Seq(Wires), LoadEnds(b)
    PROVE  BoardMoves
<1>1. CASE b.bad
  <2> DEFINE c == [b EXCEPT !.st = "halted"]
  <2>1. BootOK(c) /\ c.ran = 0
    BY DEF BootOK, BootRecords, BootStates
  <2>2. Answers(c, <<"ERROR">>)
    BY <1>1 DEF LoadEnds
  <2> HIDE DEF c
  <2> QED  BY <2>1, <2>2, AnswersMoves, PlainSeqs
<1>2. CASE ~b.bad
  <2> DEFINE c == [b EXCEPT !.st = "prompt", !.exe = TRUE]
  <2>1. BootOK(c) /\ c.ran = 0
    <3>1. c \in BootRecords /\ c.st = "prompt" /\ c.ran = 0
      BY DEF BootRecords, BootStates
    <3> HIDE DEF c
    <3> QED  BY <3>1 DEF BootOK
  <2>2. Answers(c, <<"OK", "CMD">>)
    BY <1>2 DEF LoadEnds
  <2> HIDE DEF c
  <2> QED  BY <2>1, <2>2, AnswersMoves, PlainSeqs
<1> QED  BY <1>1, <1>2

LEMMA ProcessorOK ==
    ASSUME NEW st \in {"off", "countdown", "loading"}
    PROVE  BootOK(Processor(st)) /\ Processor(st).ran = 0 /\ Processor(st).st = st
BY BenchAssumption DEF BootOK, BootRecords, BootStates, Processor

LEMMA ExecutesMoves ==
    ASSUME BootOK(boot), wire \in Seq(Wires), Executes
    PROVE  BoardMoves
<1> DEFINE c == [boot EXCEPT !.st = "running", !.ran = 1]
<1>1. BootOK(c) /\ c.ran > 0
  <2>1. boot \in BootRecords /\ 1 \in 0 .. Cases + 1
    BY BenchAssumption DEF BootOK
  <2>2. c \in BootRecords /\ c.st = "running" /\ c.ran = 1
    BY <2>1 DEF BootRecords, BootStates
  <2> HIDE DEF c
  <2> QED  BY <2>2 DEF BootOK
<1>2. Answers(c, <<>>)
  BY DEF Executes
<1> HIDE DEF c
<1> QED  BY <1>1, <1>2, AnswersMoves, PlainSeqs

LEMMA TakesGarbageMoves ==
    ASSUME BootOK(boot), boot.st \in {"countdown", "prompt"}, wire \in Seq(Wires), TakesGarbage
    PROVE  BoardMoves
<1>0. ~(boot.ran > 0)
  BY DEF BootOK
<1>1. CASE Answers([boot EXCEPT !.st = "prompt"], <<"CMD">>)
  <2> DEFINE c == [boot EXCEPT !.st = "prompt"]
  <2>1. BootOK(c)
    BY <1>0 DEF BootOK, BootRecords, BootStates
  <2>2. Answers(c, <<"CMD">>)
    BY <1>1
  <2> HIDE DEF c
  <2> QED  BY <1>0, <2>1, <2>2, AnswersMoves, PlainSeqs
<1>2. CASE Answers(Processor("countdown"), <<"Bootloader">>)
  BY <1>0, <1>2, AnswersMoves, PlainSeqs, ProcessorOK
<1>3. CASE Answers([Awaits EXCEPT !.bad = TRUE], <<>>)
  <2> DEFINE c == [Awaits EXCEPT !.bad = TRUE]
  <2>1. BootOK(c)
    <3>1. Awaits \in BootRecords /\ Awaits.st = "loading" /\ Awaits.got = 0 /\ Awaits.ran = 0
      BY BenchAssumption DEF BootRecords, BootStates, Awaits, Processor
    <3>2. c \in BootRecords /\ c.st = "loading" /\ c.got = 0 /\ c.ran = 0
      BY <3>1 DEF BootRecords
    <3> HIDE DEF c
    <3> QED  BY <3>2, BenchAssumption DEF BootOK
  <2>2. Answers(c, <<>>)
    BY <1>3
  <2> HIDE DEF c
  <2> QED  BY <1>0, <2>1, <2>2, AnswersMoves, PlainSeqs
<1>4. CASE Executes
  BY <1>4, ExecutesMoves
<1> QED  BY <1>1, <1>2, <1>3, <1>4 DEF TakesGarbage

Keys == -2 .. Chunks

LEMMA ReceivesMoves ==
    ASSUME BootOK(boot), wire \in Seq(Wires), NEW key \in Keys, Receives(key)
    PROVE  BoardMoves
<1> DEFINE image == key \in 1 .. Chunks
<1>a. /\ boot \in BootRecords /\ (boot.ran > 0 <=> boot.st \in {"running", "done"})
      /\ (boot.st = "loading" => boot.got < Chunks) /\ boot.st \in BootStates
      /\ boot.ran \in 0 .. Cases + 1 /\ boot.got \in 0 .. Chunks
  BY DEF BootOK, BootRecords
<1>1. CASE boot.st \in {"countdown", "prompt"} /\ image
  BY <1>1, TakesGarbageMoves DEF Receives
<1>2. CASE boot.st = "countdown" /\ ~image
  <2> DEFINE c == [boot EXCEPT !.st = "prompt"]
  <2>1. BootOK(c) /\ ~(boot.ran > 0)
    BY <1>a, <1>2 DEF BootOK, BootRecords, BootStates
  <2>2. Answers(c, <<"CMD">>)
    BY <1>2 DEF Receives
  <2> HIDE DEF c
  <2> QED  BY <2>1, <2>2, AnswersMoves, PlainSeqs
<1>3. CASE boot.st = "prompt" /\ ~image
  <2>0. AtPrompt(key)
    BY <1>3 DEF Receives
  <2>1. CASE key = KeyU
    <3>1. Answers(Processor("loading"), <<>>)
      BY <2>0, <2>1 DEF AtPrompt, Awaits, KeyU, KeyE
    <3>2. ~(boot.ran > 0)
      BY <1>a, <1>3
    <3> QED  BY <3>1, <3>2, AnswersMoves, PlainSeqs, ProcessorOK
  <2>2. CASE key = KeyE
    <3>1. IF boot.exe THEN Executes ELSE Answers(boot, <<"ERROR", "CMD">>)
      BY <2>0, <2>2 DEF AtPrompt, KeyU, KeyE
    <3> QED  BY <3>1, AnswersMoves, ExecutesMoves, PlainSeqs
  <2>3. CASE key # KeyU /\ key # KeyE
    <3>1. Answers(boot, <<"CMD">>)
      BY <2>0, <2>3 DEF AtPrompt
    <3> QED  BY <3>1, AnswersMoves, PlainSeqs
  <2> QED  BY <2>1, <2>2, <2>3
<1>4. CASE boot.st = "loading" /\ image
  <2> DEFINE c == [boot EXCEPT !.got = @ + 1, !.bad = @ \/ key # boot.got + 1]
  <2>0. boot.ran = 0
    BY <1>a, <1>4
  <2>1. IF c.got = Chunks THEN LoadEnds(c) ELSE Answers(c, <<>>)
    BY <1>4 DEF Receives, TakesChunk
  <2>2. c \in BootRecords /\ c.ran = 0 /\ c.got = boot.got + 1 /\ c.st = "loading"
    <3>1. boot.got + 1 \in 0 .. Chunks
      BY <1>a, <1>4, BenchAssumption
    <3>2. (boot.bad \/ key # boot.got + 1) \in BOOLEAN
      OBVIOUS
    <3> QED  BY <1>a, <1>4, <2>0, <3>1, <3>2 DEF BootRecords
  <2> HIDE DEF c
  <2>3. CASE c.got = Chunks
    BY <2>0, <2>1, <2>2, <2>3, LoadEndsMoves
  <2>4. CASE c.got # Chunks
    <3>1. c.got < Chunks
      BY <1>a, <1>4, <2>2, <2>4, BenchAssumption
    <3>2. BootOK(c)
      BY <2>2, <3>1 DEF BootOK
    <3>3. Answers(c, <<>>) /\ ~(boot.ran > 0)
      BY <2>0, <2>1, <2>4
    <3> QED  BY <3>2, <3>3, AnswersMoves, PlainSeqs
  <2> QED  BY <2>3, <2>4
<1>5. CASE boot.st = "loading" /\ ~image
  <2> DEFINE c == [boot EXCEPT !.bad = TRUE]
  <2>0. boot.ran = 0
    BY <1>a, <1>5
  <2>1. Answers(c, <<>>) \/ LoadEnds(c)
    BY <1>5 DEF Receives, TakesStray
  <2>2. c \in BootRecords /\ c.ran = 0 /\ BootOK(c)
    BY <1>a, <1>5, <2>0 DEF BootRecords, BootOK
  <2> HIDE DEF c
  <2> QED  BY <2>0, <2>1, <2>2, AnswersMoves, LoadEndsMoves, PlainSeqs
<1>6. CASE boot.st \notin {"countdown", "prompt", "loading"}
  <2>1. UNCHANGED <<boot, wire>>
    BY <1>6 DEF Receives
  <2> QED  BY <2>1 DEF BoardMoves
<1> QED  BY <1>1, <1>2, <1>3, <1>4, <1>5, <1>6

-----------------------------------------------------------------------------
(* The port and the host's program.                                        *)

LEMMA HostFields ==
    ASSUME NEW h \in HostRecords
    PROVE  /\ h.phase \in Phases /\ h.sent \in 0 .. Chunks /\ h.log \in Seq(Lines)
           /\ h.early \in BOOLEAN /\ h.clean \in BOOLEAN /\ h.headline \in {"none"} \cup Verdicts
BY DEF HostRecords

\* What a command's step does to it, as far as the invariant can tell.
SameReport(h) ==
    h.log = host.log /\ h.early = host.early /\ h.clean = host.clean /\ h.headline = host.headline

LEMMA ThenHost ==
    ASSUME NEW h \in HostRecords, Then(h)
    PROVE  /\ host' \in HostRecords
           /\ host'.phase = h.phase /\ host'.sent = h.sent /\ host'.log = h.log
           /\ host'.early = h.early /\ host'.headline = h.headline
           /\ host'.clean => h.clean /\ up' = up
<1>1. CASE up' = up
  BY <1>1 DEF Then
<1>2. CASE up' # up
  <2>1. host' = [h EXCEPT !.clean = FALSE]
    BY <1>2 DEF Then
  <2> QED  BY <2>1 DEF HostRecords
<1> QED  BY <1>1, <1>2

\* A key is written, and the command goes on in a phase that listens to the same lines.
LEMMA WriteStep ==
    ASSUME BenchInv, NEW key \in Keys, Write(key), NEW h \in HostRecords, Then(h), said' = said,
           host.phase \notin {"idle", "exited"}, h.phase \notin {"idle", "exited"},
           h.phase \in After => host.phase \in After,
           h.phase \in {"nudge", "reset"} => host.phase \in {"nudge", "reset"},
           h.phase = "listen" => host.phase = "listen",
           SameReport(h)
    PROVE  BenchInv'
<1>0. /\ BootOK(boot) /\ wire \in Seq(Wires) /\ said \in Seq(Lines) /\ up \in BOOLEAN
      /\ faults \in 0 .. MaxFaults
  BY DEF BenchInv, PlacesOK
<1>1. BoardMoves
  <2>1. CASE Receives(key)
    BY <1>0, <2>1, ReceivesMoves
  <2>2. CASE UNCHANGED <<boot, wire>>
    BY <1>0, <2>2 DEF BoardMoves
  <2> QED  BY <2>1, <2>2 DEF Write
<1>2. up' \in BOOLEAN /\ (up' => up) /\ faults' \in 0 .. MaxFaults
  <2>1. (up' = up \/ up' = FALSE) /\ (faults' = faults \/ (faults > 0 /\ faults' = faults - 1))
    BY DEF Write
  <2>2. faults' \in 0 .. MaxFaults
    BY <1>0, <2>1, BenchAssumption
  <2>3. CASE up' = up
    BY <1>0, <2>2, <2>3
  <2>4. CASE up' = FALSE
    BY <1>0, <2>2, <2>4
  <2> QED  BY <2>1, <2>3, <2>4
<1>3. /\ host' \in HostRecords
      /\ host'.phase = h.phase /\ host'.log = host.log
      /\ host'.early = host.early /\ host'.headline = host.headline
      /\ host'.clean => host.clean /\ up' = up
  BY ThenHost DEF SameReport
<1>4. PlacesOK'
  BY <1>0, <1>1, <1>2, <1>3 DEF PlacesOK, BoardMoves, BootOK, BootRecords, HostRecords
<1>5. PortOK'
  BY <1>3 DEF BenchInv, PortOK
<1>6. RanOK'
  BY <1>1, <1>3 DEF BenchInv, RanOK, BoardMoves
<1>7. LogOK'
  BY <1>3 DEF BenchInv, LogOK
<1>8. Follows'
  BY <1>1, <1>3 DEF BenchInv, Follows, Reported, BoardMoves
<1> QED  BY <1>4, <1>5, <1>6, <1>7, <1>8 DEF BenchInv

LEMMA KeysAre ==
    Space \in Keys /\ KeyU \in Keys /\ KeyE \in Keys /\ \A i \in 0 .. Chunks : i \in Keys
BY BenchAssumption DEF Space, KeyU, KeyE, Keys

LEMMA NudgeStep == BenchInv /\ Nudge => BenchInv'
<1> SUFFICES ASSUME BenchInv, Nudge PROVE BenchInv'  OBVIOUS
<1>1. host \in HostRecords /\ host.phase = "nudge" /\ Write(Space) /\ Then(host) /\ said' = said
  BY DEF BenchInv, PlacesOK, Nudge
<1> QED  BY <1>1, WriteStep, KeysAre DEF SameReport

LEMMA UploadStep == BenchInv /\ Upload => BenchInv'
<1> SUFFICES ASSUME BenchInv, Upload PROVE BenchInv'  OBVIOUS
<1> DEFINE h == [host EXCEPT !.phase = "send"]
<1>1. host \in HostRecords /\ host.phase = "upload" /\ Write(KeyU) /\ Then(h) /\ said' = said
  BY DEF BenchInv, PlacesOK, Upload
<1>2. h \in HostRecords /\ h.phase = "send" /\ SameReport(h)
  BY <1>1 DEF HostRecords, Phases, SameReport
<1> HIDE DEF h
<1> QED  BY <1>1, <1>2, WriteStep, KeysAre DEF After

LEMMA SendChunkStep == BenchInv /\ SendChunk => BenchInv'
<1> SUFFICES ASSUME BenchInv, SendChunk PROVE BenchInv'  OBVIOUS
<1> DEFINE h == [host EXCEPT !.sent = @ + 1]
<1>1. /\ host \in HostRecords /\ host.phase = "send" /\ Write(host.sent + 1) /\ Then(h)
      /\ said' = said /\ host.sent < Chunks
  BY DEF BenchInv, PlacesOK, SendChunk
<1>2. host.sent + 1 \in 0 .. Chunks
  BY <1>1, BenchAssumption DEF HostRecords
<1>3. h \in HostRecords /\ h.phase = "send" /\ SameReport(h)
  BY <1>1, <1>2 DEF HostRecords, SameReport
<1>4. host.sent + 1 \in Keys
  BY <1>2, KeysAre
<1> HIDE DEF h
<1> QED  BY <1>1, <1>3, <1>4, WriteStep DEF After

LEMMA ExecuteStep == BenchInv /\ Execute => BenchInv'
<1> SUFFICES ASSUME BenchInv, Execute PROVE BenchInv'  OBVIOUS
<1> DEFINE h == [host EXCEPT !.phase = "log"]
<1>1. host \in HostRecords /\ host.phase = "execute" /\ Write(KeyE) /\ Then(h) /\ said' = said
  BY DEF BenchInv, PlacesOK, Execute
<1>2. h \in HostRecords /\ h.phase = "log" /\ SameReport(h)
  BY <1>1 DEF HostRecords, Phases, SameReport
<1> HIDE DEF h
<1> QED  BY <1>1, <1>2, WriteStep, KeysAre DEF After

LEMMA ReopenStep == BenchInv /\ Reopen => BenchInv'
<1> SUFFICES ASSUME BenchInv, Reopen PROVE BenchInv'  OBVIOUS
<1>1. /\ host.phase \notin {"idle", "exited"} /\ ~up /\ up' = TRUE /\ wire' = <<>>
      /\ boot' = boot /\ faults' = faults /\ host' = host /\ said' = said
  BY DEF Reopen
<1>2. CaseLines(<<>>) = <<>>
  BY OnlyOfEmpty DEF CaseLines
<1>3. PlacesOK'
  BY <1>1 DEF BenchInv, PlacesOK, BootOK, BootRecords, HostRecords
<1>4. PortOK' /\ LogOK'
  BY <1>1 DEF BenchInv, PortOK, LogOK
<1>5. RanOK'
  BY <1>1, <1>2 DEF BenchInv, RanOK
<1>6. Follows'
  BY <1>1 DEF BenchInv, Follows, PortOK, Reported
<1> QED  BY <1>3, <1>4, <1>5, <1>6 DEF BenchInv

\* Whether or not the input was flushed, no line of an older program is left on the wire.
LEMMA ResetInputStep == BenchInv /\ PromptsOK /\ ResetInput => BenchInv'
<1> SUFFICES ASSUME BenchInv, PromptsOK, ResetInput PROVE BenchInv'  OBVIOUS
<1>1. /\ host.phase = "reset" /\ said' = <<>> /\ boot' = boot /\ up' = up
      /\ host' = [host EXCEPT !.phase = "upload"] /\ host \in HostRecords
      /\ wire \in Seq(Wires) /\ faults \in 0 .. MaxFaults
  BY DEF ResetInput, BenchInv, PlacesOK
<1>2. CaseLines(<<>>) = <<>> /\ <<>> \o <<>> = <<>> /\ <<>> \in Seq(Wires)
  BY OnlyOfEmpty DEF CaseLines
<1>3. /\ host' \in HostRecords /\ host'.phase = "upload" /\ host'.log = host.log
      /\ host'.early = host.early /\ host'.clean = host.clean /\ host'.headline = host.headline
  BY <1>1 DEF HostRecords, Phases
<1>a. faults' \in 0 .. MaxFaults
  <2>1. faults' = faults \/ (faults > 0 /\ faults' = faults - 1)
    BY DEF ResetInput
  <2> QED  BY <1>1, <2>1, BenchAssumption
<1>b. wire' \in Seq(Wires) /\ CaseLines(wire') = <<>>
  <2>1. CaseLines(wire) = <<>>
    BY <1>1 DEF PromptsOK
  <2>2. wire' = <<>> \/ wire' = wire
    BY DEF ResetInput
  <2> QED  BY <1>1, <1>2, <2>1, <2>2
<1>4. PlacesOK'
  BY <1>1, <1>3, <1>a, <1>b DEF BenchInv, PlacesOK, BootOK, BootRecords, HostRecords
<1>5. PortOK' /\ LogOK'
  BY <1>1, <1>3 DEF BenchInv, PortOK, LogOK
<1>6. RanOK'
  BY <1>1, <1>b, <1>3 DEF BenchInv, RanOK
<1>7. Follows'
  <2>1. ~host.early => host.log = <<>>
    BY <1>1 DEF BenchInv, LogOK
  <2> QED  BY <1>1, <1>2, <1>3, <1>b, <2>1 DEF Follows
<1> QED  BY <1>4, <1>5, <1>6, <1>7 DEF BenchInv

\* The command goes on to another phase that listens to the same lines.
LEMMA PhaseStep ==
    ASSUME BenchInv, NEW ph \in After, host.phase \in After \ {"listen"}, ph # "listen",
           host' = [host EXCEPT !.phase = ph], UNCHANGED <<boot, wire, up, faults, said>>
    PROVE  BenchInv'
<1>1. /\ host \in HostRecords /\ boot' = boot /\ wire' = wire /\ up' = up /\ faults' = faults
      /\ said' = said
  BY DEF BenchInv, PlacesOK
<1>2. /\ host' \in HostRecords /\ host'.phase = ph /\ host'.log = host.log
      /\ host'.early = host.early /\ host'.clean = host.clean /\ host'.headline = host.headline
  BY <1>1 DEF HostRecords, Phases, After
<1>3. PlacesOK'
  BY <1>1, <1>2 DEF BenchInv, PlacesOK, BootOK, BootRecords, HostRecords
<1>4. PortOK' /\ LogOK'
  BY <1>1, <1>2 DEF BenchInv, PortOK, LogOK, After
<1>5. RanOK'
  BY <1>1, <1>2 DEF BenchInv, RanOK, After
<1>6. Follows'
  BY <1>1, <1>2 DEF BenchInv, Follows, After
<1> QED  BY <1>3, <1>4, <1>5, <1>6 DEF BenchInv

LEMMA ImageSentStep == BenchInv /\ ImageSent => BenchInv'
BY PhaseStep DEF ImageSent, After

-----------------------------------------------------------------------------
(* The board, as it runs the program.                                      *)

\* The program's line is heard if the port is open.
LEMMA HearsLine ==
    ASSUME wire \in Seq(Wires), NEW line \in Wires, wire' = Hears(<<line>>)
    PROVE  /\ wire' \in Seq(Wires)
           /\ ~up => wire' = wire
           /\ up /\ line \in Lines => CaseLines(wire') = Append(CaseLines(wire), line)
           /\ line \notin Lines => CaseLines(wire') = CaseLines(wire)
<1>1. <<line>> \in Seq(Wires)
  OBVIOUS
<1>2. CaseLines(<<line>>) = IF line \in Lines THEN <<line>> ELSE <<>>
  BY OnlyOfOne DEF CaseLines
<1>3. /\ CaseLines(wire \o <<line>>) = CaseLines(wire) \o CaseLines(<<line>>)
      /\ CaseLines(wire) \in Seq(Lines) /\ wire \o <<line>> \in Seq(Wires)
  BY <1>1, CaseLinesOfConcat
<1>4. CASE ~up
  BY <1>4 DEF Hears
<1>5. CASE up
  <2>1. wire' = wire \o <<line>>
    BY <1>5 DEF Hears
  <2>2. CaseLines(wire) \o <<>> = CaseLines(wire)
    BY <1>3
  <2>3. ASSUME line \in Lines
        PROVE  CaseLines(wire) \o <<line>> = Append(CaseLines(wire), line)
    BY <1>3, <2>3, AppendIsConcat
  <2> QED  BY <1>2, <1>3, <1>5, <2>1, <2>2, <2>3
<1> QED  BY <1>4, <1>5

LEMMA PrintsCaseStep == BenchInv /\ PrintsCase => BenchInv'
<1> SUFFICES ASSUME BenchInv, PrintsCase PROVE BenchInv'  OBVIOUS
<1>0. PICK line \in Lines :
        /\ wire' = Hears(<<line>>)
        /\ said' = IF host.phase \in {"idle", "nudge", "exited"} THEN said ELSE Append(said, line)
        /\ boot' = [boot EXCEPT !.ran = @ + 1, !.bad = @ \/ line \in {"wrong", "SW_ERR"}]
  BY DEF PrintsCase
<1>1. boot.st = "running" /\ boot.ran <= Cases /\ up' = up /\ faults' = faults /\ host' = host
  BY DEF PrintsCase
<1>2. /\ BootOK(boot) /\ host \in HostRecords /\ wire \in Seq(Wires) /\ said \in Seq(Lines)
      /\ up \in BOOLEAN /\ faults \in 0 .. MaxFaults /\ boot.ran > 0
  BY <1>1 DEF BenchInv, PlacesOK, BootOK
<1>3. BootOK(boot') /\ boot'.ran > 0
  <2>1. /\ boot \in BootRecords /\ boot.ran + 1 \in 0 .. Cases + 1
        /\ (boot.bad \/ line \in {"wrong", "SW_ERR"}) \in BOOLEAN /\ boot.ran \in Int
    BY <1>1, <1>2, BenchAssumption DEF BootOK, BootRecords
  <2>2. boot' \in BootRecords /\ boot'.st = "running" /\ boot'.ran = boot.ran + 1
    BY <1>0, <1>1, <2>1 DEF BootRecords
  <2>3. boot'.ran > 0
    BY <1>2, <2>1, <2>2
  <2> QED  BY <2>2, <2>3 DEF BootOK
<1>4. /\ wire' \in Seq(Wires) /\ (~up => wire' = wire)
      /\ (up => CaseLines(wire') = Append(CaseLines(wire), line))
  BY <1>0, <1>2, HearsLine DEF Wires
<1>5. said' \in Seq(Lines)
  BY <1>0, <1>2
<1>6. PlacesOK'
  BY <1>1, <1>2, <1>3, <1>4, <1>5 DEF PlacesOK, BootOK, BootRecords, HostRecords
<1>7. PortOK' /\ LogOK'
  BY <1>1, <1>4 DEF BenchInv, PortOK, LogOK
<1>8. RanOK'
  BY <1>1, <1>3 DEF BenchInv, RanOK
<1>9. Follows'
  <2> SUFFICES ASSUME host.clean, ~host.early, host.phase \in After \/ Reported
               PROVE  said' = host.log \o CaseLines(wire')
    BY <1>1 DEF Follows, Reported
  <2>1. said = host.log \o CaseLines(wire)
    BY DEF BenchInv, Follows
  <2>2. CASE host.phase \in After
    <3>1. up /\ said' = Append(said, line)
      BY <1>0, <2>2 DEF BenchInv, PortOK, After
    <3>2. host.log \in Seq(Lines) /\ CaseLines(wire) \in Seq(Lines)
      BY <1>2, HostFields, CaseLinesType
    <3> DEFINE a == host.log
               b == CaseLines(wire)
    <3>3. Append(a \o b, line) = a \o Append(b, line)
      <4>0. a \in Seq(Lines) /\ b \in Seq(Lines)
        BY <3>2
      <4> HIDE DEF a, b
      <4>1. AppendsLast(a, b, line)
        BY <4>0, AppendOfConcat
      <4> QED  BY <4>1 DEF AppendsLast
    <3> QED  BY <1>4, <2>1, <3>1, <3>3
  <2>3. CASE Reported
    BY <1>0, <1>4, <2>1, <2>3 DEF Reported, BenchInv, PortOK
  <2> QED  BY <2>2, <2>3
<1> QED  BY <1>6, <1>7, <1>8, <1>9 DEF BenchInv

\* A step of the board that prints no case, while the host's program waits.
LEMMA QuietBoardStep ==
    ASSUME BenchInv, BoardMoves, UNCHANGED <<up, faults, host, said>>,
           host.phase = "idle" => wire' = wire
    PROVE  BenchInv'
<1>1. up' = up /\ faults' = faults /\ host' = host /\ said' = said
  OBVIOUS
<1>2. PlacesOK'
  BY <1>1 DEF BenchInv, PlacesOK, BoardMoves, BootOK, BootRecords, HostRecords
<1>3. PortOK' /\ LogOK'
  BY <1>1 DEF BenchInv, PortOK, LogOK
<1>4. RanOK'
  BY <1>1 DEF BenchInv, RanOK, BoardMoves
<1>5. Follows'
  BY <1>1 DEF BenchInv, Follows, Reported, BoardMoves
<1> QED  BY <1>2, <1>3, <1>4, <1>5 DEF BenchInv

LEMMA PrintsVerdictStep == BenchInv /\ PrintsVerdict => BenchInv'
<1> SUFFICES ASSUME BenchInv, PrintsVerdict PROVE BenchInv'  OBVIOUS
<1>1. /\ boot.st = "running" /\ boot' = [boot EXCEPT !.st = "done"]
      /\ wire' = Hears(<<IF boot.bad THEN "FAIL" ELSE "PASS">>)
      /\ up' = up /\ faults' = faults /\ host' = host /\ said' = said
  BY DEF PrintsVerdict
<1>2. BootOK(boot) /\ wire \in Seq(Wires)
  BY DEF BenchInv, PlacesOK
<1>3. BootOK(boot') /\ boot'.ran = boot.ran
  <2>1. boot \in BootRecords /\ boot.ran > 0
    BY <1>1, <1>2 DEF BootOK
  <2>2. boot' \in BootRecords /\ boot'.st = "done" /\ boot'.ran = boot.ran
    BY <1>1, <2>1 DEF BootRecords, BootStates
  <2> QED  BY <2>1, <2>2 DEF BootOK
<1>4. /\ wire' \in Seq(Wires) /\ (~up => wire' = wire) /\ CaseLines(wire') = CaseLines(wire)
  <2> DEFINE line == IF boot.bad THEN "FAIL" ELSE "PASS"
  <2>1. line \in Wires /\ line \notin Lines
    BY DEF Wires, Verdicts, Lines, Measured
  <2>2. wire' = Hears(<<line>>)
    BY <1>1
  <2> HIDE DEF line
  <2> QED  BY <1>2, <2>1, <2>2, HearsLine
<1>5. BoardMoves
  BY <1>3, <1>4 DEF BoardMoves
<1>6. host.phase = "idle" => wire' = wire
  BY <1>4 DEF BenchInv, PortOK
<1> QED  BY <1>1, <1>5, <1>6, QuietBoardStep

LEMMA AutobootFailsStep == BenchInv /\ AutobootFails => BenchInv'
<1> SUFFICES ASSUME BenchInv, AutobootFails PROVE BenchInv'  OBVIOUS
<1>1. /\ boot.st = "countdown" /\ boot' = [boot EXCEPT !.st = "halted"] /\ wire' = wire
      /\ up' = up /\ faults' = faults /\ host' = host /\ said' = said
  BY DEF AutobootFails
<1>2. BootOK(boot) /\ wire \in Seq(Wires)
  BY DEF BenchInv, PlacesOK
<1>3. BootOK(boot') /\ boot'.ran = boot.ran
  <2>1. boot \in BootRecords /\ ~(boot.ran > 0)
    BY <1>1, <1>2 DEF BootOK
  <2>2. boot' \in BootRecords /\ boot'.st = "halted" /\ boot'.ran = boot.ran
    BY <1>1, <2>1 DEF BootRecords, BootStates
  <2> QED  BY <2>1, <2>2 DEF BootOK
<1>4. BoardMoves
  BY <1>1, <1>2, <1>3 DEF BoardMoves
<1> QED  BY <1>1, <1>4, QuietBoardStep

\* The FPGA is configured while nobody listens to the program.
LEMMA ConfiguredStep ==
    ASSUME BenchInv, NEW soc \in BOOLEAN, Configured(soc), host.phase \in {"idle", "nudge"},
           UNCHANGED <<up, faults, host, said>>
    PROVE  BenchInv'
<1>1. up' = up /\ faults' = faults /\ host' = host /\ said' = said
  OBVIOUS
<1>2. BootOK(boot')
  BY ProcessorOK DEF Configured
<1>3. wire' \in Seq(Wires) /\ (~up => wire' = wire)
  <2>1. wire \in Seq(Wires)
    BY DEF BenchInv, PlacesOK
  <2>2. CASE soc
    <3>1. wire' = Hears(<<"Bootloader">>) /\ "Bootloader" \in Wires
      BY <2>2 DEF Configured, Wires
    <3> QED  BY <2>1, <3>1, HearsLine
  <2>3. CASE ~soc
    BY <2>1, <2>3 DEF Configured
  <2> QED  BY <2>2, <2>3
<1>4. PlacesOK'
  BY <1>1, <1>2, <1>3 DEF BenchInv, PlacesOK, BootOK, BootRecords, HostRecords
<1>5. PortOK' /\ LogOK'
  BY <1>1, <1>3 DEF BenchInv, PortOK, LogOK
<1>6. RanOK'
  BY <1>1 DEF BenchInv, RanOK, LogOK, After
<1>7. Follows'
  BY <1>1 DEF Follows, Reported, After
<1> QED  BY <1>4, <1>5, <1>6, <1>7 DEF BenchInv

-----------------------------------------------------------------------------
(* What the host reads.                                                    *)

LEMMA EmitHost ==
    ASSUME NEW h \in HostRecords, NEW chunk \in Seq(Wires)
    PROVE  /\ Emit(h, chunk) \in HostRecords
           /\ Emit(h, chunk).phase = h.phase /\ Emit(h, chunk).sent = h.sent
           /\ Emit(h, chunk).log = h.log \o CaseLines(chunk)
           /\ Emit(h, chunk).early = (h.early \/ (h.phase = "nudge" /\ CaseLines(chunk) # <<>>))
           /\ Emit(h, chunk).clean = h.clean /\ Emit(h, chunk).headline = h.headline
<1>1. h.log \o CaseLines(chunk) \in Seq(Lines)
  BY CaseLinesType, HostFields
<1>2. (h.early \/ (h.phase = "nudge" /\ CaseLines(chunk) # <<>>)) \in BOOLEAN
  OBVIOUS
<1> DEFINE l == h.log \o CaseLines(chunk)
           e == h.early \/ (h.phase = "nudge" /\ CaseLines(chunk) # <<>>)
<1>3. Emit(h, chunk) = [h EXCEPT !.log = l, !.early = e]
  BY DEF Emit
<1>4. l \in Seq(Lines) /\ e \in BOOLEAN
  BY <1>1, <1>2
<1> HIDE DEF l, e
<1>5. /\ Emit(h, chunk) \in HostRecords
      /\ Emit(h, chunk).phase = h.phase /\ Emit(h, chunk).sent = h.sent
      /\ Emit(h, chunk).log = l /\ Emit(h, chunk).early = e
      /\ Emit(h, chunk).clean = h.clean /\ Emit(h, chunk).headline = h.headline
  BY <1>3, <1>4 DEF HostRecords
<1> QED  BY <1>5 DEF l, e

\* The read goes on, or the read is the last and the report is drawn.
GoesOn ==
    /\ up' = up /\ host'.headline = host.headline
    /\ \/ host.phase = "nudge" /\ host'.phase \in {"nudge", "reset"}
       \/ /\ host.phase \in After /\ host'.phase \in After
          /\ host'.phase = "listen" <=> host.phase = "listen"

Ends ==
    /\ host.phase \in After /\ host'.phase = "exited" /\ host'.headline = Headline(host'.log)
    /\ up' = FALSE

JoinsLast(a, b, c) == (a \o b) \o c = a \o (b \o c)

LEMMA JoinOfConcat ==
    ASSUME NEW X, NEW a \in Seq(X), NEW b \in Seq(X), NEW c \in Seq(X)
    PROVE  JoinsLast(a, b, c)
BY ConcatAssociative DEF JoinsLast

LEMMA TakesStep ==
    ASSUME BenchInv, NEW chunk \in Seq(Wires), NEW rest \in Seq(Wires),
           wire = chunk \o rest, wire' = rest, host' \in HostRecords,
           host'.log = host.log \o CaseLines(chunk),
           host'.early = (host.early \/ (host.phase = "nudge" /\ CaseLines(chunk) # <<>>)),
           host'.clean = host.clean, GoesOn \/ Ends, UNCHANGED <<boot, faults, said>>
    PROVE  BenchInv'
<1>1. /\ host \in HostRecords /\ boot' = boot /\ faults' = faults /\ said' = said
      /\ host.log \in Seq(Lines) /\ up \in BOOLEAN
  BY HostFields DEF BenchInv, PlacesOK
<1>2. /\ CaseLines(wire) = CaseLines(chunk) \o CaseLines(rest)
      /\ CaseLines(chunk) \in Seq(Lines) /\ CaseLines(rest) \in Seq(Lines)
  BY CaseLinesOfConcat
<1>3. /\ CaseLines(rest) # <<>> => CaseLines(wire) # <<>>
      /\ CaseLines(chunk) # <<>> => CaseLines(wire) # <<>>
  BY <1>2, ConcatEqualIffEmpty
<1>4. host'.log # <<>> => host.log # <<>> \/ CaseLines(chunk) # <<>>
  <2>1. <<>> \o <<>> = <<>>
    OBVIOUS
  <2> QED  BY <2>1
<1>5. up' \in BOOLEAN
  BY <1>1 DEF GoesOn, Ends
<1>6. PlacesOK'
  BY <1>1, <1>5 DEF BenchInv, PlacesOK, BootOK, BootRecords, HostRecords
<1>7. PortOK'
  <2>1. CASE GoesOn
    BY <2>1 DEF BenchInv, PortOK, GoesOn, After
  <2>2. CASE Ends
    BY <2>2 DEF PortOK, Ends
  <2> QED  BY <2>1, <2>2
<1>8. LogOK'
  <2>1. CASE GoesOn /\ host.phase = "nudge"
    <3>1. /\ host'.phase \in {"nudge", "reset"} /\ host'.headline = "none"
      BY <2>1 DEF BenchInv, LogOK, GoesOn, After
    <3>2. ~host'.early => host'.log = <<>>
      BY <1>4, <2>1 DEF BenchInv, LogOK
    <3> QED  BY <3>1, <3>2 DEF LogOK
  <2>2. CASE GoesOn /\ host.phase \in After
    <3>1. /\ host'.phase \in After /\ host'.headline = "none"
          /\ host'.phase = "listen" => host.phase = "listen"
      BY <2>2 DEF BenchInv, LogOK, GoesOn, After
    <3>2. host.phase = "listen" => ~host'.early
      BY DEF BenchInv, LogOK
    <3> QED  BY <3>1, <3>2 DEF LogOK, After
  <2>3. CASE Ends
    BY <2>3 DEF LogOK, Ends
  <2> QED  BY <2>1, <2>2, <2>3 DEF GoesOn
<1>9. RanOK'
  <2>1. host'.phase \in After /\ CaseLines(rest) # <<>> => boot.ran > 0
    BY <1>3 DEF BenchInv, RanOK, GoesOn, Ends, After
  <2>2. ASSUME ~host'.early, host'.log # <<>> PROVE boot.ran > 0
    <3>1. CASE host.log # <<>>
      BY <2>2, <3>1 DEF BenchInv, RanOK, GoesOn, Ends, After
    <3>2. CASE CaseLines(chunk) # <<>>
      BY <1>3, <2>2, <3>2 DEF BenchInv, RanOK, GoesOn, Ends
    <3> QED  BY <1>4, <2>2, <3>1, <3>2
  <2> QED  BY <1>1, <2>1, <2>2 DEF RanOK
<1>10. Follows'
  <2> SUFFICES ASSUME host'.clean, ~host'.early, host'.phase \in After \/ Reported'
               PROVE  said' = host'.log \o CaseLines(rest)
    BY DEF Follows
  <2>1. host.clean /\ ~host.early /\ host.phase \in After
    BY DEF GoesOn, Ends, After, Reported
  <2>2. said = host.log \o CaseLines(wire)
    BY <2>1 DEF BenchInv, Follows
  <2> DEFINE a == host.log
             b == CaseLines(chunk)
             c == CaseLines(rest)
  <2>3. (a \o b) \o c = a \o (b \o c)
    <3>0. a \in Seq(Lines) /\ b \in Seq(Lines) /\ c \in Seq(Lines)
      BY <1>1, <1>2
    <3> HIDE DEF a, b, c
    <3>1. JoinsLast(a, b, c)
      BY <3>0, JoinOfConcat
    <3> QED  BY <3>1 DEF JoinsLast
  <2> QED  BY <1>1, <1>2, <2>2, <2>3
<1> QED  BY <1>6, <1>7, <1>8, <1>9, <1>10 DEF BenchInv

\* Where the items of a sequence are when it is cut in two.
LEMMA CutIndexes ==
    ASSUME NEW w \in Seq(Wires), NEW n \in 1 .. Len(w)
    PROVE  /\ Len(w) \in Nat
           /\ SubSeq(w, 1, n) \in Seq(Wires) /\ Len(SubSeq(w, 1, n)) = n
           /\ \A i \in 1 .. n : SubSeq(w, 1, n)[i] = w[i]
           /\ SubSeq(w, n + 1, Len(w)) \in Seq(Wires)
           /\ Len(SubSeq(w, n + 1, Len(w))) = Len(w) - n
           /\ \A i \in 1 .. (Len(w) - n) : SubSeq(w, n + 1, Len(w))[i] = w[n + i]
<1> DEFINE a == SubSeq(w, 1, n)
           b == SubSeq(w, n + 1, Len(w))
<1>1. Len(w) \in Nat /\ \A i \in 1 .. Len(w) : w[i] \in Wires
  OBVIOUS
<1>2. a \in Seq(Wires) /\ Len(a) = n /\ \A i \in 1 .. n : a[i] = w[i]
  BY <1>1, SubSeqProperties
<1>3. b \in Seq(Wires) /\ Len(b) = Len(w) - n /\ \A i \in 1 .. (Len(w) - n) : b[i] = w[n + i]
  <2>1. /\ n + 1 \in Int /\ Len(w) \in Int /\ \A i \in (n + 1) .. Len(w) : w[i] \in Wires
        /\ Len(w) - (n + 1) + 1 = Len(w) - n
    BY <1>1
  <2>2. /\ b \in Seq(Wires)
        /\ Len(b) = IF n + 1 <= Len(w) THEN Len(w) - (n + 1) + 1 ELSE 0
        /\ \A i \in 1 .. Len(w) - (n + 1) + 1 : b[i] = w[(n + 1) + i - 1]
    BY <2>1, SubSeqProperties
  <2>3. Len(b) = Len(w) - n
    <3> HIDE DEF b
    <3>1. CASE n + 1 <= Len(w)
      BY <2>1, <2>2, <3>1
    <3>2. CASE ~(n + 1 <= Len(w))
      <4>1. Len(w) - n = 0
        BY <1>1, <3>2
      <4> QED  BY <2>2, <3>2, <4>1
    <3> QED  BY <3>1, <3>2
  <2>4. \A i \in 1 .. (Len(w) - n) : b[i] = w[n + i]
    <3> HIDE DEF b
    <3>1. \A i \in 1 .. (Len(w) - n) : (n + 1) + i - 1 = n + i
      BY <1>1
    <3> QED  BY <2>1, <2>2, <3>1
  <2> QED  BY <2>2, <2>3, <2>4
<1> QED  BY <1>1, <1>2, <1>3 DEF a, b

LEMMA CutWire ==
    ASSUME NEW w \in Seq(Wires), NEW n \in 1 .. Len(w)
    PROVE  /\ SubSeq(w, 1, n) \in Seq(Wires) /\ SubSeq(w, n + 1, Len(w)) \in Seq(Wires)
           /\ w = SubSeq(w, 1, n) \o SubSeq(w, n + 1, Len(w))
<1> DEFINE a == SubSeq(w, 1, n)
           b == SubSeq(w, n + 1, Len(w))
<1>1. Len(w) \in Nat /\ \A i \in 1 .. Len(w) : w[i] \in Wires
  OBVIOUS
<1>2. a \in Seq(Wires) /\ Len(a) = n /\ \A i \in 1 .. n : a[i] = w[i]
  BY CutIndexes
<1>3. b \in Seq(Wires) /\ Len(b) = Len(w) - n /\ \A i \in 1 .. (Len(w) - n) : b[i] = w[n + i]
  BY CutIndexes
<1> HIDE DEF a, b
<1>4. /\ a \o b \in Seq(Wires) /\ Len(a \o b) = Len(w)
      /\ \A i \in 1 .. Len(w) : (a \o b)[i] = IF i <= n THEN a[i] ELSE b[i - n]
  <2>1. n \in Nat /\ n + (Len(w) - n) = Len(w)
    BY <1>1
  <2>2. /\ a \o b \in Seq(Wires) /\ Len(a \o b) = Len(a) + Len(b)
        /\ \A i \in 1 .. Len(a) + Len(b) : (a \o b)[i] = IF i <= Len(a) THEN a[i] ELSE b[i - Len(a)]
    BY <1>2, <1>3, ConcatProperties
  <2>3. Len(a) = n /\ Len(a) + Len(b) = Len(w)
    BY <1>2, <1>3, <2>1
  <2> QED  BY <2>2, <2>3
<1>5. ASSUME NEW i \in 1 .. Len(w) PROVE w[i] = (a \o b)[i]
  <2>1. CASE i <= n
    <3>1. i \in 1 .. n
      BY <1>1, <2>1
    <3> QED  BY <1>2, <1>4, <2>1, <3>1
  <2>2. CASE ~(i <= n)
    <3>1. i - n \in 1 .. (Len(w) - n) /\ n + (i - n) = i
      BY <1>1, <2>2
    <3> QED  BY <1>3, <1>4, <2>2, <3>1
  <2> QED  BY <2>1, <2>2
<1>6. w = a \o b
  BY <1>4, <1>5, SeqEqual
<1> QED  BY <1>2, <1>3, <1>6 DEF a, b

LEMMA ReadStep == BenchInv /\ Read => BenchInv'
<1> SUFFICES ASSUME BenchInv, Read PROVE BenchInv'  OBVIOUS
<1>1. PICK n \in 1 .. Len(wire) :
          /\ host' = [Emit(host, SubSeq(wire, 1, n)) EXCEPT
                          !.phase = AfterRead(host, SubSeq(wire, 1, n))]
          /\ wire' = SubSeq(wire, n + 1, Len(wire))
  BY DEF Read
<1>2. /\ host.phase \in {"nudge", "ack", "log", "send"} /\ up' = up /\ boot' = boot
      /\ faults' = faults /\ said' = said
  BY DEF Read, Reading
<1> DEFINE chunk == SubSeq(wire, 1, n)
           rest  == SubSeq(wire, n + 1, Len(wire))
           ph    == AfterRead(host, chunk)
<1>3. wire \in Seq(Wires) /\ host \in HostRecords
  BY DEF BenchInv, PlacesOK
<1>4. chunk \in Seq(Wires) /\ rest \in Seq(Wires) /\ wire = chunk \o rest
  BY <1>3, CutWire
<1>5. /\ host.phase = "nudge" => ph \in {"nudge", "reset"}
      /\ host.phase = "ack" => ph \in {"ack", "execute"}
      /\ host.phase \in {"log", "send"} => ph = host.phase
  <2> HIDE DEF chunk
  <2> QED  BY DEF AfterRead
<1>6. ph \in Phases
  BY <1>2, <1>5 DEF Phases
<1>7. host' = [Emit(host, chunk) EXCEPT !.phase = ph] /\ wire' = rest
  BY <1>1
<1> HIDE DEF chunk, rest, ph
<1>8. /\ host' \in HostRecords /\ host'.phase = ph
      /\ host'.log = Emit(host, chunk).log /\ host'.early = Emit(host, chunk).early
      /\ host'.clean = Emit(host, chunk).clean /\ host'.headline = Emit(host, chunk).headline
  <2>1. Emit(host, chunk) \in HostRecords
    BY <1>3, <1>4, EmitHost
  <2> QED  BY <1>6, <1>7, <2>1 DEF HostRecords
<1>9. /\ host'.log = host.log \o CaseLines(chunk)
      /\ host'.early = (host.early \/ (host.phase = "nudge" /\ CaseLines(chunk) # <<>>))
      /\ host'.clean = host.clean /\ host'.headline = host.headline
  BY <1>3, <1>4, <1>8, EmitHost
<1>10. GoesOn
  BY <1>2, <1>5, <1>8, <1>9 DEF GoesOn, After
<1> QED  BY <1>2, <1>4, <1>7, <1>8, <1>9, <1>10, TakesStep

\* A report is drawn when nothing more is read.
LEMMA ReportStep ==
    ASSUME BenchInv, host.phase \in After, host' = Reports(host), ClosesAtExit,
           UNCHANGED <<boot, wire, faults, said>>
    PROVE  BenchInv'
<1>1. host \in HostRecords /\ wire \in Seq(Wires) /\ host.log \in Seq(Lines)
  BY HostFields DEF BenchInv, PlacesOK
<1>2. Headline(host.log) \in Verdicts
  BY DEF Headline, Verdicts
<1>3. /\ host' \in HostRecords /\ host'.phase = "exited" /\ host'.log = host.log
      /\ host'.early = host.early /\ host'.clean = host.clean
      /\ host'.headline = Headline(host.log)
  BY <1>1, <1>2 DEF Reports, Exits, HostRecords, Phases
<1>4. /\ <<>> \in Seq(Wires) /\ wire = <<>> \o wire /\ CaseLines(<<>>) = <<>>
      /\ host.log \o <<>> = host.log
  BY <1>1, OnlyOfEmpty DEF CaseLines
<1>5. Ends
  BY <1>3 DEF Ends, ClosesAtExit
<1>6. host'.early = (host.early \/ (host.phase = "nudge" /\ CaseLines(<<>>) # <<>>))
  BY <1>1, <1>3, <1>4, HostFields
<1>7. host'.log = host.log \o CaseLines(<<>>) /\ wire' = wire
  BY <1>3, <1>4
<1> QED  BY <1>1, <1>3, <1>4, <1>5, <1>6, <1>7, TakesStep

\* The command ends without a report.
LEMMA ExitStep ==
    ASSUME BenchInv, host.phase \notin {"idle", "exited"}, host' = Exits(host), ClosesAtExit,
           faults' \in 0 .. MaxFaults, UNCHANGED <<boot, wire, said>>
    PROVE  BenchInv'
<1>1. /\ host \in HostRecords /\ boot' = boot /\ wire' = wire /\ said' = said
      /\ host.headline = "none"
  BY DEF BenchInv, PlacesOK, LogOK
<1>2. /\ host' \in HostRecords /\ host'.phase = "exited" /\ host'.log = host.log
      /\ host'.early = host.early /\ host'.clean = host.clean /\ host'.headline = "none"
  BY <1>1 DEF Exits, HostRecords, Phases
<1>3. up' = FALSE
  BY <1>2 DEF ClosesAtExit
<1>4. PlacesOK'
  BY <1>1, <1>2, <1>3 DEF BenchInv, PlacesOK, BootOK, BootRecords, HostRecords
<1>5. PortOK' /\ LogOK'
  BY <1>2, <1>3 DEF PortOK, LogOK
<1>6. RanOK'
  BY <1>1, <1>2 DEF BenchInv, RanOK, After
<1>7. Follows'
  BY <1>2 DEF Follows, Reported, After
<1> QED  BY <1>4, <1>5, <1>6, <1>7 DEF BenchInv

LEMMA DeadlineStep == BenchInv /\ Deadline => BenchInv'
<1> SUFFICES ASSUME BenchInv, Deadline PROVE BenchInv'  OBVIOUS
<1>1. /\ host.phase \in {"nudge", "ack", "log"} /\ host' = AfterDeadline(host) /\ ClosesAtExit
      /\ boot' = boot /\ wire' = wire /\ faults' = faults /\ said' = said
  BY DEF Deadline
<1>2. CASE host.phase = "nudge"
  <2>1. host' = Exits(host)
    BY <1>1, <1>2 DEF AfterDeadline
  <2>2. faults' \in 0 .. MaxFaults
    BY <1>1 DEF BenchInv, PlacesOK
  <2> QED  BY <1>1, <1>2, <2>1, <2>2, ExitStep
<1>3. CASE host.phase = "ack"
  <2>1. host' = [host EXCEPT !.phase = "execute"]
    BY <1>1, <1>3 DEF AfterDeadline
  <2>2. host'.phase = "execute"
    BY <2>1 DEF BenchInv, PlacesOK, HostRecords
  <2>3. up' = up
    BY <1>1, <2>2 DEF ClosesAtExit, BenchInv, PlacesOK
  <2> QED  BY <1>1, <1>3, <2>1, <2>3, PhaseStep DEF After
<1>4. CASE host.phase = "log"
  <2>1. host' = Reports(host)
    BY <1>1, <1>4 DEF AfterDeadline
  <2> QED  BY <1>1, <1>4, <2>1, ReportStep DEF After
<1> QED  BY <1>1, <1>2, <1>3, <1>4

LEMMA SilenceStep == BenchInv /\ Silence => BenchInv'
BY ReportStep DEF Silence, After

LEMMA ReadLineRaisesStep == BenchInv /\ ReadLineRaises => BenchInv'
<1> SUFFICES ASSUME BenchInv, ReadLineRaises PROVE BenchInv'  OBVIOUS
<1>1. /\ host.phase = "listen" /\ host' = Exits(host) /\ ClosesAtExit /\ faults > 0
      /\ faults' = faults - 1 /\ boot' = boot /\ wire' = wire /\ said' = said
  BY DEF ReadLineRaises
<1>2. faults' \in 0 .. MaxFaults
  BY <1>1, BenchAssumption DEF BenchInv, PlacesOK
<1> QED  BY <1>1, <1>2, ExitStep

LEMMA ReadLineStep == BenchInv /\ ReadLine => BenchInv'
<1> SUFFICES ASSUME BenchInv, ReadLine PROVE BenchInv'  OBVIOUS
<1> DEFINE chunk == <<Head(wire)>>
           rest  == Tail(wire)
           h     == Emit(host, chunk)
<1>1. /\ host.phase = "listen" /\ wire # <<>> /\ wire' = rest /\ ClosesAtExit
      /\ host' = IF Head(wire) \in Verdicts THEN Reports(h) ELSE h
      /\ boot' = boot /\ faults' = faults /\ said' = said
  BY DEF ReadLine
<1>2. wire \in Seq(Wires) /\ host \in HostRecords /\ up \in BOOLEAN
  BY DEF BenchInv, PlacesOK
<1>3. chunk \in Seq(Wires) /\ rest \in Seq(Wires) /\ wire = chunk \o rest
  BY <1>1, <1>2
<1> HIDE DEF chunk, rest
<1>4. /\ h \in HostRecords /\ h.phase = "listen" /\ h.log = host.log \o CaseLines(chunk)
      /\ h.early = (host.early \/ (host.phase = "nudge" /\ CaseLines(chunk) # <<>>))
      /\ h.clean = host.clean /\ h.headline = host.headline
  BY <1>1, <1>2, <1>3, EmitHost
<1> HIDE DEF h
<1>5. CASE Head(wire) \in Verdicts
  <2>1. Headline(h.log) \in Verdicts
    BY DEF Headline, Verdicts
  <2>2. /\ host' \in HostRecords /\ host'.phase = "exited" /\ host'.log = h.log
        /\ host'.early = h.early /\ host'.clean = h.clean /\ host'.headline = Headline(h.log)
    BY <1>1, <1>4, <1>5, <2>1 DEF Reports, Exits, HostRecords, Phases
  <2>3. Ends
    BY <1>1, <2>2 DEF Ends, ClosesAtExit, After
  <2> QED  BY <1>1, <1>3, <1>4, <2>2, <2>3, TakesStep
<1>6. CASE Head(wire) \notin Verdicts
  <2>1. host' = h
    BY <1>1, <1>6
  <2>2. up' = up
    BY <1>1, <1>2, <1>4, <2>1 DEF ClosesAtExit
  <2>3. GoesOn
    BY <1>1, <1>4, <2>1, <2>2 DEF GoesOn, After
  <2> QED  BY <1>1, <1>3, <1>4, <2>1, <2>3, TakesStep
<1> QED  BY <1>5, <1>6

LEMMA ReadRaisesStep == BenchInv /\ ReadRaises => BenchInv'
<1> SUFFICES ASSUME BenchInv, ReadRaises PROVE BenchInv'  OBVIOUS
<1>1. /\ host.phase \in {"nudge", "ack", "log", "send"} /\ up /\ faults > 0
      /\ up' = FALSE /\ faults' = faults - 1 /\ boot' = boot /\ wire' = wire /\ said' = said
  BY DEF ReadRaises, Reading
<1>2. /\ host \in HostRecords /\ wire \in Seq(Wires) /\ up \in BOOLEAN
      /\ faults' \in 0 .. MaxFaults /\ host.headline = "none"
  BY <1>1, BenchAssumption DEF BenchInv, PlacesOK, LogOK
<1>3. \E h \in HostRecords :
         /\ Then(h) /\ h.phase = host.phase /\ h.headline = "none"
         /\ h.phase = "nudge" /\ ~h.early => h.log = <<>>
         /\ ~h.early /\ h.log # <<>> => boot.ran > 0
  <2>1. CASE Then(host)
    BY <1>1, <1>2, <2>1 DEF BenchInv, LogOK, RanOK
  <2>2. ASSUME NEW line \in Lines, CaseLines(wire) # <<>>, Then(Emit(host, <<line>>))
        PROVE  \E h \in HostRecords :
                  /\ Then(h) /\ h.phase = host.phase /\ h.headline = "none"
                  /\ h.phase = "nudge" /\ ~h.early => h.log = <<>>
                  /\ ~h.early /\ h.log # <<>> => boot.ran > 0
    <3> DEFINE h == Emit(host, <<line>>)
    <3>1. <<line>> \in Seq(Wires) /\ CaseLines(<<line>>) = <<line>> /\ <<line>> # <<>>
      BY OnlyOfOne DEF CaseLines, Wires
    <3>2. /\ h \in HostRecords /\ h.phase = host.phase /\ h.headline = host.headline
          /\ h.early = (host.early \/ (host.phase = "nudge" /\ CaseLines(<<line>>) # <<>>))
      BY <1>2, <3>1, EmitHost
    <3>3. Then(h)
      BY <2>2
    <3> HIDE DEF h
    <3>4. h.phase = "nudge" => h.early
      BY <3>1, <3>2
    <3>5. h.phase # "nudge" => boot.ran > 0
      BY <1>1, <2>2, <3>2 DEF BenchInv, RanOK, After
    <3> QED  BY <1>2, <3>2, <3>3, <3>4, <3>5
  <2> QED  BY <2>1, <2>2 DEF ReadRaises
<1>4. PICK h \in HostRecords :
         /\ Then(h) /\ h.phase = host.phase /\ h.headline = "none"
         /\ h.phase = "nudge" /\ ~h.early => h.log = <<>>
         /\ ~h.early /\ h.log # <<>> => boot.ran > 0
  BY <1>3
<1>5. /\ host' \in HostRecords /\ host'.phase = h.phase /\ host'.log = h.log
      /\ host'.early = h.early /\ host'.headline = h.headline
  BY <1>4, ThenHost
<1>6. ~host'.clean
  <2>1. host'.clean => up' = up
    BY <1>4, ThenHost
  <2> QED  BY <1>1, <2>1
<1>7. PlacesOK'
  BY <1>1, <1>2, <1>5 DEF BenchInv, PlacesOK, BootOK, BootRecords, HostRecords
<1>8. PortOK'
  BY <1>1, <1>4, <1>5, <1>6 DEF PortOK
<1>9. LogOK'
  BY <1>1, <1>4, <1>5 DEF LogOK
<1>10. RanOK'
  BY <1>1, <1>4, <1>5 DEF BenchInv, RanOK
<1>11. Follows'
  BY <1>6 DEF Follows
<1> QED  BY <1>7, <1>8, <1>9, <1>10, <1>11 DEF BenchInv

LEMMA NoHostOK ==
    /\ NoHost \in HostRecords /\ NoHost.phase = "idle" /\ NoHost.log = <<>> /\ ~NoHost.early
    /\ NoHost.clean /\ NoHost.headline = "none"
BY BenchAssumption DEF NoHost, HostRecords, Phases

LEMMA HostReturnsStep == BenchInv /\ HostReturns => BenchInv'
<1> SUFFICES ASSUME BenchInv, HostReturns PROVE BenchInv'  OBVIOUS
<1>1. /\ host.phase = "exited" /\ host' = NoHost /\ wire' = <<>> /\ said' = <<>>
      /\ boot' = boot /\ up' = up /\ faults' = faults
  BY DEF HostReturns
<1>2. ~up
  BY <1>1 DEF BenchInv, PortOK
<1>3. PlacesOK'
  BY <1>1, NoHostOK DEF BenchInv, PlacesOK, BootOK, BootRecords, HostRecords
<1>4. PortOK' /\ LogOK'
  BY <1>1, <1>2, NoHostOK DEF PortOK, LogOK
<1>5. RanOK' /\ Follows'
  BY <1>1, NoHostOK DEF RanOK, Follows, Reported, After
<1> QED  BY <1>3, <1>4, <1>5 DEF BenchInv

LEMMA OpensPortStep ==
    ASSUME BenchInv, NEW how \in {"nudge", "listen"}, OpensPort(how)
    PROVE  BenchInv'
<1>1. /\ host.phase = "idle" /\ said' = <<>> /\ boot' = boot /\ wire' = wire /\ faults' = faults
  BY DEF OpensPort
<1>2. ~up /\ wire = <<>>
  BY <1>1 DEF BenchInv, PortOK
<1>3. CaseLines(<<>>) = <<>> /\ <<>> \o <<>> = <<>>
  BY OnlyOfEmpty DEF CaseLines
<1>4. \E ph \in {how, "exited"} :
         host' = [NoHost EXCEPT !.phase = ph] /\ up' \in BOOLEAN /\ (up' <=> ph # "exited")
  <2>1. CASE host' = [NoHost EXCEPT !.phase = how] /\ up' = TRUE
    BY <2>1
  <2>2. CASE host' = Exits(NoHost) /\ UNCHANGED up
    <3>1. up' \in BOOLEAN /\ ~up'
      BY <1>2, <2>2 DEF BenchInv, PlacesOK
    <3> QED  BY <2>2, <3>1 DEF Exits
  <2> QED  BY <2>1, <2>2 DEF OpensPort
<1>5. PICK ph \in {how, "exited"} :
         host' = [NoHost EXCEPT !.phase = ph] /\ up' \in BOOLEAN /\ (up' <=> ph # "exited")
  BY <1>4
<1>6. /\ host' \in HostRecords /\ host'.phase = ph /\ host'.log = <<>> /\ ~host'.early
      /\ host'.clean /\ host'.headline = "none"
  BY <1>5, NoHostOK DEF HostRecords, Phases
<1>7. PlacesOK'
  BY <1>1, <1>5, <1>6 DEF BenchInv, PlacesOK, BootOK, BootRecords, HostRecords
<1>8. PortOK' /\ LogOK'
  BY <1>1, <1>2, <1>5, <1>6 DEF PortOK, LogOK
<1>9. RanOK' /\ Follows'
  BY <1>1, <1>2, <1>3, <1>6 DEF RanOK, Follows, Reported, After
<1> QED  BY <1>7, <1>8, <1>9 DEF BenchInv

-----------------------------------------------------------------------------
(* The flow's files and memories, and the ledger.                          *)

FlowGood ==
    /\ model \in Versions /\ header \in 0 .. MaxEdits + 1 /\ source \in 0 .. MaxEdits + 1
    /\ artefact \in [Files -> Images] /\ sram \in Images /\ spi \in Images
    /\ flow.rc \in 0 .. 1 /\ flow.emitted \in Images
    /\ flow.cmd = "none" => flow.todo = <<>>
    /\ flow.cmd # "none" => source \in Versions /\ header \in Versions

LEMMA ImagesAre ==
    /\ NoImage \in Images /\ SocImage \in Images
    /\ \A t, h \in Versions : [top |-> t, header |-> h] \in Images
BY DEF Images

LEMMA FlowGoodInit == BringUpInit => FlowGood
<1> SUFFICES ASSUME BringUpInit PROVE FlowGood  OBVIOUS
<1>1. /\ model = 1 /\ header \in 0 .. 1 /\ source = 0 /\ artefact = [f \in Files |-> NoImage]
      /\ sram = NoImage /\ spi = NoImage /\ flow = NoFlow
  BY DEF BringUpInit, FlowInit
<1>2. model \in Versions /\ header \in 0 .. MaxEdits + 1 /\ source \in 0 .. MaxEdits + 1
  BY <1>1, FlowAssumption DEF Versions
<1>3. flow.rc = 0 /\ flow.emitted = NoImage /\ flow.cmd = "none" /\ flow.todo = <<>>
  BY <1>1 DEF NoFlow
<1> QED  BY <1>1, <1>2, <1>3, ImagesAre DEF FlowGood

LEMMA PrepareGood ==
    ASSUME FlowGood, NEW cmd \in BoardCommands, NEW dry \in BOOLEAN, NEW toFlash \in BOOLEAN,
           Prepare(cmd, dry, toFlash)
    PROVE  FlowGood'
<1>1. /\ flow' = [cmd |-> cmd, todo |-> Tools[cmd], dry |-> dry, toFlash |-> toFlash, rc |-> 0,
                  emitted |-> [top |-> model, header |-> header'], was |-> <<sram, spi>>]
      /\ header' = IF header = 0 THEN model ELSE header
      /\ source' = model /\ model' = model /\ artefact' = artefact /\ sram' = sram /\ spi' = spi
  BY DEF Prepare, EnsureModelEmitted
<1>2. header' \in Versions /\ source' \in Versions
  BY <1>1, FlowAssumption DEF FlowGood, Versions
<1>3. header' \in 0 .. MaxEdits + 1 /\ source' \in 0 .. MaxEdits + 1
  BY <1>2, FlowAssumption DEF Versions
<1>4. [top |-> model, header |-> header'] \in Images
  BY <1>2, ImagesAre DEF FlowGood
<1>5. flow'.rc = 0 /\ flow'.emitted \in Images /\ flow'.cmd = cmd /\ cmd # "none"
  BY <1>1, <1>4, ToolsOf
<1> QED  BY <1>1, <1>2, <1>3, <1>5 DEF FlowGood

LEMMA TodoTools ==
    ASSUME IInv, FlowGood, flow.todo # <<>>
    PROVE  /\ Head(flow.todo) \in {"synth", "pnr", "pack", "load"}
           /\ flow.cmd # "none" /\ source \in Versions /\ header \in Versions
<1>1. flow.cmd # "none" /\ source \in Versions /\ header \in Versions
  BY DEF FlowGood
<1>2. CASE flow.cmd = "flash"
  <2>1. flow.todo \in FlashTodos
    BY <1>2 DEF IInv, Chain
  <2>2. Len(flow.todo) \in 1 .. 4
    BY <2>1, FlashTail
  <2>3. \/ Len(flow.todo) = 1 \/ Len(flow.todo) = 2 \/ Len(flow.todo) = 3 \/ Len(flow.todo) = 4
    BY <2>2
  <2> QED  BY <1>1, <2>1, <2>3, FlashTail
<1>3. CASE flow.cmd # "flash"
  <2>1. flow.todo \in QuietTodos
    BY <1>1, <1>3 DEF IInv, Quiet
  <2> QED  BY <1>1, <2>1, QuietTail
<1> QED  BY <1>2, <1>3

LEMMA FlowRunsGood == IInv /\ FlowGood /\ FlowStep => FlowGood'
<1> SUFFICES ASSUME IInv, FlowGood, FlowStep PROVE FlowGood'  OBVIOUS
<1>1. ASSUME NEW f, flow' = f, f.rc \in 0 .. 1, f.emitted \in Images, f.cmd # "none",
             flow.cmd # "none", model' = model, header' = header, source' = source,
             artefact' \in [Files -> Images], sram' \in Images, spi' \in Images
      PROVE  FlowGood'
  BY <1>1 DEF FlowGood
<1>2. /\ DOMAIN flow = FlowFields /\ flow = [x \in FlowFields |-> flow[x]]
      /\ artefact \in [Files -> Images] /\ sram \in Images /\ spi \in Images
      /\ flow.rc \in 0 .. 1 /\ flow.emitted \in Images
  BY DEF IInv, FlowShape, FlowGood
<1>3. CASE DryStep
  <2> DEFINE f == [flow EXCEPT !.todo = Tail(@)]
  <2>1. /\ flow' = f /\ model' = model /\ header' = header /\ source' = source
        /\ artefact' = artefact /\ sram' = sram /\ spi' = spi /\ flow.todo # <<>>
    BY <1>3 DEF DryStep
  <2>2. f.rc = flow.rc /\ f.emitted = flow.emitted /\ f.cmd = flow.cmd
    BY <1>2 DEF FlowFields
  <2>3. flow.cmd # "none"
    BY <2>1, TodoTools
  <2> HIDE DEF f
  <2> QED  BY <1>1, <1>2, <2>1, <2>2, <2>3
<1>4. CASE ToolWorks
  <2> DEFINE f == [flow EXCEPT !.todo = Tail(@)]
             tool == Head(flow.todo)
  <2>1. /\ flow' = f /\ model' = model /\ header' = header /\ source' = source
        /\ flow.todo # <<>>
        /\ IF tool = "load"
           THEN Load(ToolInput("load"), flow.toFlash) /\ UNCHANGED artefact
           ELSE /\ artefact' = [artefact EXCEPT ![ToolOutput[tool]] = ToolInput(tool)]
                /\ UNCHANGED <<sram, spi>>
    BY <1>4 DEF ToolWorks
  <2>2. f.rc = flow.rc /\ f.emitted = flow.emitted /\ f.cmd = flow.cmd
    BY <1>2 DEF FlowFields
  <2>3. flow.cmd # "none" /\ tool \in {"synth", "pnr", "pack", "load"}
    BY <2>1, TodoTools
  <2>4. ToolInput(tool) \in Images
    <3>1. [top |-> source, header |-> header] \in Images
      BY <2>1, TodoTools, ImagesAre
    <3>2. artefact["json"] \in Images /\ artefact["pnr"] \in Images /\ artefact["fs"] \in Images
      BY <1>2 DEF Files
    <3> HIDE DEF tool
    <3> QED  BY <2>3, <3>1, <3>2 DEF ToolInput
  <2> HIDE DEF f, tool
  <2>5. /\ artefact' \in [Files -> Images] /\ sram' \in Images /\ spi' \in Images
    <3>1. CASE tool = "load"
      <4>1. Load(ToolInput(tool), flow.toFlash) /\ artefact' = artefact
        BY <2>1, <3>1
      <4> QED  BY <1>2, <2>4, <4>1 DEF Load
    <3>2. CASE tool # "load"
      <4>1. /\ artefact' = [artefact EXCEPT ![ToolOutput[tool]] = ToolInput(tool)]
            /\ sram' = sram /\ spi' = spi
        BY <2>1, <3>2
      <4> QED  BY <1>2, <2>4, <4>1
    <3> QED  BY <3>1, <3>2
  <2> QED  BY <1>1, <1>2, <2>1, <2>2, <2>3, <2>5
<1>5. CASE ToolFails
  <2> DEFINE f == [flow EXCEPT !.todo = <<>>, !.rc = 1]
  <2>1. /\ flow' = f /\ model' = model /\ header' = header /\ source' = source
        /\ artefact' = artefact /\ flow.todo # <<>>
        /\ (sram' = sram /\ spi' = spi) \/ Load(NoImage, flow.toFlash)
    BY <1>5 DEF ToolFails, Failed
  <2>2. f.rc = 1 /\ f.emitted = flow.emitted /\ f.cmd = flow.cmd
    BY <1>2 DEF FlowFields
  <2>3. flow.cmd # "none"
    BY <2>1, TodoTools
  <2>4. sram' \in Images /\ spi' \in Images
    BY <1>2, <2>1, ImagesAre DEF Load
  <2> HIDE DEF f
  <2> QED  BY <1>1, <1>2, <2>1, <2>2, <2>3, <2>4
<1>6. CASE FlowReturns
  <2>1. /\ flow' = NoFlow /\ model' = model /\ header' = header /\ source' = source
        /\ artefact' = artefact /\ sram' = sram /\ spi' = spi
    BY <1>6 DEF FlowReturns
  <2>2. NoFlow.rc = 0 /\ NoFlow.emitted = NoImage /\ NoFlow.cmd = "none" /\ NoFlow.todo = <<>>
    BY DEF NoFlow
  <2> QED  BY <2>1, <2>2, ImagesAre DEF FlowGood
<1> QED  BY <1>3, <1>4, <1>5, <1>6 DEF FlowStep

LEMMA FlowSame == FlowGood /\ UNCHANGED flowVars => FlowGood'
BY DEF FlowGood, flowVars

LEMMA FlowGoodNext == IInv /\ FlowGood /\ [BringUpNext]_bringUpVars => FlowGood'
<1> SUFFICES ASSUME IInv, FlowGood, [BringUpNext]_bringUpVars PROVE FlowGood'  OBVIOUS
<1>1. CASE BoardCommand
  BY <1>1, PrepareGood DEF BoardCommand
<1>2. CASE EditCommand
  <2>1. /\ model' = model + 1 /\ model <= MaxEdits /\ header' = header /\ source' = source
        /\ artefact' = artefact /\ sram' = sram /\ spi' = spi /\ flow' = flow
    BY <1>2 DEF EditCommand, Edit
  <2>2. model' \in Versions
    BY <2>1, FlowAssumption DEF FlowGood, Versions
  <2> QED  BY <2>1, <2>2 DEF FlowGood
<1>3. CASE SocFlashCommand
  <2>1. /\ model' = model /\ header' = header /\ source' = source /\ artefact' = artefact
        /\ flow' = flow
        /\ \E toFlash \in BOOLEAN : Load(SocImage, toFlash) \/ Load(NoImage, toFlash)
    BY <1>3 DEF SocFlashCommand, SocFlash
  <2>2. sram' \in Images /\ spi' \in Images
    BY <2>1, ImagesAre DEF FlowGood, Load
  <2> QED  BY <2>1, <2>2 DEF FlowGood
<1>4. CASE PowerCycleCommand
  <2>1. /\ model' = model /\ header' = header /\ source' = source /\ artefact' = artefact
        /\ flow' = flow /\ sram' = spi /\ spi' = spi
    BY <1>4 DEF PowerCycleCommand, PowerCycle
  <2> QED  BY <2>1 DEF FlowGood
<1>5. CASE FlowRuns
  BY <1>5, FlowRunsGood DEF FlowRuns
<1>6. CASE CatalogCommand \/ BenchCommand \/ HostRuns \/ TimeRuns \/ PortRuns \/ BoardRuns
  BY <1>6, FlowSame DEF CatalogCommand, BenchCommand, HostRuns, TimeRuns, PortRuns, BoardRuns
<1>7. CASE UNCHANGED bringUpVars
  BY <1>7, FlowSame DEF bringUpVars
<1> QED  BY <1>1, <1>2, <1>3, <1>4, <1>5, <1>6, <1>7 DEF BringUpNext

-----------------------------------------------------------------------------
(* The counts of the ledger.  A point is a choice of an algorithm, of a    *)
(* security profile and of the coordinates the rules relate, so that the   *)
(* points of a target are as many as the product of the three sets.        *)

Counts(S, n) == IsFiniteSet(S) /\ Cardinality(S) = n

LEMMA CountsOne ==
    ASSUME NEW a
    PROVE  Counts({a}, 1)
BY FS_Singleton DEF Counts

LEMMA CountsAdd ==
    ASSUME NEW S, NEW n \in Nat, Counts(S, n), NEW x, x \notin S
    PROVE  Counts(S \cup {x}, n + 1)
BY FS_AddElement DEF Counts

LEMMA CountsUnion ==
    ASSUME NEW S, NEW T, NEW m \in Nat, NEW n \in Nat, Counts(S, m), Counts(T, n), S \cap T = {},
           NEW k, k = m + n
    PROVE  Counts(S \cup T, k)
<1>1. IsFiniteSet(S \cup T) /\ Cardinality(S \cup T) = m + n - Cardinality(S \cap T)
  BY FS_Union DEF Counts
<1>2. Cardinality(S \cap T) = 0
  BY FS_EmptySet
<1> QED  BY <1>1, <1>2 DEF Counts

LEMMA CountsWithout ==
    ASSUME NEW S, NEW T \in SUBSET S, NEW m \in Nat, NEW n \in Nat, Counts(S, m), Counts(T, n)
    PROVE  Counts(S \ T, m - n)
<1>1. IsFiniteSet(S \ T) /\ Cardinality(S \ T) = m - Cardinality(S \cap T)
  BY FS_Difference DEF Counts
<1>2. S \cap T = T
  OBVIOUS
<1> QED  BY <1>1, <1>2 DEF Counts

LEMMA CountsProduct ==
    ASSUME NEW S, NEW T, NEW m \in Nat, NEW n \in Nat, Counts(S, m), Counts(T, n),
           NEW k, k = m * n
    PROVE  Counts(S \X T, k)
BY FS_Product DEF Counts

\* f gives every point of T from one item of S.
Enumerates(f, S, T) ==
    /\ f \in [S -> T]
    /\ \A x, y \in S : f[x] = f[y] => x = y
    /\ \A t \in T : \E x \in S : f[x] = t

LEMMA CountsImage ==
    ASSUME NEW S, NEW T, NEW n \in Nat, NEW f, Enumerates(f, S, T), Counts(S, n)
    PROVE  Counts(T, n)
<1>1. f \in Bijection(S, T)
  BY DEF Enumerates, Bijection, Injection, Surjection, IsInjective
<1>2. ExistsBijection(S, T)
  BY <1>1 DEF ExistsBijection
<1> QED  BY <1>2, FS_Bijection DEF Counts

-----------------------------------------------------------------------------
(* The sets of coordinates.                                                *)

LEMMA CountsTwo ==
    ASSUME NEW a, NEW b, a # b
    PROVE  Counts({a, b}, 2)
<1>1. Counts({a} \cup {b}, 1 + 1)
  BY CountsOne, CountsAdd
<1>2. {a} \cup {b} = {a, b} /\ 1 + 1 = 2
  OBVIOUS
<1> QED  BY <1>1, <1>2

LEMMA CountsThree ==
    ASSUME NEW a, NEW b, NEW c, a # b, a # c, b # c
    PROVE  Counts({a, b, c}, 3)
<1>1. Counts({a, b} \cup {c}, 2 + 1)
  BY CountsTwo, CountsAdd
<1>2. {a, b} \cup {c} = {a, b, c} /\ 2 + 1 = 3
  OBVIOUS
<1> QED  BY <1>1, <1>2

LEMMA CountsFour ==
    ASSUME NEW a, NEW b, NEW c, NEW d, a # b, a # c, b # c, a # d, b # d, c # d
    PROVE  Counts({a, b, c, d}, 4)
<1>1. Counts({a, b, c} \cup {d}, 3 + 1)
  BY CountsThree, CountsAdd
<1>2. {a, b, c} \cup {d} = {a, b, c, d} /\ 3 + 1 = 4
  OBVIOUS
<1> QED  BY <1>1, <1>2

SerialDatapaths == {16, 8, 5, 1}
AsicDatapaths   == {64, 32} \cup SerialDatapaths
Parallel        == {"one_round_per_cycle", "two_rounds_per_cycle", "column_serial"}

\* What the rules leave of the lane widths and the permutations.
AsicChoices == (AsicDatapaths \X Parallel) \cup (SerialDatapaths \X {"bit_serial"})

Unrolled == {"four_rounds_per_cycle", "eight_rounds_per_cycle"}
Controls == {"axi_stream", "microcoded_sequencer", "axi_stream_microcoded_hybrid"}

\* What the rules leave of the tops, the permutations and the controls.
FpgaChoices ==
    ({"n_identical_aead_cores"} \X ((Unrolled \cup {"fully_pipelined"}) \X Controls))
    \cup ({"one_pipelined_n_contexts", "m_pipelines_n_contexts"}
          \X ({"fully_pipelined"} \X {"axi_stream", "axi_stream_microcoded_hybrid"}))

Backed == {"aead128", "hash", "xof", "cxof"}

AsicSecurity == {"none", "asic_baseline"}
FpgaSecurity == {"none", "fpga_fault_detect"}

LEMMA AsicChoicesCount == Counts(AsicChoices, 22)
<1>1. Counts(SerialDatapaths, 4) /\ Counts({64, 32}, 2) /\ Counts(Parallel, 3)
  <2>1. Counts({16, 8, 5, 1}, 4)
    <3>1. 16 # 8 /\ 16 # 5 /\ 8 # 5 /\ 16 # 1 /\ 8 # 1 /\ 5 # 1
      OBVIOUS
    <3> QED  BY <3>1, CountsFour, Zenon
  <2>2. Counts({64, 32}, 2)
    <3>1. 64 # 32
      OBVIOUS
    <3> QED  BY <3>1, CountsTwo, Zenon
  <2>3. Counts(Parallel, 3)
    BY CountsThree DEF Parallel
  <2> QED  BY <2>1, <2>2, <2>3 DEF SerialDatapaths
<1>2. Counts(AsicDatapaths, 6)
  <2>1. {64, 32} \cap SerialDatapaths = {}
    BY DEF SerialDatapaths
  <2>2. Counts({64, 32} \cup SerialDatapaths, 2 + 4)
    BY <1>1, <2>1, CountsUnion
  <2>3. 2 + 4 = 6
    OBVIOUS
  <2> QED  BY <2>2, <2>3 DEF AsicDatapaths
<1>3. Counts(AsicDatapaths \X Parallel, 18)
  <2>1. 6 * 3 = 18
    OBVIOUS
  <2> QED  BY <1>1, <1>2, <2>1, CountsProduct
<1>4. Counts(SerialDatapaths \X {"bit_serial"}, 4)
  <2>1. 4 * 1 = 4
    OBVIOUS
  <2> QED  BY <1>1, <2>1, CountsOne, CountsProduct
<1>5. (AsicDatapaths \X Parallel) \cap (SerialDatapaths \X {"bit_serial"}) = {}
  BY DEF Parallel
<1>6. Counts(AsicChoices, 18 + 4) /\ 18 + 4 = 22
  BY <1>3, <1>4, <1>5, CountsUnion DEF AsicChoices
<1> QED  BY <1>6

LEMMA FpgaChoicesCount == Counts(FpgaChoices, 13)
<1> DEFINE P == Unrolled \cup {"fully_pipelined"}
           S == {"axi_stream", "axi_stream_microcoded_hybrid"}
           O == {"one_pipelined_n_contexts", "m_pipelines_n_contexts"}
           L == {"n_identical_aead_cores"} \X (P \X Controls)
           R == O \X ({"fully_pipelined"} \X S)
<1>1. Counts(Controls, 3) /\ Counts(S, 2) /\ Counts(O, 2)
  BY CountsThree, CountsTwo DEF Controls
<1>2. Counts(P, 3)
  <2>1. P = {"four_rounds_per_cycle", "eight_rounds_per_cycle", "fully_pipelined"}
    BY DEF Unrolled
  <2> HIDE DEF P
  <2> QED  BY <2>1, CountsThree
<1>3. L \cap R = {}
  OBVIOUS
<1> HIDE DEF P, S, O
<1>4. Counts(L, 9)
  <2>1. 3 * 3 = 9 /\ 1 * 9 = 9
    OBVIOUS
  <2>2. Counts(P \X Controls, 9)
    BY <1>1, <1>2, <2>1, CountsProduct
  <2> QED  BY <2>1, <2>2, CountsOne, CountsProduct
<1>5. Counts(R, 4)
  <2>1. 1 * 2 = 2 /\ 2 * 2 = 4
    OBVIOUS
  <2>2. Counts({"fully_pipelined"} \X S, 2)
    BY <1>1, <2>1, CountsOne, CountsProduct
  <2> QED  BY <1>1, <2>1, <2>2, CountsProduct
<1>6. FpgaChoices = L \cup R
  BY DEF FpgaChoices, P, O, S
<1> HIDE DEF L, R
<1>7. Counts(L \cup R, 9 + 4) /\ 9 + 4 = 13
  BY <1>3, <1>4, <1>5, CountsUnion
<1> QED  BY <1>6, <1>7

LEMMA AlgorithmsCount ==
    Counts(Algorithms, 8) /\ Counts(Backed, 4) /\ Backed = Algorithms \cap KatBacked
<1>1. Counts(Backed, 4)
  BY CountsFour DEF Backed
<1>2. Counts({"aead128a", "aead80pq", "hasha", "xofa"}, 4)
  BY CountsFour
<1>3. Backed \cap {"aead128a", "aead80pq", "hasha", "xofa"} = {}
  BY DEF Backed
<1>4. Counts(Backed \cup {"aead128a", "aead80pq", "hasha", "xofa"}, 4 + 4) /\ 4 + 4 = 8
  BY <1>1, <1>2, <1>3, CountsUnion
<1>5. Backed \cup {"aead128a", "aead80pq", "hasha", "xofa"} = Algorithms
  BY DEF Backed, Algorithms
<1>6. Backed = Algorithms \cap KatBacked
  BY DEF Backed, Algorithms, KatBacked
<1> QED  BY <1>1, <1>4, <1>5, <1>6

-----------------------------------------------------------------------------
(* The points of a target.                                                 *)

AsicOf(A, D) == {p \in AsicPoints : IsValid(p) /\ p.algorithm \in A /\ p.security \in D}
FpgaOf(A, E) == {p \in FpgaPoints : IsValid(p) /\ p.algorithm \in A /\ p.security \in E}

LEMMA AsicValid ==
    ASSUME NEW p \in AsicPoints
    PROVE  IsValid(p) <=> <<p.datapath, p.permutation>> \in AsicChoices
<1>1. /\ p.top = "dual_enc_dec_cores" /\ p.datapath \in {64, 32, 16, 8, 5, 1}
      /\ p.permutation \in {"one_round_per_cycle", "two_rounds_per_cycle", "column_serial",
                            "bit_serial"}
  BY DEF AsicPoints
<1>2. ContextsScheduled(p)
  BY <1>1 DEF ContextsScheduled, Interleaved
<1>3. ColumnSerialFits(p)
  BY <1>1 DEF ColumnSerialFits, SboxColumns
<1>4. BitSerialFits(p) <=> (p.permutation = "bit_serial" => p.datapath \in SerialDatapaths)
  BY <1>1 DEF BitSerialFits, SerialDatapaths
<1> QED  BY <1>1, <1>2, <1>3, <1>4
         DEF IsValid, AsicChoices, AsicDatapaths, SerialDatapaths, Parallel

LEMMA FpgaValid ==
    ASSUME NEW p \in FpgaPoints
    PROVE  IsValid(p) <=> <<p.top, <<p.permutation, p.control>>>> \in FpgaChoices
<1>1. /\ p.top \in {"n_identical_aead_cores", "one_pipelined_n_contexts", "m_pipelines_n_contexts"}
      /\ p.datapath = 128 /\ p.control \in Controls
      /\ p.permutation \in Unrolled \cup {"fully_pipelined"}
  BY DEF FpgaPoints, Controls, Unrolled
<1>2. ColumnSerialFits(p) /\ BitSerialFits(p)
  BY <1>1 DEF ColumnSerialFits, BitSerialFits, Unrolled
<1>3. ContextsScheduled(p) <=> \/ p.top = "n_identical_aead_cores"
                               \/ /\ p.permutation = "fully_pipelined"
                                  /\ p.control \in {"axi_stream", "axi_stream_microcoded_hybrid"}
  BY <1>1 DEF ContextsScheduled, Interleaved, HasScheduler, Pipelined, Controls
<1> QED  BY <1>1, <1>2, <1>3 DEF IsValid, FpgaChoices, Controls

LEMMA AsicOfCount ==
    ASSUME NEW A \in SUBSET Algorithms, NEW D \in SUBSET AsicSecurity,
           NEW m \in Nat, NEW n \in Nat, Counts(A, m), Counts(D, n), NEW k, k = (m * n) * 22
    PROVE  Counts(AsicOf(A, D), k)
<1> DEFINE S == (A \X D) \X AsicChoices
           point(x) == [target |-> "asic", algorithm |-> x[1][1], top |-> "dual_enc_dec_cores",
                        datapath |-> x[2][1], permutation |-> x[2][2],
                        control |-> "hardcoded_fsm", security |-> x[1][2]]
           f == [x \in S |-> point(x)]
<1>1. Counts(S, k)
  <2>1. Counts(A \X D, m * n) /\ m * n \in Nat
    BY CountsProduct
  <2> QED  BY <2>1, AsicChoicesCount, CountsProduct
<1>2. ASSUME NEW x \in S
      PROVE  /\ f[x] = point(x) /\ point(x) \in AsicOf(A, D)
             /\ x = <<<<point(x).algorithm, point(x).security>>,
                      <<point(x).datapath, point(x).permutation>>>>
  <2>1. PICK a \in A, d \in D, c \in AsicChoices : x = <<<<a, d>>, c>>
    OBVIOUS
  <2>2. PICK w \in {64, 32, 16, 8, 5, 1}, q \in Parallel \cup {"bit_serial"} : c = <<w, q>>
    BY DEF AsicChoices, AsicDatapaths, SerialDatapaths
  <2>3. point(x) = [target |-> "asic", algorithm |-> a, top |-> "dual_enc_dec_cores",
                    datapath |-> w, permutation |-> q, control |-> "hardcoded_fsm", security |-> d]
    BY <2>1, <2>2
  <2> DEFINE p == point(x)
  <2> HIDE DEF p
  <2>4. /\ p.algorithm = a /\ p.security = d /\ p.datapath = w /\ p.permutation = q
    BY <2>3 DEF p
  <2>5. p \in AsicPoints
    BY <2>3 DEF p, AsicPoints, AsicSecurity, Parallel
  <2>6. IsValid(p)
    BY <2>2, <2>4, <2>5, AsicValid
  <2>7. p \in AsicOf(A, D) /\ x = <<<<p.algorithm, p.security>>, <<p.datapath, p.permutation>>>>
    BY <2>1, <2>2, <2>4, <2>5, <2>6 DEF AsicOf
  <2> QED  BY <2>7 DEF p
<1>3. ASSUME NEW p \in AsicOf(A, D) PROVE \E x \in S : f[x] = p
  <2> DEFINE x == <<<<p.algorithm, p.security>>, <<p.datapath, p.permutation>>>>
  <2>1. p \in AsicPoints /\ <<p.datapath, p.permutation>> \in AsicChoices
    BY AsicValid DEF AsicOf
  <2>2. x \in S
    BY <2>1 DEF AsicOf
  <2>3. point(x) = p
    BY <2>1 DEF AsicPoints
  <2> QED  BY <2>2, <2>3
<1> HIDE DEF S, point
<1>4. Enumerates(f, S, AsicOf(A, D))
  <2>1. f \in [S -> AsicOf(A, D)]
    BY <1>2
  <2>2. ASSUME NEW x \in S, NEW y \in S, f[x] = f[y] PROVE x = y
    BY <1>2, <2>2
  <2> QED  BY <1>3, <2>1, <2>2 DEF Enumerates
<1> HIDE DEF f
<1>5. k \in Nat
  OBVIOUS
<1> QED  BY <1>1, <1>4, <1>5, CountsImage

LEMMA FpgaOfCount ==
    ASSUME NEW A \in SUBSET Algorithms, NEW D \in SUBSET FpgaSecurity,
           NEW m \in Nat, NEW n \in Nat, Counts(A, m), Counts(D, n), NEW k, k = (m * n) * 13
    PROVE  Counts(FpgaOf(A, D), k)
<1> DEFINE S == (A \X D) \X FpgaChoices
           point(x) == [target |-> "fpga", algorithm |-> x[1][1], top |-> x[2][1],
                        datapath |-> 128, permutation |-> x[2][2][1],
                        control |-> x[2][2][2], security |-> x[1][2]]
           f == [x \in S |-> point(x)]
<1>1. Counts(S, k)
  <2>1. Counts(A \X D, m * n) /\ m * n \in Nat
    BY CountsProduct
  <2> QED  BY <2>1, FpgaChoicesCount, CountsProduct
<1>2. ASSUME NEW x \in S
      PROVE  /\ f[x] = point(x) /\ point(x) \in FpgaOf(A, D)
             /\ x = <<<<point(x).algorithm, point(x).security>>,
                      <<point(x).top, <<point(x).permutation, point(x).control>>>>>>
  <2>1. PICK a \in A, d \in D, c \in FpgaChoices : x = <<<<a, d>>, c>>
    OBVIOUS
  <2>2. PICK t \in {"n_identical_aead_cores", "one_pipelined_n_contexts", "m_pipelines_n_contexts"},
             q \in Unrolled \cup {"fully_pipelined"}, u \in Controls : c = <<t, <<q, u>>>>
    BY DEF FpgaChoices, Controls
  <2>3. point(x) = [target |-> "fpga", algorithm |-> a, top |-> t, datapath |-> 128,
                    permutation |-> q, control |-> u, security |-> d]
    BY <2>1, <2>2
  <2> DEFINE p == point(x)
  <2> HIDE DEF p
  <2>4. p.algorithm = a /\ p.security = d /\ p.top = t /\ p.permutation = q /\ p.control = u
    BY <2>3 DEF p
  <2>5. p \in FpgaPoints
    BY <2>3 DEF p, FpgaPoints, FpgaSecurity, Unrolled, Controls
  <2>6. IsValid(p)
    BY <2>2, <2>4, <2>5, FpgaValid
  <2>7. /\ p \in FpgaOf(A, D)
        /\ x = <<<<p.algorithm, p.security>>, <<p.top, <<p.permutation, p.control>>>>>>
    BY <2>1, <2>2, <2>4, <2>5, <2>6 DEF FpgaOf
  <2> QED  BY <2>7 DEF p
<1>3. ASSUME NEW p \in FpgaOf(A, D) PROVE \E x \in S : f[x] = p
  <2> DEFINE x == <<<<p.algorithm, p.security>>, <<p.top, <<p.permutation, p.control>>>>>>
  <2>1. p \in FpgaPoints /\ <<p.top, <<p.permutation, p.control>>>> \in FpgaChoices
    BY FpgaValid DEF FpgaOf
  <2>2. x \in S
    BY <2>1 DEF FpgaOf
  <2>3. point(x) = p
    BY <2>1 DEF FpgaPoints
  <2> QED  BY <2>2, <2>3
<1> HIDE DEF S, point
<1>4. Enumerates(f, S, FpgaOf(A, D))
  <2>1. f \in [S -> FpgaOf(A, D)]
    BY <1>2
  <2>2. ASSUME NEW x \in S, NEW y \in S, f[x] = f[y] PROVE x = y
    BY <1>2, <2>2
  <2> QED  BY <1>3, <2>1, <2>2 DEF Enumerates
<1> HIDE DEF f
<1>5. k \in Nat
  OBVIOUS
<1> QED  BY <1>1, <1>4, <1>5, CountsImage

-----------------------------------------------------------------------------
(* The statuses.                                                           *)

HandPoints == {p \in FpgaPoints : IsValid(p) /\ Handwritten(p)}

LEMMA HandPointsCount == Counts(HandPoints, 6)
<1> DEFINE S == Unrolled \X Controls
           point(x) == [target |-> "fpga", algorithm |-> "aead128",
                        top |-> "n_identical_aead_cores", datapath |-> 128,
                        permutation |-> x[1], control |-> x[2], security |-> "none"]
           f == [x \in S |-> point(x)]
<1>1. Counts(S, 6)
  <2>1. Counts(Unrolled, 2) /\ Counts(Controls, 3)
    BY CountsTwo, CountsThree DEF Unrolled, Controls
  <2>2. 2 * 3 = 6
    OBVIOUS
  <2> QED  BY <2>1, <2>2, CountsProduct
<1>2. ASSUME NEW x \in S
      PROVE  /\ f[x] = point(x) /\ point(x) \in HandPoints
             /\ x = <<point(x).permutation, point(x).control>>
  <2>1. PICK q \in Unrolled, k \in Controls : x = <<q, k>>
    OBVIOUS
  <2>2. point(x) = [target |-> "fpga", algorithm |-> "aead128", top |-> "n_identical_aead_cores",
                    datapath |-> 128, permutation |-> q, control |-> k, security |-> "none"]
    BY <2>1
  <2> DEFINE p == point(x)
  <2> HIDE DEF p
  <2>3. /\ p.target = "fpga" /\ p.algorithm = "aead128" /\ p.top = "n_identical_aead_cores"
        /\ p.datapath = 128 /\ p.permutation = q /\ p.control = k /\ p.security = "none"
    BY <2>2 DEF p
  <2>4. p \in FpgaPoints
    BY <2>2 DEF p, FpgaPoints, Algorithms, Unrolled, Controls
  <2>5. IsValid(p)
    BY <2>3, <2>4, FpgaValid DEF FpgaChoices
  <2>6. Handwritten(p)
    BY <2>3 DEF Handwritten, Unrolled
  <2>7. p \in HandPoints /\ x = <<p.permutation, p.control>>
    BY <2>1, <2>3, <2>4, <2>5, <2>6 DEF HandPoints
  <2> QED  BY <2>7 DEF p
<1>3. ASSUME NEW p \in HandPoints PROVE \E x \in S : f[x] = p
  <2> DEFINE x == <<p.permutation, p.control>>
  <2>1. /\ p \in FpgaPoints /\ p.algorithm = "aead128" /\ p.datapath = 128 /\ p.security = "none"
        /\ p.permutation \in Unrolled
    BY DEF HandPoints, Handwritten, Unrolled
  <2>2. p.top = "n_identical_aead_cores" /\ p.control \in Controls
    <3>1. <<p.top, <<p.permutation, p.control>>>> \in FpgaChoices
      BY <2>1, FpgaValid DEF HandPoints
    <3> QED  BY <2>1, <3>1 DEF FpgaChoices, Unrolled
  <2>3. x \in S
    BY <2>1, <2>2
  <2>4. point(x) = p
    BY <2>1, <2>2 DEF FpgaPoints
  <2> QED  BY <2>3, <2>4
<1> HIDE DEF S, point
<1>4. Enumerates(f, S, HandPoints)
  <2>1. f \in [S -> HandPoints]
    BY <1>2
  <2>2. ASSUME NEW x \in S, NEW y \in S, f[x] = f[y] PROVE x = y
    BY <1>2, <2>2
  <2> QED  BY <1>3, <2>1, <2>2 DEF Enumerates
<1> HIDE DEF f
<1> QED  BY <1>1, <1>4, CountsImage

LEMMA EntriesAre ==
    /\ Entries = AsicOf(Algorithms, AsicSecurity) \cup FpgaOf(Algorithms, FpgaSecurity)
    /\ \A p \in AsicPoints : p.target = "asic" /\ p.algorithm \in Algorithms
                             /\ p.security \in AsicSecurity
    /\ \A p \in FpgaPoints : p.target = "fpga" /\ p.algorithm \in Algorithms
                             /\ p.security \in FpgaSecurity
<1>1. \A p \in AsicPoints : p.target = "asic" /\ p.algorithm \in Algorithms
                            /\ p.security \in AsicSecurity
  BY DEF AsicPoints, AsicSecurity
<1>2. \A p \in FpgaPoints : p.target = "fpga" /\ p.algorithm \in Algorithms
                            /\ p.security \in FpgaSecurity
  BY DEF FpgaPoints, FpgaSecurity
<1> QED  BY <1>1, <1>2 DEF Entries, AsicOf, FpgaOf

LEMMA TargetCounts ==
    /\ Counts({p \in Entries : p.target = "asic"}, 352)
    /\ Counts({p \in Entries : p.target = "fpga"}, 208)
    /\ Counts(Entries, 560)
<1> DEFINE X == AsicOf(Algorithms, AsicSecurity)
           Y == FpgaOf(Algorithms, FpgaSecurity)
<1>1. Counts(AsicSecurity, 2) /\ Counts(FpgaSecurity, 2)
  BY CountsTwo DEF AsicSecurity, FpgaSecurity
<1>2. Counts(X, 352)
  <2>1. 352 = (8 * 2) * 22
    OBVIOUS
  <2> QED  BY <1>1, <2>1, AlgorithmsCount, AsicOfCount
<1>3. Counts(Y, 208)
  <2>1. 208 = (8 * 2) * 13
    OBVIOUS
  <2> QED  BY <1>1, <2>1, AlgorithmsCount, FpgaOfCount
<1>4. /\ {p \in Entries : p.target = "asic"} = X /\ {p \in Entries : p.target = "fpga"} = Y
      /\ X \cap Y = {} /\ Entries = X \cup Y
  BY EntriesAre DEF AsicOf, FpgaOf
<1> HIDE DEF X, Y
<1>5. Counts(X \cup Y, 560)
  <2> DEFINE m == 352
             n == 208
             k == 560
  <2>1. k = m + n /\ m \in Nat /\ n \in Nat
    OBVIOUS
  <2> HIDE DEF m, n, k
  <2>2. Counts(X, m) /\ Counts(Y, n)
    BY <1>2, <1>3 DEF m, n
  <2>3. Counts(X \cup Y, k)
    BY <1>4, <2>1, <2>2, CountsUnion
  <2> QED  BY <2>3 DEF k
<1>6. Counts({p \in Entries : p.target = "asic"}, 352)
  BY <1>2, <1>4, Zenon
<1>7. Counts({p \in Entries : p.target = "fpga"}, 208)
  BY <1>3, <1>4, Zenon
<1>8. Counts(Entries, 560)
  BY <1>4, <1>5, Zenon
<1> QED  BY <1>6, <1>7, <1>8

LEMMA ClassifyIs ==
    ASSUME NEW p \in Entries
    PROVE  /\ Classify(p) = "generated" <=>
                 p.security = "none" /\ p.algorithm \in Backed /\ ~Handwritten(p)
           /\ Classify(p) # "generator_planned"
           /\ Classify(p) \in {"generated", "handwritten", "specified_only"}
<1>1. /\ p.algorithm \in Algorithms /\ p.datapath \in GeneratorDatapaths
      /\ p.permutation \in GeneratedPermutations
  BY DEF Entries, AsicPoints, FpgaPoints, GeneratorDatapaths, GeneratedPermutations
<1>2. p.algorithm \in KatBacked <=> p.algorithm \in Backed
  BY <1>1, AlgorithmsCount
<1> QED  BY <1>1, <1>2 DEF Classify

LEMMA StatusCounts ==
    /\ Counts({p \in Entries : Classify(p) = "generated"}, 134)
    /\ Counts({p \in Entries : Classify(p) = "generator_planned"}, 0)
    /\ \E h, s \in Nat :
          /\ Counts({p \in Entries : Classify(p) = "handwritten"}, h)
          /\ Counts({p \in Entries : Classify(p) = "specified_only"}, s)
          /\ h + s = 560 - 134
<1> DEFINE X == AsicOf(Backed, {"none"})
           Y == FpgaOf(Backed, {"none"})
           G == {p \in Entries : Classify(p) = "generated"}
           H == {p \in Entries : Classify(p) = "handwritten"}
           O == {p \in Entries : Classify(p) = "specified_only"}
<1>1. Counts(X, 88) /\ Counts(Y, 52)
  <2>1. /\ Counts({"none"}, 1) /\ {"none"} \in SUBSET AsicSecurity
        /\ {"none"} \in SUBSET FpgaSecurity /\ Backed \in SUBSET Algorithms
    BY CountsOne, AlgorithmsCount DEF AsicSecurity, FpgaSecurity
  <2>a. 88 = (4 * 1) * 22 /\ 52 = (4 * 1) * 13
    OBVIOUS
  <2>2. Counts(X, 88)
    BY <2>1, <2>a, AlgorithmsCount, AsicOfCount
  <2>3. Counts(Y, 52)
    BY <2>1, <2>a, AlgorithmsCount, FpgaOfCount
  <2> QED  BY <2>2, <2>3
<1>2. X \cap Y = {}
  BY EntriesAre DEF AsicOf, FpgaOf
<1>3. Counts(X \cup Y, 140)
  <2> HIDE DEF X, Y
  <2>1. Counts(X \cup Y, 88 + 52) /\ 88 + 52 = 140
    BY <1>1, <1>2, CountsUnion
  <2> QED  BY <2>1
<1>4. HandPoints \in SUBSET (X \cup Y)
  BY DEF HandPoints, Handwritten, FpgaOf, Backed
<1>5. Counts((X \cup Y) \ HandPoints, 134)
  <2> HIDE DEF X, Y
  <2>1. Counts((X \cup Y) \ HandPoints, 140 - 6) /\ 140 - 6 = 134
    BY <1>3, <1>4, HandPointsCount, CountsWithout
  <2> QED  BY <2>1
<1>6. G = (X \cup Y) \ HandPoints
  <2>1. ASSUME NEW p \in Entries
        PROVE  p \in X \cup Y <=> p.security = "none" /\ p.algorithm \in Backed
    BY DEF Entries, AsicOf, FpgaOf
  <2>2. ASSUME NEW p \in Entries
        PROVE  p \in HandPoints <=> Handwritten(p)
    <3>1. p \in AsicPoints => ~Handwritten(p)
      BY EntriesAre DEF Handwritten
    <3> QED  BY <3>1 DEF Entries, HandPoints
  <2>3. X \cup Y \subseteq Entries
    BY DEF Entries, AsicOf, FpgaOf
  <2> HIDE DEF X, Y
  <2> QED  BY <2>1, <2>2, <2>3, ClassifyIs
<1>7. {p \in Entries : Classify(p) = "generator_planned"} = {}
  BY ClassifyIs
<1>8. Counts({}, 0)
  BY FS_EmptySet DEF Counts
<1>9. PICK h, s \in Nat : Counts(H, h) /\ Counts(O, s)
  <2>1. IsFiniteSet(H) /\ IsFiniteSet(O)
    BY TargetCounts, FS_Subset DEF Counts
  <2> HIDE DEF H, O
  <2>2. Cardinality(H) \in Nat /\ Cardinality(O) \in Nat
    BY <2>1, FS_CardinalityType
  <2> QED  BY <2>1, <2>2 DEF Counts
<1>10. H \cap O = {} /\ H \cup O = Entries \ G /\ G \in SUBSET Entries
  BY ClassifyIs
<1> HIDE DEF X, Y
<1>11. Counts(G, 134)
  BY <1>5, <1>6
<1>12. h + s = 560 - 134
  <2> HIDE DEF G, H, O
  <2>1. Counts(H \cup O, h + s)
    BY <1>9, <1>10, CountsUnion
  <2>2. Counts(Entries \ G, 560 - 134)
    BY <1>10, <1>11, TargetCounts, CountsWithout
  <2> QED  BY <1>10, <2>1, <2>2 DEF Counts
<1> QED  BY <1>7, <1>8, <1>9, <1>11, <1>12

LEMMA SummaryAsDocumented ==
    /\ Summary.byTarget["asic"] = 352 /\ Summary.byTarget["fpga"] = 208
    /\ Summary.byStatus["generated"] = 134 /\ Summary.byStatus["generator_planned"] = 0
    /\ Summary.byStatus["handwritten"] + Summary.byStatus["specified_only"] = 560 - 134
<1>1. /\ Summary.byTarget["asic"] = Cardinality({p \in Entries : p.target = "asic"})
      /\ Summary.byTarget["fpga"] = Cardinality({p \in Entries : p.target = "fpga"})
  BY DEF Summary, Targets
<1>2. \A c \in Statuses : Summary.byStatus[c] = Cardinality({p \in Entries : Classify(p) = c})
  BY DEF Summary
<1>3. /\ "generated" \in Statuses /\ "generator_planned" \in Statuses
      /\ "handwritten" \in Statuses /\ "specified_only" \in Statuses
  BY DEF Statuses
<1>4. PICK h, s \in Nat :
          /\ Cardinality({p \in Entries : Classify(p) = "handwritten"}) = h
          /\ Cardinality({p \in Entries : Classify(p) = "specified_only"}) = s
          /\ h + s = 560 - 134
  <2>1. PICK h, s \in Nat :
            /\ Counts({p \in Entries : Classify(p) = "handwritten"}, h)
            /\ Counts({p \in Entries : Classify(p) = "specified_only"}, s)
            /\ h + s = 560 - 134
    BY StatusCounts
  <2> QED  BY <2>1 DEF Counts
<1>5. /\ Cardinality({p \in Entries : Classify(p) = "generated"}) = 134
      /\ Cardinality({p \in Entries : Classify(p) = "generator_planned"}) = 0
  BY StatusCounts DEF Counts
<1>6. /\ Cardinality({p \in Entries : p.target = "asic"}) = 352
      /\ Cardinality({p \in Entries : p.target = "fpga"}) = 208
  BY TargetCounts DEF Counts
<1> QED  BY <1>1, <1>2, <1>3, <1>4, <1>5, <1>6

-----------------------------------------------------------------------------
(* The commands together.                                                  *)

\* The catalogue is printed as a whole.
LedgerOK == ledger \subseteq {Summary}

LEMMA SummaryType ==
    Summary.byTarget \in [Targets -> Nat] /\ Summary.byStatus \in [Statuses -> Nat]
<1>1. IsFiniteSet(Entries)
  BY TargetCounts DEF Counts
<1>2. ASSUME NEW P \in SUBSET Entries PROVE Cardinality(P) \in Nat
  BY <1>1, FS_Subset, FS_CardinalityType
<1>3. \A t \in Targets : Cardinality({p \in Entries : p.target = t}) \in Nat
  BY <1>2
<1>4. \A s \in Statuses : Cardinality({p \in Entries : Classify(p) = s}) \in Nat
  BY <1>2
<1> QED  BY <1>3, <1>4 DEF Summary

LeftOK == left \in 0 .. MaxCommands

CommandInv ==
    IInv /\ FlowGood /\ BenchInv /\ PromptsOK /\ OneAtATime /\ LedgerOK /\ LeftOK

LEMMA BenchSame == BenchInv /\ UNCHANGED benchVars => BenchInv'
<1> SUFFICES ASSUME BenchInv, UNCHANGED benchVars PROVE BenchInv'  OBVIOUS
<1>1. /\ boot' = boot /\ wire' = wire /\ up' = up /\ faults' = faults /\ host' = host
      /\ said' = said
  BY DEF benchVars
<1> QED  BY <1>1 DEF BenchInv, PlacesOK, PortOK, RanOK, LogOK, Follows, Reported, BootOK,
                     BootRecords, HostRecords

LEMMA CommandInvInit == BringUpInit => CommandInv
<1> SUFFICES ASSUME BringUpInit PROVE CommandInv  OBVIOUS
<1>1. /\ boot = Processor("off") /\ wire = <<>> /\ up = FALSE /\ faults = MaxFaults
      /\ host = NoHost /\ said = <<>> /\ left = MaxCommands /\ flow = NoFlow /\ ledger = {}
  BY DEF BringUpInit, BenchInit, FlowInit, CatalogueInit
<1>2. PlacesOK
  <2>1. BootOK(boot)
    BY <1>1, ProcessorOK
  <2>2. host \in HostRecords
    BY <1>1, NoHostOK
  <2>3. wire \in Seq(Wires) /\ said \in Seq(Lines)
    BY <1>1
  <2>4. up \in BOOLEAN
    BY <1>1
  <2>5. faults \in 0 .. MaxFaults
    BY <1>1, BenchAssumption
  <2> QED  BY <2>1, <2>2, <2>3, <2>4, <2>5 DEF PlacesOK
<1>3. PortOK /\ RanOK /\ LogOK /\ Follows
  BY <1>1, NoHostOK DEF PortOK, RanOK, LogOK, Follows, Reported, After
<1>4. OneAtATime /\ PromptsOK
  BY <1>1, NoHostOK DEF OneAtATime, PromptsOK
<1>5. LedgerOK /\ LeftOK
  BY <1>1, CommandAssumption DEF LedgerOK, LeftOK
<1> QED  BY <1>2, <1>3, <1>4, <1>5, InitIInv, FlowGoodInit DEF CommandInv, BenchInv

\* The processor restarts only while no bench is beyond its nudge.
LEMMA FollowsSramStep ==
    ASSUME BenchInv, FollowsSram, host.phase = "idle" \/ sram' = sram
    PROVE  BenchInv'
<1>1. up' = up /\ faults' = faults /\ host' = host /\ said' = said
  BY DEF FollowsSram
<1>2. CASE sram' = sram
  <2>1. boot' = boot /\ wire' = wire
    BY <1>2 DEF FollowsSram
  <2> QED  BY <1>1, <2>1, BenchSame DEF benchVars
<1>3. CASE sram' # sram
  <2>1. Configured(sram' = SocImage)
    BY <1>3 DEF FollowsSram
  <2>2. (sram' = SocImage) \in BOOLEAN
    OBVIOUS
  <2> QED  BY <1>1, <1>3, <2>1, <2>2, ConfiguredStep
<1> QED  BY <1>2, <1>3

LEMMA FlowBusy == FlowGood /\ FlowStep => ~FlowIdle
<1> SUFFICES ASSUME FlowGood, FlowStep PROVE ~FlowIdle  OBVIOUS
<1>1. CASE FlowReturns
  BY <1>1 DEF FlowReturns, FlowExited, FlowIdle
<1>2. CASE flow.todo # <<>>
  BY <1>2 DEF FlowGood, FlowIdle
<1> QED  BY <1>1, <1>2 DEF FlowStep, DryStep, ToolWorks, ToolFails

LEMMA BenchNext == CommandInv /\ [BringUpNext]_bringUpVars => BenchInv'
<1> SUFFICES ASSUME CommandInv, [BringUpNext]_bringUpVars PROVE BenchInv'  OBVIOUS
<1>0. BenchInv /\ FlowGood /\ PromptsOK /\ OneAtATime
  BY DEF CommandInv
<1>1. CASE CatalogCommand \/ BoardCommand \/ EditCommand \/ UNCHANGED bringUpVars
  BY <1>0, <1>1, BenchSame DEF CatalogCommand, BoardCommand, EditCommand, bringUpVars
<1>2. CASE SocFlashCommand
  <2>1. /\ host.phase \in {"idle", "nudge"} /\ UNCHANGED <<up, faults, host, said>>
        /\ \/ UNCHANGED <<boot, wire>>
           \/ Configured(sram' = SocImage)
    BY <1>2 DEF SocFlashCommand
  <2>2. (sram' = SocImage) \in BOOLEAN
    OBVIOUS
  <2> QED  BY <1>0, <2>1, <2>2, BenchSame, ConfiguredStep DEF benchVars
<1>3. CASE PowerCycleCommand
  <2>1. /\ host.phase = "idle" /\ UNCHANGED <<up, faults, host, said>>
        /\ Configured(sram' = SocImage)
    BY <1>3 DEF PowerCycleCommand, Idle
  <2>2. (sram' = SocImage) \in BOOLEAN
    OBVIOUS
  <2> QED  BY <1>0, <2>1, <2>2, ConfiguredStep
<1>4. CASE BenchCommand
  BY <1>0, <1>4, OpensPortStep DEF BenchCommand
<1>5. CASE FlowRuns
  BY <1>0, <1>5, FlowBusy, FollowsSramStep DEF FlowRuns, OneAtATime
<1>6. CASE HostRuns
  BY <1>0, <1>6, ResetInputStep, UploadStep, SendChunkStep, ImageSentStep, ExecuteStep,
     HostReturnsStep, ReadLineStep, SilenceStep DEF HostRuns, HostMoves
<1>7. CASE TimeRuns
  BY <1>0, <1>7, DeadlineStep DEF TimeRuns
<1>8. CASE PortRuns
  BY <1>0, <1>8, NudgeStep, ReadStep, ReadRaisesStep, ReadLineRaisesStep, ReopenStep
  DEF PortRuns, HostMay
<1>9. CASE BoardRuns
  BY <1>0, <1>9, AutobootFailsStep, PrintsCaseStep, PrintsVerdictStep DEF BoardRuns, BoardSteps
<1> QED  BY <1>1, <1>2, <1>3, <1>4, <1>5, <1>6, <1>7, <1>8, <1>9 DEF BringUpNext

\* The board prints nothing of a program, and none runs afterwards.
LEMMA PromptsAnswer ==
    ASSUME NEW X, X \cap Lines = {}, NEW p \in Seq(X), wire \in Seq(Wires), wire' = Hears(p),
           boot'.st # "running", PromptsLast(boot, wire)
    PROVE  PromptsLast(boot', wire')
<1>1. CASE ~up
  BY <1>1 DEF Hears, PromptsLast
<1>2. CASE up
  <2>1. /\ wire' = wire \o p /\ Len(wire) \in Nat /\ Len(p) \in Nat
        /\ Len(wire') = Len(wire) + Len(p)
        /\ \A i \in 1 .. Len(wire) : wire'[i] = wire[i]
        /\ \A i \in 1 .. Len(p) : wire'[Len(wire) + i] = p[i] /\ p[i] \in X
    <3>1. /\ Len(wire \o p) = Len(wire) + Len(p)
          /\ \A i \in 1 .. Len(wire) : (wire \o p)[i] = wire[i]
          /\ \A i \in 1 .. Len(p) : (wire \o p)[Len(wire) + i] = p[i]
      OBVIOUS
    <3>2. Len(wire) \in Nat /\ Len(p) \in Nat /\ \A i \in 1 .. Len(p) : p[i] \in X
      OBVIOUS
    <3>3. wire' = wire \o p
      BY <1>2 DEF Hears
    <3> QED  BY <3>1, <3>2, <3>3
  <2>2. ASSUME NEW i \in 1 .. Len(wire'), wire'[i] \in Prompts, NEW j \in i .. Len(wire')
        PROVE  wire'[j] \notin Lines
    <3>1. CASE j <= Len(wire)
      <4>1. /\ i \in 1 .. Len(wire) /\ j \in i .. Len(wire) /\ j \in 1 .. Len(wire)
        BY <2>1, <3>1
      <4> QED  BY <2>1, <2>2, <4>1 DEF PromptsLast
    <3>2. CASE ~(j <= Len(wire))
      <4> DEFINE k == j - Len(wire)
      <4>1. k \in 1 .. Len(p) /\ j = Len(wire) + k
        BY <2>1, <3>2
      <4>2. wire'[j] \in X
        BY <2>1, <4>1
      <4> QED  BY <4>2
    <3> QED  BY <3>1, <3>2
  <2> QED  BY <2>2 DEF PromptsLast
<1> QED  BY <1>1, <1>2

LEMMA PlainNoLines ==
    Plain \cap Lines = {} /\ Verdicts \cap Lines = {} /\ Prompts \cap Lines = {}
BY DEF Plain, Lines, Measured, Verdicts, Prompts

LEMMA PromptsNudge ==
    ASSUME BenchInv, PromptsLast(boot, wire), Receives(Space)
    PROVE  PromptsLast(boot', wire')
<1>1. wire \in Seq(Wires) /\ boot \in BootRecords
  BY DEF BenchInv, PlacesOK, BootOK
<1>2. Space \notin 1 .. Chunks /\ Space # KeyU /\ Space # KeyE
  BY BenchAssumption DEF Space, KeyU, KeyE
<1>3. \/ UNCHANGED <<boot, wire>>
      \/ /\ boot'.st # "running"
         /\ \E p \in Seq(Plain) : wire' = Hears(p)
  <2>1. CASE boot.st = "countdown"
    <3>1. Answers([boot EXCEPT !.st = "prompt"], <<"CMD">>)
      BY <1>2, <2>1 DEF Receives
    <3> QED  BY <1>1, <3>1, PlainSeqs DEF Answers, BootRecords
  <2>2. CASE boot.st = "prompt"
    <3>1. Answers(boot, <<"CMD">>)
      BY <1>2, <2>2 DEF Receives, AtPrompt
    <3> QED  BY <2>2, <3>1, PlainSeqs DEF Answers
  <2>3. CASE boot.st = "loading"
    <3> DEFINE c == [boot EXCEPT !.bad = TRUE]
    <3>1. Answers(c, <<>>) \/ LoadEnds(c)
      BY <1>2, <2>3 DEF Receives, TakesStray
    <3>2. c \in BootRecords /\ c.st = "loading" /\ c.bad
      BY <1>1, <2>3 DEF BootRecords
    <3> HIDE DEF c
    <3>3. CASE Answers(c, <<>>)
      BY <3>2, <3>3, PlainSeqs DEF Answers
    <3>4. CASE LoadEnds(c)
      <4>1. Answers([c EXCEPT !.st = "halted"], <<"ERROR">>)
        BY <3>2, <3>4 DEF LoadEnds
      <4> QED  BY <3>2, <4>1, PlainSeqs DEF Answers, BootRecords
    <3> QED  BY <3>1, <3>3, <3>4
  <2>4. CASE boot.st \notin {"countdown", "prompt", "loading"}
    BY <2>4 DEF Receives
  <2> QED  BY <2>1, <2>2, <2>3, <2>4
<1> QED  BY <1>1, <1>3, PlainNoLines, PromptsAnswer

\* The FPGA is configured while the host waits for the prompt.
LEMMA PromptsConfigured ==
    ASSUME BenchInv, PromptsLast(boot, wire), NEW soc \in BOOLEAN, Configured(soc)
    PROVE  PromptsLast(boot', wire')
<1>1. wire \in Seq(Wires)
  BY DEF BenchInv, PlacesOK
<1>2. boot'.st # "running"
  BY DEF Configured, Processor
<1>3. CASE soc
  <2>1. wire' = Hears(<<"Bootloader">>)
    BY <1>3 DEF Configured
  <2> QED  BY <1>1, <1>2, <2>1, PlainSeqs, PlainNoLines, PromptsAnswer
<1>4. CASE ~soc
  <2>1. wire' = wire
    BY <1>4 DEF Configured
  <2> QED  BY <1>2, <2>1 DEF PromptsLast
<1> QED  BY <1>3, <1>4

LEMMA PromptsBoard ==
    ASSUME BenchInv, PromptsOK, BoardSteps
    PROVE  PromptsOK'
<1>1. wire \in Seq(Wires) /\ boot \in BootRecords /\ host' = host
  <2>1. wire \in Seq(Wires) /\ boot \in BootRecords
    BY DEF BenchInv, PlacesOK, BootOK
  <2>2. host' = host
    <3>1. AutobootFails => host' = host
      BY DEF AutobootFails
    <3>2. PrintsVerdict => host' = host
      BY DEF PrintsVerdict
    <3>3. PrintsCase => host' = host
      BY DEF PrintsCase
    <3> QED  BY <3>1, <3>2, <3>3 DEF BoardSteps
  <2> QED  BY <2>1, <2>2
<1>2. CASE AutobootFails
  <2>1. wire' = wire /\ boot'.st = "halted"
    BY <1>1, <1>2 DEF AutobootFails, BootRecords
  <2> QED  BY <1>1, <2>1 DEF PromptsOK, PromptsLast
<1>3. CASE PrintsVerdict
  <2> DEFINE line == IF boot.bad THEN "FAIL" ELSE "PASS"
  <2>1. boot.st = "running" /\ boot'.st = "done" /\ wire' = Hears(<<line>>)
    BY <1>1, <1>3 DEF PrintsVerdict, BootRecords
  <2>2. line \in Verdicts
    BY DEF Verdicts
  <2> HIDE DEF line
  <2>3. <<line>> \in Seq(Verdicts)
    BY <2>2
  <2>4. host.phase = "nudge" => PromptsLast(boot', wire')
    BY <1>1, <2>1, <2>3, PlainNoLines, PromptsAnswer DEF PromptsOK
  <2> QED  BY <1>1, <2>1, <2>4 DEF PromptsOK
<1>4. CASE PrintsCase
  <2>1. PICK line \in Lines : wire' = Hears(<<line>>)
    BY <1>4 DEF PrintsCase
  <2>2. boot.st = "running" /\ line \notin Prompts
    BY <1>4, <2>1, PlainNoLines DEF PrintsCase
  <2>3. ASSUME host.phase = "nudge", NEW i \in 1 .. Len(wire') PROVE wire'[i] \notin Prompts
    <3>1. \A k \in 1 .. Len(wire) : wire[k] \notin Prompts
      BY <2>2, <2>3 DEF PromptsOK, PromptsLast
    <3>2. CASE ~up
      BY <2>1, <2>3, <3>1, <3>2 DEF Hears
    <3>3. CASE up
      <4>1. /\ wire' = wire \o <<line>> /\ Len(wire) \in Nat /\ Len(wire') = Len(wire) + 1
            /\ \A k \in 1 .. Len(wire) : wire'[k] = wire[k]
            /\ wire'[Len(wire) + 1] = line
        BY <1>1, <2>1, <3>3 DEF Hears
      <4>2. i \in 1 .. Len(wire) \/ i = Len(wire) + 1
        BY <4>1
      <4> QED  BY <2>2, <3>1, <4>1, <4>2
    <3> QED  BY <3>2, <3>3
  <2> QED  BY <1>1, <2>2, <2>3 DEF PromptsOK, PromptsLast
<1> QED  BY <1>2, <1>3, <1>4 DEF BoardSteps

\* What is read up to the prompt takes the older lines with it.
LEMMA PromptsRead ==
    ASSUME BenchInv, PromptsOK, Read
    PROVE  PromptsOK'
<1>1. wire \in Seq(Wires) /\ host \in HostRecords /\ boot' = boot
  BY DEF BenchInv, PlacesOK, Read
<1>2. PICK n \in 1 .. Len(wire) :
          /\ host' = [Emit(host, SubSeq(wire, 1, n)) EXCEPT
                          !.phase = AfterRead(host, SubSeq(wire, 1, n))]
          /\ wire' = SubSeq(wire, n + 1, Len(wire))
  BY DEF Read
<1> DEFINE chunk == SubSeq(wire, 1, n)
<1>3. host'.phase = AfterRead(host, chunk)
  <2>1. chunk \in Seq(Wires)
    BY <1>1, CutWire
  <2> HIDE DEF chunk
  <2>2. Emit(host, chunk) \in HostRecords
    BY <1>1, <2>1, EmitHost
  <2> QED  BY <1>2, <2>2 DEF HostRecords, chunk
<1>4. /\ Len(chunk) = n /\ \A i \in 1 .. n : chunk[i] = wire[i]
      /\ Len(wire) \in Nat /\ wire' \in Seq(Wires) /\ Len(wire') = Len(wire) - n
      /\ \A i \in 1 .. (Len(wire) - n) : wire'[i] = wire[n + i]
  BY <1>1, <1>2, CutIndexes
<1> HIDE DEF chunk
<1>5. SUFFICES ASSUME host.phase = "nudge" PROVE PromptsOK'
  <2>1. host.phase # "nudge" => host'.phase \notin {"nudge", "reset"}
    BY <1>3 DEF AfterRead, Read, Reading
  <2> QED  BY <2>1 DEF PromptsOK
<1>6. PromptsLast(boot, wire)
  BY <1>5 DEF PromptsOK
<1>7. PromptsLast(boot', wire')
  <2> SUFFICES ASSUME NEW i \in 1 .. Len(wire'), wire'[i] \in Prompts
               PROVE  boot.st # "running" /\ \A j \in i .. Len(wire') : wire'[j] \notin Lines
    BY <1>1 DEF PromptsLast
  <2>1. n + i \in 1 .. Len(wire) /\ wire[n + i] \in Prompts
    BY <1>4
  <2>2. boot.st # "running" /\ \A j \in (n + i) .. Len(wire) : wire[j] \notin Lines
    BY <1>6, <2>1 DEF PromptsLast
  <2>3. ASSUME NEW j \in i .. Len(wire') PROVE wire'[j] \notin Lines
    <3>1. j \in 1 .. (Len(wire) - n) /\ n + j \in (n + i) .. Len(wire)
      BY <1>4
    <3> QED  BY <1>4, <2>2, <3>1
  <2> QED  BY <2>2, <2>3
<1>8. ASSUME host'.phase = "reset" PROVE boot.st # "running" /\ CaseLines(wire') = <<>>
  <2>1. PICK i \in 1 .. n : wire[i] \in Prompts
    BY <1>3, <1>4, <1>5, <1>8 DEF AfterRead, Has, Prompts
  <2>2. i \in 1 .. Len(wire)
    BY <1>4
  <2>3. boot.st # "running" /\ \A j \in i .. Len(wire) : wire[j] \notin Lines
    BY <1>6, <2>1, <2>2 DEF PromptsLast
  <2>4. \A j \in 1 .. Len(wire') : wire'[j] \in Wires \ Lines
    <3> SUFFICES ASSUME NEW j \in 1 .. Len(wire') PROVE wire'[j] \in Wires \ Lines  OBVIOUS
    <3>1. j \in 1 .. (Len(wire) - n) /\ n + j \in i .. Len(wire) /\ n + j \in 1 .. Len(wire)
      BY <1>4
    <3> QED  BY <1>1, <1>4, <2>3, <3>1
  <2>5. wire' \in Seq(Wires \ Lines)
    BY <1>4, <2>4
  <2> QED  BY <2>3, <2>5, NoCaseLines
<1> QED  BY <1>1, <1>7, <1>8 DEF PromptsOK

\* What the command does by itself leaves the prompt behind.
LEMMA HostLeaves ==
    ASSUME host \in HostRecords, wire \in Seq(Wires), HostMoves
    PROVE  host'.phase \notin {"nudge", "reset"}
<1>1. CASE ResetInput \/ ImageSent
  BY <1>1 DEF ResetInput, ImageSent, HostRecords
<1>2. CASE HostReturns
  BY <1>2 DEF HostReturns, NoHost
<1>3. CASE Upload
  <2> DEFINE h == [host EXCEPT !.phase = "send"]
  <2>1. Then(h) /\ h \in HostRecords /\ h.phase = "send"
    BY <1>3 DEF Upload, HostRecords, Phases
  <2> HIDE DEF h
  <2> QED  BY <2>1, ThenHost
<1>4. CASE SendChunk
  <2> DEFINE h == [host EXCEPT !.sent = @ + 1]
  <2>1. host.sent + 1 \in 0 .. Chunks
    BY <1>4, BenchAssumption DEF SendChunk, HostRecords
  <2>2. Then(h) /\ h \in HostRecords /\ h.phase = "send"
    BY <1>4, <2>1 DEF SendChunk, HostRecords
  <2> HIDE DEF h
  <2> QED  BY <2>2, ThenHost
<1>5. CASE Execute
  <2> DEFINE h == [host EXCEPT !.phase = "log"]
  <2>1. Then(h) /\ h \in HostRecords /\ h.phase = "log"
    BY <1>5 DEF Execute, HostRecords, Phases
  <2> HIDE DEF h
  <2> QED  BY <2>1, ThenHost
<1>6. CASE Silence
  BY <1>6 DEF Silence, Reports, Exits, HostRecords
<1>7. CASE ReadLine
  <2> DEFINE h == Emit(host, <<Head(wire)>>)
  <2>1. <<Head(wire)>> \in Seq(Wires)
    BY <1>7 DEF ReadLine
  <2>2. h \in HostRecords /\ h.phase = "listen"
    BY <1>7, <2>1, EmitHost DEF ReadLine
  <2>3. host' = Reports(h) \/ host' = h
    BY <1>7 DEF ReadLine
  <2> HIDE DEF h
  <2> QED  BY <2>2, <2>3 DEF Reports, Exits, HostRecords
<1> QED  BY <1>1, <1>2, <1>3, <1>4, <1>5, <1>6, <1>7 DEF HostMoves

LEMMA PromptsNext == CommandInv /\ [BringUpNext]_bringUpVars => PromptsOK'
<1> SUFFICES ASSUME CommandInv, [BringUpNext]_bringUpVars PROVE PromptsOK'  OBVIOUS
<1>0. /\ BenchInv /\ FlowGood /\ PromptsOK /\ OneAtATime
      /\ host \in HostRecords /\ wire \in Seq(Wires)
  BY DEF CommandInv, BenchInv, PlacesOK
<1>1. CASE UNCHANGED <<boot, wire, host>>
  BY <1>0, <1>1 DEF PromptsOK, PromptsLast
<1>2. CASE host'.phase \notin {"nudge", "reset"}
  BY <1>2 DEF PromptsOK
<1>3. CASE CatalogCommand \/ BoardCommand \/ EditCommand \/ UNCHANGED bringUpVars
  BY <1>1, <1>3 DEF CatalogCommand, BoardCommand, EditCommand, bringUpVars, benchVars
<1>4. CASE SocFlashCommand \/ PowerCycleCommand
  <2>1. /\ host' = host
        /\ host.phase \in {"idle", "nudge"}
        /\ UNCHANGED <<boot, wire>> \/ Configured(sram' = SocImage)
    BY <1>4 DEF SocFlashCommand, PowerCycleCommand, Idle
  <2>2. (sram' = SocImage) \in BOOLEAN
    OBVIOUS
  <2>3. host.phase = "nudge" => PromptsLast(boot', wire')
    BY <1>0, <2>1, <2>2, PromptsConfigured DEF PromptsOK, PromptsLast
  <2> QED  BY <2>1, <2>3 DEF PromptsOK
<1>5. CASE BenchCommand
  <2>1. wire' = <<>> /\ host'.phase # "reset"
    <3>1. wire' = wire /\ host.phase = "idle"
          /\ (host' = Exits(NoHost) \/ \E how \in {"nudge", "listen"} :
                                          host' = [NoHost EXCEPT !.phase = how])
      BY <1>5 DEF BenchCommand, OpensPort
    <3> QED  BY <1>0, <3>1 DEF BenchInv, PortOK, Exits, NoHost
  <2>2. PromptsLast(boot', wire')
    BY <2>1 DEF PromptsLast
  <2> QED  BY <2>1, <2>2 DEF PromptsOK
<1>6. CASE FlowRuns
  <2>1. host' = host /\ host.phase = "idle"
    BY <1>0, <1>6, FlowBusy DEF FlowRuns, FollowsSram, OneAtATime
  <2> QED  BY <1>2, <2>1
<1>7. CASE HostRuns
  BY <1>0, <1>2, <1>7, HostLeaves DEF HostRuns
<1>8. CASE TimeRuns
  <2>1. host'.phase \notin {"nudge", "reset"}
    BY <1>0, <1>8 DEF TimeRuns, Deadline, AfterDeadline, Exits, Reports, HostRecords
  <2> QED  BY <1>2, <2>1
<1>9. CASE PortRuns
  <2>1. CASE Nudge
    <3>1. Write(Space) /\ Then(host) /\ host.phase = "nudge"
      BY <2>1 DEF Nudge
    <3>2. Receives(Space) \/ UNCHANGED <<boot, wire>>
      BY <3>1 DEF Write
    <3>3. PromptsLast(boot', wire')
      BY <1>0, <3>1, <3>2, PromptsNudge DEF PromptsOK, PromptsLast
    <3>4. host'.phase = "nudge"
      BY <1>0, <3>1, ThenHost
    <3> QED  BY <3>3, <3>4 DEF PromptsOK
  <2>2. CASE Read
    BY <1>0, <2>2, PromptsRead
  <2>3. CASE ReadRaises
    <3>1. boot' = boot /\ wire' = wire /\ host'.phase = host.phase
      <4>1. ASSUME NEW line \in Lines, Then(Emit(host, <<line>>))
            PROVE  host'.phase = host.phase
        <5>1. <<line>> \in Seq(Wires)
          BY DEF Wires
        <5>2. Emit(host, <<line>>) \in HostRecords /\ Emit(host, <<line>>).phase = host.phase
          BY <1>0, <5>1, EmitHost
        <5> QED  BY <4>1, <5>2, ThenHost
      <4> QED  BY <1>0, <2>3, <4>1, ThenHost DEF ReadRaises
    <3> QED  BY <1>0, <3>1 DEF PromptsOK, PromptsLast
  <2>4. CASE ReadLineRaises
    <3>1. host'.phase = "exited"
      BY <1>0, <2>4 DEF ReadLineRaises, Exits, HostRecords
    <3> QED  BY <1>2, <3>1
  <2>5. CASE Reopen
    <3>1. boot' = boot /\ wire' = <<>> /\ host' = host
      BY <2>5 DEF Reopen
    <3>2. CaseLines(wire') = <<>> /\ PromptsLast(boot', wire')
      BY <3>1, OnlyOfEmpty DEF CaseLines, PromptsLast
    <3> QED  BY <1>0, <3>1, <3>2 DEF PromptsOK
  <2> QED  BY <1>9, <2>1, <2>2, <2>3, <2>4, <2>5 DEF PortRuns, HostMay
<1>10. CASE BoardRuns
  BY <1>0, <1>10, PromptsBoard DEF BoardRuns
<1> QED  BY <1>3, <1>4, <1>5, <1>6, <1>7, <1>8, <1>9, <1>10 DEF BringUpNext

LEMMA OneAtATimeNext == CommandInv /\ [BringUpNext]_bringUpVars => OneAtATime'
<1> SUFFICES ASSUME CommandInv, [BringUpNext]_bringUpVars PROVE OneAtATime'  OBVIOUS
<1>0. BenchInv /\ FlowGood /\ OneAtATime
  BY DEF CommandInv
<1>1. CASE CatalogCommand \/ EditCommand \/ SocFlashCommand \/ PowerCycleCommand
           \/ UNCHANGED bringUpVars
  <2>1. host' = host /\ flow' = flow
    BY <1>1 DEF CatalogCommand, EditCommand, Edit, SocFlashCommand, SocFlash, PowerCycleCommand,
                PowerCycle, bringUpVars, flowVars, benchVars
  <2> QED  BY <1>0, <2>1 DEF OneAtATime, FlowIdle
<1>2. CASE BoardCommand
  <2>1. host.phase = "idle" /\ host' = host
    BY <1>2 DEF BoardCommand, Idle, benchVars
  <2> QED  BY <2>1 DEF OneAtATime
<1>3. CASE BenchCommand
  <2>1. FlowIdle /\ flow' = flow
    BY <1>3 DEF BenchCommand, Idle, flowVars
  <2> QED  BY <2>1 DEF OneAtATime, FlowIdle
<1>4. CASE FlowRuns
  <2>1. host' = host /\ host.phase = "idle"
    BY <1>0, <1>4, FlowBusy DEF FlowRuns, FollowsSram, OneAtATime
  <2> QED  BY <2>1 DEF OneAtATime
<1>5. CASE BoardRuns
  <2>1. host' = host /\ flow' = flow
    BY <1>5 DEF BoardRuns, BoardSteps, AutobootFails, PrintsCase, PrintsVerdict, flowVars
  <2> QED  BY <1>0, <2>1 DEF OneAtATime, FlowIdle
<1>6. CASE HostRuns \/ TimeRuns \/ PortRuns
  <2>1. flow' = flow
    BY <1>6 DEF HostRuns, TimeRuns, PortRuns, flowVars
  <2>2. host.phase # "idle"
    BY <1>6 DEF HostRuns, TimeRuns, PortRuns, HostMoves, HostMay, ResetInput, Upload, SendChunk,
                ImageSent, Execute, HostReturns, ReadLine, Silence, Deadline, Nudge, Read,
                Reading, ReadRaises, ReadLineRaises, Reopen
  <2> QED  BY <1>0, <2>1, <2>2 DEF OneAtATime, FlowIdle
<1> QED  BY <1>1, <1>2, <1>3, <1>4, <1>5, <1>6 DEF BringUpNext

LEMMA CommandInvNext == CommandInv /\ [BringUpNext]_bringUpVars => CommandInv'
<1> SUFFICES ASSUME CommandInv, [BringUpNext]_bringUpVars PROVE CommandInv'  OBVIOUS
<1>1. IInv' /\ FlowGood'
  BY NextIInv, FlowGoodNext DEF CommandInv
<1>2. BenchInv' /\ PromptsOK' /\ OneAtATime'
  BY BenchNext, PromptsNext, OneAtATimeNext
<1>3. LedgerOK'
  <2>1. CASE CatalogCommand
    <3>1. ledger' = {Summary}
      BY <2>1 DEF CatalogCommand, PrintCatalogue
    <3> QED  BY <3>1 DEF LedgerOK
  <2>2. CASE ~CatalogCommand
    <3>1. ledger' = ledger
      BY <2>2 DEF BringUpNext, BoardCommand, EditCommand, SocFlashCommand, PowerCycleCommand,
                  BenchCommand, FlowRuns, HostRuns, TimeRuns, PortRuns, BoardRuns, bringUpVars
    <3> QED  BY <3>1 DEF CommandInv, LedgerOK
  <2> QED  BY <2>1, <2>2
<1>4. LeftOK'
  <2>1. left' = left \/ Given
    BY DEF BringUpNext, CatalogCommand, BoardCommand, EditCommand, SocFlashCommand,
           PowerCycleCommand, BenchCommand, FlowRuns, HostRuns, TimeRuns, PortRuns, BoardRuns,
           bringUpVars
  <2> QED  BY <2>1, CommandAssumption DEF CommandInv, LeftOK, Given
<1> QED  BY <1>1, <1>2, <1>3, <1>4 DEF CommandInv

LEMMA InvHolds == BringUpSpec => []CommandInv
BY CommandInvInit, CommandInvNext, PTL DEF BringUpSpec

-----------------------------------------------------------------------------
(* What a headline rests on.                                               *)

LEMMA HeardIsLog ==
    ASSUME BenchInv, Reported, host.clean, ~host.early
    PROVE  Heard = host.log
<1> DEFINE a == host.log
           b == CaseLines(wire)
<1>1. a \in Seq(Lines) /\ b \in Seq(Lines)
  BY HostFields, CaseLinesType DEF BenchInv, PlacesOK
<1>2. said = a \o b
  BY DEF BenchInv, Follows
<1> HIDE DEF a, b
<1>3. /\ a \o b \in Seq(Lines) /\ Len(a \o b) = Len(a) + Len(b) /\ Len(a) \in Nat /\ Len(b) \in Nat
      /\ \A i \in 1 .. Len(a) : (a \o b)[i] = a[i]
  BY <1>1
<1>4. Len(a \o b) - Len(b) = Len(a)
  BY <1>3
<1> DEFINE c == SubSeq(a \o b, 1, Len(a))
<1>5. c \in Seq(Lines) /\ Len(c) = Len(a) /\ \A i \in 1 .. Len(a) : c[i] = a[i]
  <2> DEFINE s == a \o b
  <2>1. /\ s \in Seq(Lines) /\ Len(s) = Len(a) + Len(b) /\ \A i \in 1 .. Len(a) : s[i] = a[i]
    BY <1>3
  <2> HIDE DEF s
  <2>2. SubSeq(s, 1, Len(a)) \in Seq(Lines) /\ Len(SubSeq(s, 1, Len(a))) = Len(a)
    BY <1>3, <2>1
  <2>3. \A i \in 1 .. Len(a) : SubSeq(s, 1, Len(a))[i] = s[i]
    BY <1>3, <2>1
  <2> QED  BY <2>1, <2>2, <2>3 DEF s
<1> HIDE DEF c
<1>6. c = a
  BY <1>1, <1>5, SeqEqual
<1>7. Heard = SubSeq(said, 1, Len(said) - Len(b))
  BY DEF Heard, b
<1> QED  BY <1>2, <1>4, <1>6, <1>7 DEF c, a

LEMMA PassedHas ==
    ASSUME NEW log \in Seq(Lines), Headline(log) = "PASS"
    PROVE  Range(log) \cap Measured = {"right"} /\ log # <<>>
<1> DEFINE m == ParseLog(log)
<1>1. Passed(m)
  BY DEF Headline
<1>2. m \in Seq(Lines \cap Measured) /\ Range(m) = Range(log) \cap Measured
  BY OnlyIsSeq, OnlyHas DEF ParseLog
<1>3. log = <<>> => m = <<>>
  BY OnlyOfEmpty DEF ParseLog
<1> HIDE DEF m
<1>4. m # <<>> /\ \A i \in 1 .. Len(m) : m[i] = "right"
  BY <1>1 DEF Passed
<1>5. Len(m) \in Nat /\ DOMAIN m = 1 .. Len(m) /\ Len(m) # 0
  BY <1>2, <1>4
<1>6. 1 \in 1 .. Len(m)
  BY <1>5
<1>7. Range(m) = {"right"}
  BY <1>4, <1>5, <1>6 DEF Range
<1> QED  BY <1>2, <1>3, <1>4, <1>7

LEMMA InvEarned == CommandInv => HeadlineEarned
<1> SUFFICES ASSUME CommandInv, host.headline = "PASS", ~host.early
             PROVE  boot.ran > 0 /\ (host.clean => Range(Heard) \cap Measured = {"right"})
  BY DEF HeadlineEarned
<1>0. BenchInv /\ host.log \in Seq(Lines)
  BY HostFields DEF CommandInv, BenchInv, PlacesOK
<1>1. Reported /\ Headline(host.log) = "PASS"
  BY <1>0 DEF BenchInv, LogOK, Reported
<1>2. Range(host.log) \cap Measured = {"right"} /\ host.log # <<>>
  BY <1>0, <1>1, PassedHas
<1>3. boot.ran > 0
  BY <1>0, <1>1, <1>2 DEF BenchInv, RanOK, Reported
<1> QED  BY <1>0, <1>1, <1>2, <1>3, HeardIsLog

LEMMA InvTypes == CommandInv => TypeOK
<1> SUFFICES ASSUME CommandInv PROVE TypeOK  OBVIOUS
<1>1. FlowTypeOK
  BY DEF CommandInv, FlowTypeOK, FlowGood, IInv, FlowShape
<1>2. BenchTypeOK
  <2>1. /\ boot \in BootRecords /\ host \in HostRecords /\ wire \in Seq(Wires)
        /\ said \in Seq(Lines) /\ up \in BOOLEAN /\ faults \in 0 .. MaxFaults
    BY DEF CommandInv, BenchInv, PlacesOK, BootOK
  <2>2. /\ boot.st \in BootStates /\ boot.got \in 0 .. Chunks /\ boot.ran \in 0 .. Cases + 1
    BY <2>1 DEF BootRecords
  <2>3. /\ host.phase \in Phases /\ host.sent \in 0 .. Chunks /\ host.log \in Seq(Lines)
        /\ host.headline \in {"none"} \cup Verdicts
    BY <2>1, HostFields
  <2>4. \A s, S : s \in Seq(S) => Range(s) \subseteq S
    BY DEF Range
  <2> QED  BY <2>1, <2>2, <2>3, <2>4 DEF BenchTypeOK, BootStates
<1>3. /\ \A l \in ledger : l.byTarget \in [Targets -> Nat] /\ l.byStatus \in [Statuses -> Nat]
      /\ left \in 0 .. MaxCommands
  BY SummaryType DEF CommandInv, LedgerOK, LeftOK
<1> QED  BY <1>1, <1>2, <1>3 DEF TypeOK

(* The variables of the three parts keep their types, the ledger's counts  *)
(* among them, for every number of edits, commands, chunks, cases and      *)
(* faults.                                                                 *)
THEOREM BringUpTypeCorrect == BringUpSpec => []TypeOK
BY InvHolds, InvTypes, PTL

(* A headline that says PASS was earned on the board, whatever was lost on *)
(* the way to it, for every image, benchmark and number of faults          *)
(* (neorv32_upload.py, ascon_bench.py): the log is what the board printed  *)
(* as long as no operation on the port raised, and a case that is right    *)
(* and faster is in it.                                                    *)
THEOREM HeadlinesEarned == BringUpSpec => []HeadlineEarned
BY InvHolds, InvEarned, PTL

(* The ledger a `make catalog` prints is the ledger of the documents that  *)
(* know of the bit-serial permutation: 352 points for ASICs, 208 for FPGAs,*)
(* 134 of them generated and none planned (docs/ARCHITECTURE.md:88-89,     *)
(* README.md:69-70).                                                       *)
THEOREM LedgerAsDocumented == BringUpSpec => []CatalogueAsDocumented
<1>1. CommandInv => CatalogueAsDocumented
  BY SummaryAsDocumented DEF CommandInv, LedgerOK, CatalogueAsDocumented
<1> QED  BY <1>1, InvHolds, PTL
=============================================================================
