------------------------------ MODULE AeadCore ------------------------------
(***************************************************************************)
(* ascon_aead128_core: the hardwired AEAD state machine, with the          *)
(* iterative permutation ascon_perm_iter_r<R> it drives                    *)
(* (rtl/generated/accel/ascon_aead128_core.v, ascon_perm_iter_r1.v).       *)
(*                                                                         *)
(* One step is one rising clock edge: every register takes the value       *)
(* computed from the registers before the edge, in both state machines at  *)
(* once.  The 320-bit state is a transcript (AeadGolden).                  *)
(***************************************************************************)
EXTENDS AeadGolden, Integers

CONSTANTS
    R,          \* rounds per clock cycle of the permutation core
    Requests,   \* the requests the environment may present with start_i
    MaxBlocks,  \* message blocks out_r has room for
    None        \* the contract's "no request" and "no result"

\* A request: the lengths, the direction and the tag presented on tag_i.  Key,
\* nonce and payload are read combinationally while the core works; whoever
\* drives the core keeps them stable (AxisEngine!InputsHeldWhileBusy).
ASSUME CoreAssumption ==
    /\ R \in 1..12
    /\ MaxBlocks \in Nat
    /\ None \notin Requests
    /\ \A r \in Requests :
          /\ r = [adlen |-> r.adlen, msglen |-> r.msglen, dec |-> r.dec, tag |-> r.tag]
          /\ r.adlen \in Nat /\ r.msglen \in Nat /\ r.dec \in BOOLEAN
          /\ NumBlocks(r.msglen) <= MaxBlocks

VARIABLES
    st, permRet, permRounds, permStart,      \* the AEAD machine
    s, adoff, msgoff, req, out, tag, valid, done,
    running, idx, ps, pvalid, pout           \* the permutation core

coreVars == <<st, permRet, permRounds, permStart, s, adoff, msgoff, req, out, tag, valid, done>>
permVars == <<running, idx, ps, pvalid, pout>>
vars     == <<coreVars, permVars>>

States == {"IDLE", "PERM", "INIT_KEY", "AD_DECIDE", "AD_FULL", "AD_PAD", "DOMSEP",
           "MSG_DECIDE", "MSG_FULL", "MSG_PAD", "FIN_KEY", "FIN_TAG"}

-----------------------------------------------------------------------------
(* The permutation core.                                                   *)

DONE == 16      \* one past the last round-constant index

\* start_index: 0 is p6, 1 is p8, 2 is p12.
StartIndex(code) == CASE code = 0 -> 10 [] code = 1 -> 8 [] code = 2 -> 4 [] OTHER -> DONE

\* Mutant: the rounds of the last cycle are not guarded.
M_RRounds(p, i) == [p EXCEPT !.rounds = @ \o [k \in 1..R |-> i + (k - 1)]]

\* r_rounds: R rounds in one cycle, each guarded by idx + k < DONE.
RRounds(p, i) ==
    LET n == IF i + R <= DONE THEN R ELSE DONE - i
    IN  [p EXCEPT !.rounds = @ \o [k \in 1..n |-> i + (k - 1)]]

PermInit ==
    /\ running = FALSE /\ pvalid = FALSE /\ idx = DONE
    /\ ps = [base |-> <<>>, rounds |-> <<>>]
    /\ pout = [base |-> <<>>, rounds |-> <<>>]

PermStarts ==
    /\ permStart
    /\ ps' = [base |-> s, rounds |-> <<>>]
    /\ idx' = StartIndex(permRounds)
    /\ running' = TRUE
    /\ pvalid' = FALSE
    /\ UNCHANGED pout

PermRuns ==
    /\ ~permStart /\ running
    /\ ps' = RRounds(ps, idx)
    /\ idx + R < DONE
    /\ idx' = idx + R
    /\ pvalid' = FALSE
    /\ UNCHANGED <<running, pout>>

\* Mutant: the result is captured from the register, before the last rounds.
M_PermEnds ==
    /\ ~permStart /\ running
    /\ ps' = RRounds(ps, idx)
    /\ idx + R >= DONE
    /\ pout' = ps
    /\ pvalid' = TRUE
    /\ running' = FALSE
    /\ UNCHANGED idx

PermEnds ==
    /\ ~permStart /\ running
    /\ ps' = RRounds(ps, idx)
    /\ idx + R >= DONE
    /\ pout' = RRounds(ps, idx)
    /\ pvalid' = TRUE
    /\ running' = FALSE
    /\ UNCHANGED idx

PermRests ==
    /\ ~permStart /\ ~running
    /\ pvalid' = FALSE
    /\ UNCHANGED <<running, idx, ps, pout>>

PermEdge == PermStarts \/ PermRuns \/ PermEnds \/ PermRests

-----------------------------------------------------------------------------
(* The AEAD machine: one action per state.                                 *)

CoreInit ==
    /\ st = "IDLE" /\ permRet = "IDLE" /\ permRounds = 0 /\ permStart = FALSE
    /\ s = <<>> /\ adoff = 0 /\ msgoff = 0
    /\ req = None
    /\ out = [k \in 1..MaxBlocks |-> <<>>]
    /\ tag = <<>> /\ valid = FALSE /\ done = FALSE

\* Leave for S_PERM and come back in state `ret' with the state permuted.
Permute(code, ret) ==
    /\ st' = "PERM"
    /\ permStart' = TRUE
    /\ permRounds' = code
    /\ permRet' = ret

\* Go to state `next' in this cycle, no permutation requested.
Goto(next) ==
    /\ st' = next
    /\ permStart' = FALSE
    /\ UNCHANGED <<permRounds, permRet>>

\* Mutant: done_o is left up until the next result.
M_IdleStart(r) ==
    /\ st = "IDLE"
    /\ req' = r
    /\ s' = <<Load>>
    /\ adoff' = 0 /\ msgoff' = 0
    /\ out' = [k \in 1..MaxBlocks |-> <<>>]
    /\ Permute(2, "INIT_KEY")
    /\ UNCHANGED <<tag, valid, done>>

\* start_i is looked at only here; done_o is dropped here and nowhere else.
IdleStart(r) ==
    /\ st = "IDLE"
    /\ req' = r
    /\ s' = <<Load>>
    /\ adoff' = 0 /\ msgoff' = 0
    /\ out' = [k \in 1..MaxBlocks |-> <<>>]
    /\ done' = FALSE
    /\ Permute(2, "INIT_KEY")
    /\ UNCHANGED <<tag, valid>>

IdleWait ==
    /\ st = "IDLE"
    /\ Goto("IDLE")
    /\ UNCHANGED <<s, adoff, msgoff, req, out, tag, valid, done>>

\* Mutant: the start pulse is held until the permutation answers.
M_PermWait ==
    /\ st = "PERM" /\ ~pvalid
    /\ UNCHANGED <<st, permStart, permRounds, permRet>>
    /\ UNCHANGED <<s, adoff, msgoff, req, out, tag, valid, done>>

PermWait ==
    /\ st = "PERM" /\ ~pvalid
    /\ Goto("PERM")
    /\ UNCHANGED <<s, adoff, msgoff, req, out, tag, valid, done>>

PermTake ==
    /\ st = "PERM" /\ pvalid
    /\ s' = Append(pout.base, Perm(pout.rounds))
    /\ Goto(permRet)
    /\ UNCHANGED <<adoff, msgoff, req, out, tag, valid, done>>

InitKey ==
    /\ st = "INIT_KEY"
    /\ s' = Append(s, Key(24))
    /\ Goto("AD_DECIDE")
    /\ UNCHANGED <<adoff, msgoff, req, out, tag, valid, done>>

AdRem  == req.adlen - adoff
MsgRem == req.msglen - msgoff

\* Mutant: a segment of exactly one block is taken for the final block.
M_AdDecide_Strict ==
    /\ st = "AD_DECIDE"
    /\ Goto(CASE req.adlen = 0 -> "DOMSEP"
              [] req.adlen # 0 /\ AdRem > Rate -> "AD_FULL"
              [] OTHER -> "AD_PAD")
    /\ UNCHANGED <<s, adoff, msgoff, req, out, tag, valid, done>>

\* Mutant: without associated data the domain separation is skipped too.
M_AdDecide_NoDomSep ==
    /\ st = "AD_DECIDE"
    /\ Goto(CASE req.adlen = 0 -> "MSG_DECIDE"
              [] req.adlen # 0 /\ AdRem >= Rate -> "AD_FULL"
              [] OTHER -> "AD_PAD")
    /\ UNCHANGED <<s, adoff, msgoff, req, out, tag, valid, done>>

AdDecide ==
    /\ st = "AD_DECIDE"
    /\ Goto(CASE req.adlen = 0 -> "DOMSEP"
              [] req.adlen # 0 /\ AdRem >= Rate -> "AD_FULL"
              [] OTHER -> "AD_PAD")
    /\ UNCHANGED <<s, adoff, msgoff, req, out, tag, valid, done>>

AdFull ==
    /\ st = "AD_FULL"
    /\ s' = Append(s, Absorb(adoff, Rate))
    /\ adoff' = adoff + Rate
    /\ Permute(1, "AD_DECIDE")
    /\ UNCHANGED <<msgoff, req, out, tag, valid, done>>

AdPad ==
    /\ st = "AD_PAD"
    /\ s' = Append(s, Absorb(adoff, AdRem))
    /\ Permute(1, "DOMSEP")
    /\ UNCHANGED <<adoff, msgoff, req, out, tag, valid, done>>

DomSep ==
    /\ st = "DOMSEP"
    /\ s' = Append(s, DomainSep)
    /\ Goto("MSG_DECIDE")
    /\ UNCHANGED <<adoff, msgoff, req, out, tag, valid, done>>

MsgDecide ==
    /\ st = "MSG_DECIDE"
    /\ Goto(IF req.msglen # 0 /\ MsgRem >= Rate THEN "MSG_FULL" ELSE "MSG_PAD")
    /\ UNCHANGED <<s, adoff, msgoff, req, out, tag, valid, done>>

\* out_r[8*msgoff +: 128] takes the rate (before this block) xor the block.
OutBlock == (msgoff \div Rate) + 1

MsgFull ==
    /\ st = "MSG_FULL"
    /\ out' = [out EXCEPT ![OutBlock] = s]
    /\ s' = Append(s, Crypt(msgoff, Rate, MsgHow(req.dec)))
    /\ msgoff' = msgoff + Rate
    /\ Permute(1, "MSG_DECIDE")
    /\ UNCHANGED <<adoff, req, tag, valid, done>>

MsgPad ==
    /\ st = "MSG_PAD"
    /\ out' = [out EXCEPT ![OutBlock] = s]
    /\ s' = Append(s, Crypt(msgoff, MsgRem, MsgHow(req.dec)))
    /\ Goto("FIN_KEY")
    /\ UNCHANGED <<adoff, msgoff, req, tag, valid, done>>

FinKey ==
    /\ st = "FIN_KEY"
    /\ s' = Append(s, Key(16))
    /\ Permute(2, "FIN_TAG")
    /\ UNCHANGED <<adoff, msgoff, req, out, tag, valid, done>>

FinTag ==
    /\ st = "FIN_TAG"
    /\ tag' = s
    /\ valid' = (req.dec => s = req.tag)
    /\ done' = TRUE
    /\ Goto("IDLE")
    /\ UNCHANGED <<s, adoff, msgoff, req, out>>

-----------------------------------------------------------------------------
Init == CoreInit /\ PermInit

\* What the machine does in a cycle without a new start.
Work == \/ PermWait \/ PermTake \/ InitKey
        \/ AdDecide \/ AdFull \/ AdPad \/ DomSep
        \/ MsgDecide \/ MsgFull \/ MsgPad \/ FinKey \/ FinTag

Start(r) == IdleStart(r) /\ PermEdge
Rest     == IdleWait /\ PermEdge
Busy     == Work /\ PermEdge

Next == (\E r \in Requests : Start(r)) \/ Rest \/ Busy

\* The clock never stops, so a busy core takes its next step.
Spec == Init /\ [][Next]_vars /\ WF_vars(Busy)

-----------------------------------------------------------------------------
(* Properties.                                                             *)

Operation == {Load, DomainSep}
                \cup ({"key"} \X {16, 24})
                \cup ({"ad"} \X Nat \X (0..Rate))
                \cup ({"msg"} \X Nat \X (0..Rate) \X {"xor", "replace"})
                \cup ({"perm"} \X Seq(0..15))
Transcript == Seq(Operation)

PermState == [base : Transcript, rounds : Seq(0..15)]

\* Type invariant of both machines.
TypeOK ==
    /\ st \in States /\ permRet \in States
    /\ permRounds \in 0..2 /\ permStart \in BOOLEAN
    /\ s \in Transcript /\ tag \in Transcript
    /\ adoff \in Nat /\ msgoff \in Nat
    /\ req \in Requests \cup {None}
    /\ st # "IDLE" => req # None
    /\ out \in [1..MaxBlocks -> Transcript]
    /\ valid \in BOOLEAN /\ done \in BOOLEAN
    /\ running \in BOOLEAN /\ pvalid \in BOOLEAN /\ idx \in 0..DONE
    /\ ps \in PermState /\ pout \in PermState

\* The permutation handshake: in S_PERM exactly one of "start pending",
\* "running" and "result valid" holds, in every other state none does.  If
\* none held in S_PERM the core would wait for ever; a start while running
\* would restart the rounds; a result valid outside S_PERM would be lost.
PermHandshake ==
    /\ st = "PERM" => (permStart \/ running \/ pvalid)
    /\ st # "PERM" => ~permStart /\ ~running /\ ~pvalid
    /\ ~(permStart /\ running) /\ ~(permStart /\ pvalid) /\ ~(running /\ pvalid)

\* The permutation that S_PERM returns from is exactly the one the AEAD asks
\* for at that point: p12 on the way into INIT_KEY and FIN_TAG, p8 on the way
\* back to the block loops, with no round skipped or repeated for any R.
PermIsWhole ==
    (st = "PERM" /\ pvalid) =>
        /\ pout.base = s
        /\ pout.rounds = RoundIndexes(IF permRet \in {"INIT_KEY", "FIN_TAG"} THEN 12 ELSE 8)

\* The block offsets never pass the lengths of the request, and the offset of
\* a block that is about to be processed leaves the right amount of payload.
BlocksInBounds ==
    st # "IDLE" =>
        /\ adoff <= req.adlen /\ msgoff <= req.msglen
        /\ st = "AD_FULL"  => AdRem >= Rate
        /\ st = "AD_PAD"   => AdRem < Rate
        /\ st = "MSG_FULL" => MsgRem >= Rate
        /\ st = "MSG_PAD"  => MsgRem < Rate

\* A finished request holds the golden model's result: the tag, every output
\* block, and on decryption the verdict of the tag comparison.
ResultIsGolden ==
    done =>
        /\ tag = GoldenTag(req)
        /\ \A k \in 1..NumBlocks(req.msglen) : out[k] = GoldenOut(req)[k]
        /\ valid = (req.dec => req.tag = GoldenTag(req))

\* The refinement: busy_o, the request in work and the held result.
GoldenResult(r) ==
    [tag |-> GoldenTag(r), out |-> GoldenOut(r), valid |-> (r.dec => r.tag = GoldenTag(r))]

HeldResult ==
    IF done
    THEN [tag |-> tag, out |-> SubSeq(out, 1, NumBlocks(req.msglen)), valid |-> valid]
    ELSE None

Contract == INSTANCE CoreContract WITH
    Eval   <- GoldenResult,
    busy   <- (st # "IDLE"),
    req    <- (IF st # "IDLE" THEN req ELSE None),
    result <- HeldResult

\* The core implements its contract, fairness included: an accepted request
\* always ends, with the golden result of that request, which stays put until
\* the next one is accepted.
ImplementsContract == Contract!Spec
=============================================================================
