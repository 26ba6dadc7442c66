------------------------------ MODULE HashCore ------------------------------
(***************************************************************************)
(* The generated hash cores (generator/hash256.py): Hash256, XOF128, the   *)
(* legacy Hasha and Xofa with their shorter data permutation, and CXOF128, *)
(* which absorbs a length word and a customization string first.  With     *)
(* them, the golden hash (ascon_hwmodel/hash_xof.py) and the testbench.    *)
(*                                                                         *)
(* The permutation below the core is any that keeps PermContract, so its   *)
(* latency is free.  The sponge state is a transcript, as in AeadGolden;   *)
(* Rate is the block length, in the source always eight bytes.  One step   *)
(* is one clock edge.                                                      *)
(***************************************************************************)
EXTENDS AeadGolden

CONSTANTS
    HashVariants,    \* [kind : "hash" or "cxof", b : data rounds, words : output words]
    HashMax,         \* longest message and customization
    HashTrials,      \* vectors of the testbench
    NoPerm           \* the contract's "no request" and "no answer"

\* What a transcript is made of: the IV, length words, blocks, permutations.
HashOperation ==
    {<<"iv">>} \cup ({"bits"} \X Nat) \cup ({"cust", "msg"} \X Nat \X Nat)
              \cup ({"perm"} \X Seq(0..15))
HashState == Seq(HashOperation)

ASSUME HashAssumption ==
    /\ HashVariants \subseteq [kind : {"hash", "cxof"}, b : {8, 12}, words : Nat \ {0}]
    /\ \A v \in HashVariants : v.kind = "cxof" => v.b = 12
    /\ HashMax \in 0..255 /\ HashTrials \in Nat
    /\ NoPerm \notin HashState /\ NoPerm \notin HashState \X (0..2)

VARIABLES
    variant,                              \* the core that was generated
    hst, hret,                            \* st and perm_ret, as encoded
    hrounds, hstart,                      \* perm_rounds, perm_start
    hs, hoff, hlen,                       \* s, msgoff/custoff, msglen_r/custlen_r
    digest, hdone,
    working, answer,                      \* the permutation
    hphase, hin, htrial, herr             \* the testbench

hregs    == <<hst, hret, hrounds, hstart, hs, hoff, hlen, digest, hdone>>
hashVars == <<variant, hregs, working, answer, hphase, hin, htrial, herr>>

Segments == {"cust", "msg"}

-----------------------------------------------------------------------------
(* The golden hash.                                                        *)

HashIV             == <<"iv">>
LengthWord(n)      == <<"bits", n>>
HashBlock(g, o, n) == <<g, o, n>>       \* n payload bytes of segment g from o on
PermOf(n)          == Perm(RoundIndexes(n))

\* absorb_message_64_then_permute, p^b between the blocks and p12 at the end.
AbsorbAll(g, len, b) ==
    [i \in 1 .. 2 * NumBlocks(len) |->
        LET k == (i + 1) \div 2
        IN  CASE i % 2 = 1              -> HashBlock(g, BlockOff(k), BlockLen(len, k))
              [] i = 2 * NumBlocks(len) -> PermOf(12)
              [] OTHER                  -> PermOf(b)]

\* The state before the first output word; r has the lengths of both segments.
Absorbed(v, r) ==
    <<HashIV, PermOf(12)>>
      \o (IF v.kind = "cxof"
          THEN <<LengthWord(r.cust), PermOf(12)>> \o AbsorbAll("cust", r.cust, 12)
          ELSE <<>>)
      \o AbsorbAll("msg", r.msg, v.b)

\* squeeze_64: word i is the rate after i - 1 more permutations.
GoldenDigest(v, r) ==
    [i \in 1..v.words |-> Absorbed(v, r) \o [j \in 1..(i - 1) |-> PermOf(v.b)]]

-----------------------------------------------------------------------------
(* The states, as the emitted localparams encode them.                     *)

StateNames ==
    IF variant.kind = "hash"
    THEN <<<<"IDLE">>, <<"PERM">>, <<"DECIDE", "msg">>, <<"FULL", "msg">>, <<"PAD", "msg">>>>
    ELSE <<<<"IDLE">>, <<"PERM">>, <<"CXLEN">>,
           <<"DECIDE", "cust">>, <<"FULL", "cust">>, <<"PAD", "cust">>,
           <<"DECIDE", "msg">>, <<"FULL", "msg">>, <<"PAD", "msg">>>>

S(name) == CHOOSE n \in 0..(Len(StateNames) - 1) : StateNames[n + 1] = name

StateWidth == IF variant.kind = "hash" THEN 4 ELSE 5

\* S_SQi is written <width>'d<first + i>: a literal too large for the register
\* loses its upper bits.
FirstSq == Len(StateNames)

\* Mutant: the state register is one bit narrower.
M_SQ(i) == (FirstSq + i) % 2^(StateWidth - 1)

SQ(i)   == (FirstSq + i) % 2^StateWidth

\* The case arm taken in a squeeze state: the first one with that encoding.
SqWord == hst - FirstSq

-----------------------------------------------------------------------------
(* The core: one action per state.                                         *)

HPermute(code, ret) ==
    /\ hst' = S(<<"PERM">>) /\ hret' = ret
    /\ hstart' = TRUE
    /\ hrounds' = code

HGoto(next) == hst' = next /\ hstart' = FALSE /\ UNCHANGED <<hret, hrounds>>

DataCode == IF variant.b = 8 THEN 1 ELSE 2

\* Mutant: the offsets of the last message are kept.
M_HIdle(start) ==
    /\ hst = S(<<"IDLE">>)
    /\ IF start
       THEN /\ hdone' = FALSE
            /\ hs' = <<HashIV>>
            /\ hlen' = hin' /\ UNCHANGED hoff
            /\ HPermute(2, IF variant.kind = "cxof" THEN S(<<"CXLEN">>) ELSE S(<<"DECIDE", "msg">>))
       ELSE HGoto(S(<<"IDLE">>)) /\ UNCHANGED <<hdone, hs, hlen, hoff>>
    /\ UNCHANGED digest

HIdle(start) ==
    /\ hst = S(<<"IDLE">>)
    /\ IF start
       THEN /\ hdone' = FALSE
            /\ hs' = <<HashIV>>
            /\ hlen' = hin' /\ hoff' = [g \in Segments |-> 0]
            /\ HPermute(2, IF variant.kind = "cxof" THEN S(<<"CXLEN">>) ELSE S(<<"DECIDE", "msg">>))
       ELSE HGoto(S(<<"IDLE">>)) /\ UNCHANGED <<hdone, hs, hlen, hoff>>
    /\ UNCHANGED digest

HPerm ==
    /\ hst = S(<<"PERM">>)
    /\ IF answer # NoPerm
       THEN hs' = answer /\ HGoto(hret)
       ELSE HGoto(hst) /\ UNCHANGED hs
    /\ UNCHANGED <<hoff, hlen, digest, hdone>>

\* The length word is taken from the live input, not from custlen_r.
HCxLen ==
    /\ variant.kind = "cxof" /\ hst = S(<<"CXLEN">>)
    /\ hs' = Append(hs, LengthWord(hin.cust))
    /\ HPermute(hrounds, S(<<"DECIDE", "cust">>))
    /\ UNCHANGED <<hoff, hlen, digest, hdone>>

HSegs == IF variant.kind = "cxof" THEN Segments ELSE {"msg"}

HRem(g) == hlen[g] - hoff[g]

\* Mutant: a block is full as soon as there are bytes left.
M_HDecide(g) ==
    /\ g \in HSegs /\ hst = S(<<"DECIDE", g>>)
    /\ HGoto(IF HRem(g) > 0 THEN S(<<"FULL", g>>) ELSE S(<<"PAD", g>>))
    /\ UNCHANGED <<hs, hoff, hlen, digest, hdone>>

HDecide(g) ==
    /\ g \in HSegs /\ hst = S(<<"DECIDE", g>>)
    /\ HGoto(IF HRem(g) >= Rate THEN S(<<"FULL", g>>) ELSE S(<<"PAD", g>>))
    /\ UNCHANGED <<hs, hoff, hlen, digest, hdone>>

\* The CXOF core leaves perm_rounds at its p12.
HFull(g) ==
    /\ g \in HSegs /\ hst = S(<<"FULL", g>>)
    /\ hs' = Append(hs, HashBlock(g, hoff[g], Rate))
    /\ hoff' = [hoff EXCEPT ![g] = @ + Rate]
    /\ HPermute(IF variant.kind = "cxof" THEN hrounds ELSE DataCode, S(<<"DECIDE", g>>))
    /\ UNCHANGED <<hlen, digest, hdone>>

HPad(g) ==
    /\ g \in HSegs /\ hst = S(<<"PAD", g>>)
    /\ hs' = Append(hs, HashBlock(g, hoff[g], HRem(g)))
    /\ HPermute(IF variant.kind = "cxof" THEN hrounds ELSE 2,
                IF g = "cust" THEN S(<<"DECIDE", "msg">>) ELSE SQ(0))
    /\ UNCHANGED <<hoff, hlen, digest, hdone>>

\* digest_o takes the rate; no permutation follows the last word.
HSqueeze ==
    /\ hst >= FirstSq
    /\ digest' = [digest EXCEPT ![SqWord + 1] = hs]
    /\ IF SqWord = variant.words - 1
       THEN hdone' = TRUE /\ HGoto(S(<<"IDLE">>))
       ELSE HPermute(DataCode, SQ(SqWord + 1)) /\ UNCHANGED hdone
    /\ UNCHANGED <<hs, hoff, hlen>>

HashEdge(start) ==
    \/ HIdle(start) \/ HPerm \/ HCxLen \/ HSqueeze
    \/ \E g \in Segments : HDecide(g) \/ HFull(g) \/ HPad(g)

\* The permutation below, by its contract.
PermutedState(r) == Append(r[1], PermOf(IF r[2] = 0 THEN 6 ELSE IF r[2] = 1 THEN 8 ELSE 12))

Below == INSTANCE PermContract WITH
    Requests <- {<<>>}, Result <- PermutedState, None <- NoPerm

\* Its share of a clock edge: it accepts, works on, answers or withdraws.
PermShare ==
    \/ hstart /\ Below!Accept(<<hs, hrounds>>)
    \/ ~hstart /\ Below!Answer
    \/ ~hstart /\ working # NoPerm /\ answer = NoPerm /\ UNCHANGED <<working, answer>>
    \/ ~hstart /\ working = NoPerm /\ Below!Withdraw
    \/ ~hstart /\ working = NoPerm /\ answer = NoPerm /\ UNCHANGED <<working, answer>>

-----------------------------------------------------------------------------
(* The testbench: run_check, one vector after the other.                   *)

HashVectors == [cust : IF variant.kind = "cxof" THEN 0..HashMax ELSE {0}, msg : 0..HashMax]

HashStart(r) ==
    /\ hphase = "present" /\ htrial < HashTrials
    /\ hin' = r
    /\ hphase' = "wait"
    /\ HashEdge(TRUE) /\ PermShare
    /\ UNCHANGED <<variant, htrial, herr>>

HashWait ==
    /\ hphase = "wait" /\ ~hdone
    /\ HashEdge(FALSE) /\ PermShare
    /\ UNCHANGED <<variant, hphase, hin, htrial, herr>>

HashCheck ==
    /\ hphase = "wait" /\ hdone
    /\ herr' = IF digest = GoldenDigest(variant, hin) THEN herr ELSE herr + 1
    /\ htrial' = htrial + 1
    /\ hphase' = "present"
    /\ HashEdge(FALSE) /\ PermShare
    /\ UNCHANGED <<variant, hin>>

HashFinish ==
    /\ hphase = "present" /\ htrial = HashTrials
    /\ hphase' = "end"
    /\ UNCHANGED <<variant, hregs, working, answer, hin, htrial, herr>>

-----------------------------------------------------------------------------
HashInit ==
    /\ variant \in HashVariants
    /\ hst = 0 /\ hret = 0 /\ hrounds = 2 /\ hstart = FALSE
    /\ hs = <<>>
    /\ hoff = [g \in Segments |-> 0] /\ hlen = [g \in Segments |-> 0]
    /\ digest = [i \in 1..variant.words |-> <<>>] /\ hdone = FALSE
    /\ working = NoPerm /\ answer = NoPerm
    /\ hphase = "present" /\ hin = [cust |-> 0, msg |-> 0] /\ htrial = 0 /\ herr = 0

HashRun  == HashWait \/ HashCheck \/ HashFinish
HashNext == (\E r \in HashVectors : HashStart(r)) \/ HashRun

\* The clock does not stop.  An edge at which the permutation only works on is
\* a stutter here, so the fairness of HashNext holds PermContract's as well.
HashFairness == WF_hashVars(HashNext)

HashSpec == HashInit /\ [][HashNext]_hashVars /\ HashFairness

-----------------------------------------------------------------------------
(* Properties.                                                             *)

HashTypeOK ==
    /\ variant \in HashVariants
    /\ hst \in 0..31 /\ hret \in 0..31 /\ hrounds \in 0..2 /\ hstart \in BOOLEAN
    /\ hoff \in [Segments -> 0..HashMax] /\ hlen \in [Segments -> 0..HashMax]
    /\ DOMAIN digest = 1..variant.words /\ hdone \in BOOLEAN
    /\ hphase \in {"present", "wait", "end"}
    /\ htrial \in 0..HashTrials /\ herr \in 0..htrial

\* A finished hash is the golden one, word by word: every block of every
\* segment absorbed once and in order, padded where it ends, the right number
\* of rounds after each, and nothing left over from the vector before.
DigestIsGolden ==
    (hphase = "wait" /\ hdone) => digest = GoldenDigest(variant, hin)

\* Every vector the testbench presents is answered with done_o in the end.
EveryHashEnds == (hphase = "wait") ~> (hphase # "wait")
=============================================================================
