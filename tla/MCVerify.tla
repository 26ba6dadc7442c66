------------------------------ MODULE MCVerify ------------------------------
(***************************************************************************)
(* The designs verified: rounds per cycle that divide a round count and    *)
(* that do not, both ends of the serial datapaths, pipelines of every      *)
(* depth with one lane and two, one context and several, hash cores with   *)
(* both data permutations, one of them with as many output words as fit    *)
(* its state register.                                                     *)
(***************************************************************************)
EXTENDS Verify

MCPermDesigns == {<<"iter", 5>>, <<"iter", 8>>, <<"colser", 1>>, <<"colser", 32>>,
                  <<"bitser", 1>>, <<"ucode", 1>>}
MCPermBenches == {"bench", "smoke"}

\* All 32 S-box inputs side by side, and a few bits at the word boundaries.
MCPermVectors ==
    {UNION {{64 * i + j : j \in {j \in Bits : ((j % 32) \div 2^(4 - i)) % 2 = 1}} : i \in Words},
     {0, 63, 64, 100, 191, 250, 319}}

MCPipeDesigns == {[rounds |-> 6, lanes |-> 2, contexts |-> 2],
                  [rounds |-> 8, lanes |-> 1, contexts |-> 3],
                  [rounds |-> 12, lanes |-> 1, contexts |-> 1]}

MCHashVariants == {[kind |-> "hash", b |-> 8, words |-> 3],
                   [kind |-> "hash", b |-> 12, words |-> 11],
                   [kind |-> "cxof", b |-> 12, words |-> 2]}

\* Hash256 with twelve output words instead of four: XOF128 of 96 bytes.
MCXofLong == {[kind |-> "hash", b |-> 12, words |-> 12]}
=============================================================================
