----------------------------- MODULE AeadGolden -----------------------------
(***************************************************************************)
(* The golden model of Ascon-AEAD128 (ascon_hwmodel/aead_*.py) as a pure   *)
(* function of a request.                                                  *)
(*                                                                         *)
(* The 320-bit sponge state is kept symbolically: a TRANSCRIPT, the        *)
(* sequence of operations applied to it so far.  Two states are equal when *)
(* their transcripts are, so "same transcript" is "same tag", and an       *)
(* operation that is missing, repeated, misplaced or applied to the wrong  *)
(* bytes shows as a difference.                                            *)
(***************************************************************************)
EXTENDS Naturals, Sequences

CONSTANT Rate   \* bytes absorbed or squeezed per block (16 for AEAD128)

ASSUME RateAssumption == Rate \in Nat \ {0}

-----------------------------------------------------------------------------
(* The operations a transcript is made of.  A block is named by the byte   *)
(* offset it starts at and the number n of payload bytes in it; n < Rate   *)
(* says that the padding byte 0x01 follows them.                           *)

Load         == <<"load">>              \* IV || key || nonce
Key(at)      == <<"key", at>>           \* key xored into state bytes at..
DomainSep    == <<"dom">>               \* the domain-separation bit
Absorb(o, n) == <<"ad", o, n>>          \* associated-data block
Crypt(o, n, how) == <<"msg", o, n, how>>  \* message block; how: see MsgHow
Perm(rounds) == <<"perm", rounds>>      \* the rounds, by constant index

\* The rounds of the n-round permutation: constants 16-n .. 15 in order.
RoundIndexes(n) == [i \in 1..n |-> 16 - n + (i - 1)]
P12 == Perm(RoundIndexes(12))
P8  == Perm(RoundIndexes(8))

\* Encryption xors the block into the rate; decryption replaces the rate by
\* the ciphertext block.
MsgHow(decrypt) == IF decrypt THEN "replace" ELSE "xor"

-----------------------------------------------------------------------------
(* parse(X, r): the full blocks of X and the final block, which is shorter *)
(* than r and may be empty.                                                *)

NumBlocks(len)   == (len \div Rate) + 1
BlockOff(k)      == (k - 1) * Rate
BlockLen(len, k) == IF k < NumBlocks(len) THEN Rate ELSE len % Rate

AdTranscript(len) ==
    IF len = 0
    THEN <<>>                           \* no associated data: nothing absorbed
    ELSE [i \in 1 .. 2 * NumBlocks(len) |->
             LET k == (i + 1) \div 2
             IN  IF i % 2 = 1 THEN Absorb(BlockOff(k), BlockLen(len, k)) ELSE P8]

\* No permutation follows the final (padded) message block.
MsgTranscript(len, how) ==
    [i \in 1 .. 2 * NumBlocks(len) - 1 |->
        LET k == (i + 1) \div 2
        IN  IF i % 2 = 1 THEN Crypt(BlockOff(k), BlockLen(len, k), how) ELSE P8]

\* The state when message block k is processed.
BeforeMsgBlock(r, k) ==
    <<Load, P12, Key(24)>> \o AdTranscript(r.adlen) \o <<DomainSep>>
        \o SubSeq(MsgTranscript(r.msglen, MsgHow(r.dec)), 1, 2 * (k - 1))

\* The state whose bytes 24..39, xored with the key, are the tag.
GoldenTag(r) ==
    <<Load, P12, Key(24)>> \o AdTranscript(r.adlen) \o <<DomainSep>>
        \o MsgTranscript(r.msglen, MsgHow(r.dec)) \o <<Key(16), P12>>

\* The output: block k is the rate of BeforeMsgBlock(r, k) xored with the
\* block, cut to BlockLen bytes.
GoldenOut(r) == [k \in 1 .. NumBlocks(r.msglen) |-> BeforeMsgBlock(r, k)]
=============================================================================
