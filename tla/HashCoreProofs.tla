--------------------------- MODULE HashCoreProofs ---------------------------
(***************************************************************************)
(* Proofs about HashCore, for every block size, every set of variants,     *)
(* lengths and vectors HashAssumption allows, and any latency of the       *)
(* permutation: the sponge has been through a prefix of the golden         *)
(* transcript at every edge, so that a finished digest is the golden one.  *)
(*                                                                         *)
(* States are numbers here, as the emitted localparams encode them.        *)
(***************************************************************************)
EXTENDS HashCore, SequenceTheorems, TLAPS

-----------------------------------------------------------------------------
(* The inductive invariant.                                                *)

\* The squeeze states have encodings of their own (see run xof_long).
SqueezeFits == \A v \in HashVariants : v.words <= IF v.kind = "hash" THEN 11 ELSE 23

First   == IF variant.kind = "hash" THEN 5 ELSE 9   \* the first squeeze state
Base(g) == IF g = "msg" THEN First - 3 ELSE 3       \* the DECIDE state of a segment

\* The state the machine is in or will return to, and the sponge state it has
\* there: while a permutation is under way, the register with it applied.
Where == IF hst = 1 THEN hret ELSE hst
Owed  == IF hst = 1 THEN PermutedState(<<hs, hrounds>>) ELSE hs

Blocks(g)    == hoff[g] \div Rate      \* absorbed so far
LenOf(r, g)  == IF g = "cust" THEN r.cust ELSE r.msg
Rounds(v, g) == IF g = "cust" THEN 12 ELSE v.b

\* The golden transcript before a segment, and up to its first n operations.
Opening == <<HashIV, PermOf(12)>>
Custom(r) == <<LengthWord(r.cust), PermOf(12)>>
All(v, r, g) == AbsorbAll(g, LenOf(r, g), Rounds(v, g))
Before(v, r, g) ==
    Opening \o (IF g = "cust" THEN Custom(r)
                ELSE IF v.kind = "cxof" THEN Custom(r) \o All(v, r, "cust") ELSE <<>>)
SoFar(v, r, g, n) == Before(v, r, g) \o SubSeq(All(v, r, g), 1, n)

\* The state that squeezes word i + 1.
Squeezed(v, r, i) == Absorbed(v, r) \o [j \in 1..i |-> PermOf(v.b)]

HashTyped ==
    /\ variant \in HashVariants
    /\ hs \in HashState /\ hrounds \in 0..2 /\ hstart \in BOOLEAN
    /\ hst \in Nat /\ hret \in Nat
    /\ hoff \in [Segments -> Nat] /\ hlen \in [Segments -> Nat]
    /\ digest \in [1..variant.words -> HashState] /\ hdone \in BOOLEAN
    /\ hin.cust \in 0..HashMax /\ hin.msg \in 0..HashMax

\* The permutation works on what the core asked for, and its answer is there for
\* the one edge at which the core takes it.
Shake ==
    \/ hst # 1 /\ ~hstart /\ working = NoPerm /\ answer = NoPerm
    \/ hst = 1 /\ hstart /\ working = NoPerm /\ answer = NoPerm
    \/ hst = 1 /\ ~hstart /\ working = <<hs, hrounds>> /\ answer = NoPerm
    \/ hst = 1 /\ ~hstart /\ working = NoPerm /\ answer = Owed

\* In the loop over a segment whole blocks have been absorbed.
LoopInStep(g) ==
    Where \in Base(g) .. (Base(g) + 2) =>
        /\ Owed = SoFar(variant, hin, g, 2 * Blocks(g))
        /\ hoff[g] = Blocks(g) * Rate /\ hoff[g] <= hlen[g]
        /\ Where = Base(g) + 1 => hlen[g] - hoff[g] >= Rate
        /\ Where = Base(g) + 2 => hlen[g] - hoff[g] < Rate
        /\ g = "cust" => hoff["msg"] = 0

SqueezeInStep ==
    Where >= First =>
        /\ Owed = Squeezed(variant, hin, Where - First)
        /\ \A i \in 1 .. (Where - First) : digest[i] = Squeezed(variant, hin, i - 1)

Busy ==
    /\ Where \in 2 .. (First + variant.words - 1)
    /\ \A g \in Segments : hlen[g] = LenOf(hin, g)
    /\ variant.kind = "cxof" => hrounds = 2
    /\ (variant.kind = "cxof" /\ Where = 2) =>
          Owed = Opening /\ hoff["cust"] = 0 /\ hoff["msg"] = 0
    /\ \A g \in HSegs : LoopInStep(g)
    /\ SqueezeInStep
    /\ ~hdone

\* The core, and the testbench, which starts it only when it is idle.
CoreInv ==
    /\ HashTyped /\ Shake
    /\ hst # 0 => Busy
    /\ hdone => digest = GoldenDigest(variant, hin)

HashInv ==
    /\ CoreInv
    /\ hphase \in {"present", "wait", "end"}
    /\ hst # 0 => hphase = "wait"

-----------------------------------------------------------------------------
(* Facts about blocks.                                                     *)

\* Writing a length as whole blocks and a rest, in the only way there is.
LEMMA DivideBlocks ==
    ASSUME NEW len \in Nat
    PROVE  /\ len \div Rate \in Nat /\ len % Rate \in 0 .. (Rate - 1)
           /\ len = (len \div Rate) * Rate + (len % Rate)
BY RateAssumption

LEMMA DivideUnique ==
    ASSUME NEW q \in Nat, NEW x \in Nat, x < Rate, NEW len \in Nat, len = q * Rate + x
    PROVE  len \div Rate = q /\ len % Rate = x
BY RateAssumption

LEMMA NextOffset ==
    ASSUME NEW q \in Nat
    PROVE  (q + 1) * Rate = q * Rate + Rate /\ q * Rate \in Nat
BY RateAssumption

LEMMA MoreBlocks ==
    ASSUME NEW p \in Nat, NEW q \in Nat, p < q
    PROVE  p * Rate + Rate <= q * Rate
BY RateAssumption

LEMMA NumBlocksType == ASSUME NEW len \in Nat PROVE NumBlocks(len) \in Nat \ {0}
BY DivideBlocks DEF NumBlocks

\* Where a whole block is left, the block at this offset is not the last one.
LEMMA FullBlock ==
    ASSUME NEW len \in Nat, NEW q \in Nat, len - q * Rate >= Rate
    PROVE  /\ q + 1 < NumBlocks(len)
           /\ BlockOff(q + 1) = q * Rate /\ BlockLen(len, q + 1) = Rate
<1> DEFINE d == len \div Rate
<1>1. d \in Nat /\ len % Rate \in 0 .. (Rate - 1) /\ len = d * Rate + (len % Rate)
  BY DivideBlocks
<1>2. q * Rate \in Nat /\ d * Rate \in Nat /\ Rate \in Nat
  BY <1>1, NextOffset, RateAssumption
<1> HIDE DEF d
<1>3. ~(d < q)
  BY <1>1, <1>2, MoreBlocks
<1>4. d # q
  BY <1>1, <1>2
<1>5. q + 1 < NumBlocks(len)
  BY <1>1, <1>3, <1>4 DEF NumBlocks, d
<1>6. BlockOff(q + 1) = q * Rate
  BY DEF BlockOff
<1> QED  BY <1>5, <1>6 DEF BlockLen

\* Where less than a block is left, it is the last one, and this is its size.
LEMMA LastBlock ==
    ASSUME NEW len \in Nat, NEW q \in Nat, q * Rate <= len, len - q * Rate < Rate
    PROVE  /\ q + 1 = NumBlocks(len)
           /\ BlockOff(q + 1) = q * Rate /\ BlockLen(len, q + 1) = len - q * Rate
<1> DEFINE x == len - q * Rate
<1>1. x \in Nat /\ x < Rate /\ len = q * Rate + x
  BY NextOffset, RateAssumption
<1> HIDE DEF x
<1>2. len \div Rate = q /\ len % Rate = x
  BY <1>1, DivideUnique
<1>3. q + 1 = NumBlocks(len)
  BY <1>2 DEF NumBlocks
<1>4. BlockOff(q + 1) = q * Rate
  BY DEF BlockOff
<1>5. BlockLen(len, q + 1) = x
  BY <1>2, <1>3 DEF BlockLen, NumBlocks
<1> QED  BY <1>3, <1>4, <1>5 DEF x

LEMMA BlockTypes ==
    ASSUME NEW len \in Nat, NEW k \in 1 .. NumBlocks(len)
    PROVE  BlockOff(k) \in Nat /\ BlockLen(len, k) \in Nat
<1>1. k - 1 \in Nat
  BY NumBlocksType
<1>2. BlockOff(k) \in Nat
  BY <1>1, NextOffset DEF BlockOff
<1>3. BlockLen(len, k) \in Nat
  BY DivideBlocks, RateAssumption DEF BlockLen
<1> QED  BY <1>2, <1>3

LEMMA OneMoreBlock ==
    ASSUME NEW q \in Nat
    PROVE  /\ (q * Rate + Rate) \div Rate = q + 1
           /\ q * Rate + Rate = (q + 1) * Rate
<1>1. q + 1 \in Nat /\ q * Rate \in Nat /\ q * Rate + Rate = (q + 1) * Rate + 0
  BY NextOffset, RateAssumption
<1>2. q * Rate + Rate \in Nat /\ 0 < Rate
  BY <1>1, RateAssumption
<1>3. (q * Rate + Rate) \div Rate = q + 1
  BY <1>1, <1>2, DivideUnique
<1> QED  BY <1>3, NextOffset

-----------------------------------------------------------------------------
(* Facts about transcripts.                                                *)

LEMMA FunctionIsSeq ==
    ASSUME NEW D, NEW m \in Nat, NEW f \in [1..m -> D]
    PROVE  f \in Seq(D) /\ Len(f) = m
<1>1. f \in Seq(D)
  BY SeqDef
<1>2. DOMAIN f = 1 .. m /\ DOMAIN f = 1 .. Len(f) /\ Len(f) \in Nat
  BY <1>1, LenProperties
<1> QED  BY <1>1, <1>2

LEMMA OperationTypes ==
    /\ HashIV \in HashOperation
    /\ \A n \in Nat : LengthWord(n) \in HashOperation
    /\ \A g \in Segments, o \in Nat, n \in Nat : HashBlock(g, o, n) \in HashOperation
    /\ \A n \in 0..16 : PermOf(n) \in HashOperation
<1>1. /\ HashIV \in HashOperation
      /\ \A n \in Nat : LengthWord(n) \in HashOperation
      /\ \A g \in Segments, o \in Nat, n \in Nat : HashBlock(g, o, n) \in HashOperation
  BY DEF HashIV, LengthWord, HashBlock, HashOperation, Segments
<1>2. ASSUME NEW n \in 0..16 PROVE PermOf(n) \in HashOperation
  <2>1. n \in Nat /\ \A i \in 1..n : 16 - n + (i - 1) \in 0..15
    OBVIOUS
  <2>2. RoundIndexes(n) \in [1..n -> 0..15]
    BY <2>1 DEF RoundIndexes
  <2>3. RoundIndexes(n) \in Seq(0..15)
    BY <2>1, <2>2, FunctionIsSeq
  <2> QED  BY <2>3 DEF PermOf, Perm, HashOperation
<1> QED  BY <1>1, <1>2

LEMMA VariantTypes ==
    ASSUME NEW v \in HashVariants
    PROVE  /\ v.kind \in {"hash", "cxof"} /\ v.b \in {8, 12} /\ v.words \in Nat \ {0}
           /\ v.kind = "cxof" => v.b = 12
BY HashAssumption

LEMMA GrowPrefix ==
    ASSUME NEW t \in HashState, NEW n \in Nat, n < Len(t)
    PROVE  /\ SubSeq(t, 1, n) \in HashState
           /\ t[n + 1] \in HashOperation
           /\ Append(SubSeq(t, 1, n), t[n + 1]) = SubSeq(t, 1, n + 1)
<1> USE DEF HashState
<1>1. Len(t) \in Nat /\ 1 \in 1 .. Len(t) /\ n + 1 \in 1 .. Len(t)
  BY LenProperties
<1>2. t[n + 1] \in HashOperation
  BY <1>1, ElementOfSeq
<1>3. \A i \in 1 .. n : t[i] \in HashOperation
  BY <1>1, ElementOfSeq
<1>4. SubSeq(t, 1, n) \in Seq(HashOperation)
  BY <1>3, SubSeqProperties
<1>5. SubSeq(t, 1, n + 1) = SubSeq(t, 1, (n + 1) - 1) \o <<t[n + 1]>>
  BY <1>1, SubSeqRecursiveSecond
<1>6. (n + 1) - 1 = n
  OBVIOUS
<1>7. Append(SubSeq(t, 1, n), t[n + 1]) = SubSeq(t, 1, n) \o <<t[n + 1]>>
  BY <1>2, <1>4, AppendIsConcat
<1> QED  BY <1>2, <1>4, <1>5, <1>6, <1>7

LEMMA AppendBehind ==
    ASSUME NEW t \in HashState, NEW u \in HashState, NEW op \in HashOperation
    PROVE  /\ t \o u \in HashState
           /\ Append(t \o u, op) = t \o Append(u, op)
<1> USE DEF HashState
<1>1. <<op>> \in Seq(HashOperation)
  OBVIOUS
<1>2. t \o u \in Seq(HashOperation)
  BY ConcatProperties
<1>3. Append(t \o u, op) = (t \o u) \o <<op>>
  BY <1>2, AppendIsConcat
<1>4. Append(u, op) = u \o <<op>>
  BY AppendIsConcat
<1>5. (t \o u) \o <<op>> = t \o (u \o <<op>>)
  BY <1>1, ConcatAssociative
<1> QED  BY <1>2, <1>3, <1>4, <1>5

LEMMA AppendPair ==
    ASSUME NEW a \in HashOperation, NEW b \in HashOperation
    PROVE  Append(<<a>>, b) = <<a, b>>
<1> DEFINE u == <<a>>
           v == <<a, b>>
<1>1. u \in Seq(HashOperation) /\ Len(u) = 1 /\ u[1] = a
  OBVIOUS
<1>2. v \in Seq(HashOperation) /\ Len(v) = 2 /\ v[1] = a /\ v[2] = b
  OBVIOUS
<1> HIDE DEF u, v
<1> DEFINE w == Append(u, b)
<1>3. /\ w \in Seq(HashOperation) /\ Len(w) = Len(u) + 1
      /\ \A i \in 1 .. Len(u) : w[i] = u[i]
      /\ w[Len(u) + 1] = b
  <2>1. u \in Seq(HashOperation) /\ b \in HashOperation
    BY <1>1
  <2> QED  BY <2>1, AppendProperties
<1> HIDE DEF w
<1>4. Len(w) = 2 /\ w[1] = a /\ w[2] = b
  BY <1>1, <1>3
<1>5. \A i \in 1 .. Len(w) : w[i] = v[i]
  BY <1>2, <1>4
<1>6. w = v
  BY <1>2, <1>3, <1>4, <1>5, SeqEqual
<1> QED  BY <1>6 DEF u, v, w

\* Two operations more on a prefix.
LEMMA GrowByTwo ==
    ASSUME NEW a \in HashState, NEW t \in HashState, NEW n \in Nat, n + 2 <= Len(t)
    PROVE  Append(Append(a \o SubSeq(t, 1, n), t[n + 1]), t[n + 2]) = a \o SubSeq(t, 1, n + 2)
<1> DEFINE p0 == SubSeq(t, 1, n)
           p1 == SubSeq(t, 1, n + 1)
           p2 == SubSeq(t, 1, n + 2)
           op1 == t[n + 1]
           op2 == t[n + 2]
<1>1. Len(t) \in Nat
  BY LenProperties DEF HashState
<1>2. p0 \in HashState /\ op1 \in HashOperation /\ Append(p0, op1) = p1
  BY <1>1, GrowPrefix
<1>3. p1 \in HashState /\ op2 \in HashOperation /\ Append(p1, op2) = p2
  <2>1. n + 1 \in Nat /\ n + 1 < Len(t) /\ (n + 1) + 1 = n + 2
    BY <1>1
  <2> QED  BY <2>1, GrowPrefix
<1> HIDE DEF p0, p1, p2, op1, op2
<1>4. Append(a \o p0, op1) = a \o Append(p0, op1)
  BY <1>2, AppendBehind
<1>5. Append(a \o p1, op2) = a \o Append(p1, op2)
  BY <1>3, AppendBehind
<1> QED  BY <1>2, <1>3, <1>4, <1>5 DEF p0, p1, p2, op1, op2

\* Odd places of a transcript are blocks, even ones permutations.
LEMMA Halves ==
    ASSUME NEW k \in Nat
    PROVE  /\ (2 * k - 1) % 2 = 1 /\ ((2 * k - 1) + 1) \div 2 = k
           /\ (2 * k) % 2 = 0
OBVIOUS

LEMMA AbsorbShape ==
    ASSUME NEW g \in Segments, NEW len \in Nat, NEW b \in {8, 12}
    PROVE  /\ AbsorbAll(g, len, b) \in HashState
           /\ Len(AbsorbAll(g, len, b)) = 2 * NumBlocks(len)
           /\ \A k \in 1 .. NumBlocks(len) :
                 /\ AbsorbAll(g, len, b)[2 * k - 1] = HashBlock(g, BlockOff(k), BlockLen(len, k))
                 /\ AbsorbAll(g, len, b)[2 * k]
                       = IF k = NumBlocks(len) THEN PermOf(12) ELSE PermOf(b)
<1> DEFINE nb == NumBlocks(len)
           blk(i) == HashBlock(g, BlockOff((i + 1) \div 2), BlockLen(len, (i + 1) \div 2))
           op(i) == CASE i % 2 = 1 -> blk(i) [] i = 2 * nb -> PermOf(12) [] OTHER -> PermOf(b)
           f == [i \in 1 .. 2 * nb |-> op(i)]
<1>1. AbsorbAll(g, len, b) = f
  BY DEF AbsorbAll
<1>2. nb \in Nat \ {0} /\ 2 * nb \in Nat
  BY NumBlocksType
<1>3. \A i \in 1 .. 2 * nb : op(i) \in HashOperation
  <2> SUFFICES ASSUME NEW i \in 1 .. 2 * nb PROVE op(i) \in HashOperation
    OBVIOUS
  <2>1. (i + 1) \div 2 \in 1 .. nb
    BY <1>2
  <2>2. BlockOff((i + 1) \div 2) \in Nat /\ BlockLen(len, (i + 1) \div 2) \in Nat
    BY <2>1, BlockTypes
  <2>3. blk(i) \in HashOperation
    BY <2>2, OperationTypes
  <2>4. PermOf(12) \in HashOperation /\ PermOf(b) \in HashOperation
    BY OperationTypes
  <2> HIDE DEF blk
  <2> QED  BY <2>3, <2>4
<1>4. ASSUME NEW k \in 1 .. nb
      PROVE  /\ f[2 * k - 1] = HashBlock(g, BlockOff(k), BlockLen(len, k))
             /\ f[2 * k] = IF k = nb THEN PermOf(12) ELSE PermOf(b)
  <2>1. 2 * k - 1 \in 1 .. 2 * nb /\ 2 * k \in 1 .. 2 * nb /\ k \in Nat
    BY <1>2
  <2>2. /\ (2 * k - 1) % 2 = 1 /\ ((2 * k - 1) + 1) \div 2 = k /\ (2 * k) % 2 = 0
        /\ (2 * k = 2 * nb <=> k = nb)
    BY <1>2, <2>1, Halves
  <2>3. f[2 * k - 1] = blk(2 * k - 1)
    BY <2>1, <2>2
  <2>4. f[2 * k] = IF k = nb THEN PermOf(12) ELSE PermOf(b)
    BY <2>1, <2>2
  <2> QED  BY <2>2, <2>3, <2>4
<1> HIDE DEF nb, op
<1>5. f \in [1 .. 2 * nb -> HashOperation]
  BY <1>3
<1>6. f \in Seq(HashOperation) /\ Len(f) = 2 * nb
  BY <1>2, <1>5, FunctionIsSeq
<1> QED  BY <1>1, <1>4, <1>6 DEF nb, HashState

-----------------------------------------------------------------------------
(* How the golden transcript grows.                                        *)

\* The lengths and variants of a vector.
Vector(r) == r.cust \in 0..HashMax /\ r.msg \in 0..HashMax

LEMMA AllTypes ==
    ASSUME NEW v \in HashVariants, NEW r, Vector(r), NEW g \in Segments
    PROVE  /\ LenOf(r, g) \in Nat /\ Rounds(v, g) \in {8, 12}
           /\ All(v, r, g) \in HashState
           /\ Len(All(v, r, g)) = 2 * NumBlocks(LenOf(r, g))
<1>1. HashMax \in Nat
  BY HashAssumption
<1>2. LenOf(r, g) \in Nat
  BY <1>1 DEF LenOf, Vector
<1>3. Rounds(v, g) \in {8, 12}
  BY VariantTypes DEF Rounds
<1> QED  BY <1>2, <1>3, AbsorbShape DEF All

LEMMA BeforeTypes ==
    ASSUME NEW v \in HashVariants, NEW r, Vector(r)
    PROVE  /\ Opening \in HashState /\ Custom(r) \in HashState
           /\ \A g \in Segments : Before(v, r, g) \in HashState
<1>1. PermOf(12) \in HashOperation /\ LengthWord(r.cust) \in HashOperation /\ HashIV \in HashOperation
  BY HashAssumption, OperationTypes DEF Vector
<1>2. Opening \in HashState
  BY <1>1 DEF Opening, HashState
<1>3. Custom(r) \in HashState
  BY <1>1 DEF Custom, HashState
<1>4. \A a, b \in HashState : a \o b \in HashState
  BY ConcatProperties DEF HashState
<1>5. All(v, r, "cust") \in HashState
  BY AllTypes DEF Segments
<1>6. <<>> \in HashState
  BY DEF HashState
<1> QED  BY <1>2, <1>3, <1>4, <1>5, <1>6 DEF Before

LEMMA NothingYet ==
    ASSUME NEW v \in HashVariants, NEW r, Vector(r), NEW g \in Segments
    PROVE  SoFar(v, r, g, 0) = Before(v, r, g)
<1>1. SubSeq(All(v, r, g), 1, 0) = <<>>
  BY SubSeqEmpty
<1>2. Before(v, r, g) \o <<>> = Before(v, r, g)
  BY BeforeTypes, ConcatEmptySeq DEF HashState
<1> QED  BY <1>1, <1>2 DEF SoFar

\* A block and its permutation.
AndBlock(t, g, o, n, p) == Append(Append(t, HashBlock(g, o, n)), PermOf(p))

LEMMA BlockGrows ==
    ASSUME NEW v \in HashVariants, NEW r, Vector(r), NEW g \in Segments,
           NEW q \in Nat, NEW n \in Nat, NEW p,
           q + 1 \in 1 .. NumBlocks(LenOf(r, g)),
           n = BlockLen(LenOf(r, g), q + 1),
           p = IF q + 1 = NumBlocks(LenOf(r, g)) THEN 12 ELSE Rounds(v, g)
    PROVE  AndBlock(SoFar(v, r, g, 2 * q), g, q * Rate, n, p) = SoFar(v, r, g, 2 * (q + 1))
<1> DEFINE t == All(v, r, g)
           nb == NumBlocks(LenOf(r, g))
<1>1. /\ t \in HashState /\ Len(t) = 2 * nb /\ nb \in Nat /\ LenOf(r, g) \in Nat
      /\ Rounds(v, g) \in {8, 12}
  BY AllTypes, NumBlocksType
<1>2. BlockOff(q + 1) = q * Rate
  BY DEF BlockOff
<1>3. /\ t[2 * (q + 1) - 1] = HashBlock(g, q * Rate, n)
      /\ t[2 * (q + 1)] = IF q + 1 = nb THEN PermOf(12) ELSE PermOf(Rounds(v, g))
  <2> DEFINE k == q + 1
  <2>1. \A i \in 1..nb :
           /\ t[2 * i - 1] = HashBlock(g, BlockOff(i), BlockLen(LenOf(r, g), i))
           /\ t[2 * i] = IF i = nb THEN PermOf(12) ELSE PermOf(Rounds(v, g))
    BY <1>1, AbsorbShape DEF All
  <2>2. k \in 1..nb /\ n = BlockLen(LenOf(r, g), k) /\ BlockOff(k) = q * Rate
    BY <1>2
  <2> HIDE DEF k, t, nb
  <2>3. /\ t[2 * k - 1] = HashBlock(g, q * Rate, n)
        /\ t[2 * k] = IF k = nb THEN PermOf(12) ELSE PermOf(Rounds(v, g))
    BY <2>1, <2>2
  <2> QED  BY <2>3 DEF k
<1>4. t[2 * (q + 1)] = PermOf(p)
  BY <1>3
<1>5. 2 * (q + 1) - 1 = 2 * q + 1 /\ 2 * (q + 1) = 2 * q + 2 /\ 2 * q \in Nat
  OBVIOUS
<1> HIDE DEF t, nb
<1>6. 2 * q + 2 <= Len(t)
  BY <1>1 DEF nb
<1>7. Before(v, r, g) \in HashState
  BY BeforeTypes
<1>8. Append(Append(Before(v, r, g) \o SubSeq(t, 1, 2 * q), t[2 * q + 1]), t[2 * q + 2])
         = Before(v, r, g) \o SubSeq(t, 1, 2 * q + 2)
  BY <1>1, <1>5, <1>6, <1>7, GrowByTwo
<1> QED  BY <1>3, <1>4, <1>5, <1>8 DEF SoFar, AndBlock, t

LEMMA FullGrows ==
    ASSUME NEW v \in HashVariants, NEW r, Vector(r), NEW g \in Segments,
           NEW q \in Nat, LenOf(r, g) - q * Rate >= Rate
    PROVE  AndBlock(SoFar(v, r, g, 2 * q), g, q * Rate, Rate, Rounds(v, g))
              = SoFar(v, r, g, 2 * (q + 1))
<1>1. LenOf(r, g) \in Nat
  BY AllTypes
<1>2. q + 1 < NumBlocks(LenOf(r, g)) /\ BlockLen(LenOf(r, g), q + 1) = Rate
  BY <1>1, FullBlock
<1>3. q + 1 \in 1 .. NumBlocks(LenOf(r, g)) /\ q + 1 # NumBlocks(LenOf(r, g)) /\ Rate \in Nat
  BY <1>1, <1>2, NumBlocksType, RateAssumption
<1> QED  BY <1>2, <1>3, BlockGrows

\* The padded block ends the segment.
LEMMA LastGrows ==
    ASSUME NEW v \in HashVariants, NEW r, Vector(r), NEW g \in Segments,
           NEW q \in Nat, q * Rate <= LenOf(r, g), LenOf(r, g) - q * Rate < Rate
    PROVE  AndBlock(SoFar(v, r, g, 2 * q), g, q * Rate, LenOf(r, g) - q * Rate, 12)
              = Before(v, r, g) \o All(v, r, g)
<1>1. LenOf(r, g) \in Nat /\ LenOf(r, g) - q * Rate \in Nat
  <2>1. LenOf(r, g) \in Nat /\ q * Rate \in Nat
    BY AllTypes, NextOffset
  <2> QED  BY <2>1
<1>2. /\ q + 1 = NumBlocks(LenOf(r, g))
      /\ BlockLen(LenOf(r, g), q + 1) = LenOf(r, g) - q * Rate
  BY <1>1, LastBlock
<1>3. q + 1 \in 1 .. NumBlocks(LenOf(r, g))
  BY <1>2
<1>4. AndBlock(SoFar(v, r, g, 2 * q), g, q * Rate, LenOf(r, g) - q * Rate, 12)
         = SoFar(v, r, g, 2 * (q + 1))
  BY <1>1, <1>2, <1>3, BlockGrows
<1>5. SubSeq(All(v, r, g), 1, 2 * (q + 1)) = All(v, r, g)
  <2> DEFINE t == All(v, r, g)
  <2>1. t \in Seq(HashOperation) /\ Len(t) = 2 * (q + 1)
    BY <1>2, AllTypes DEF HashState
  <2> HIDE DEF t
  <2>2. SubSeq(t, 1, Len(t)) = t
    BY <2>1, SubSeqFull
  <2> QED  BY <2>1, <2>2 DEF t
<1> QED  BY <1>4, <1>5 DEF SoFar

\* Where a segment ends the next one, or the squeezing, begins.
LEMMA SegmentEnds ==
    ASSUME NEW v \in HashVariants, NEW r, Vector(r)
    PROVE  /\ v.kind = "cxof" => Before(v, r, "cust") \o All(v, r, "cust") = Before(v, r, "msg")
           /\ Before(v, r, "msg") \o All(v, r, "msg") = Squeezed(v, r, 0)
<1>1. /\ Opening \in Seq(HashOperation) /\ Custom(r) \in Seq(HashOperation)
      /\ All(v, r, "cust") \in Seq(HashOperation)
      /\ All(v, r, "msg") \in Seq(HashOperation) /\ Before(v, r, "msg") \in Seq(HashOperation)
  BY BeforeTypes, AllTypes DEF HashState, Segments
<1>2. (Opening \o Custom(r)) \o All(v, r, "cust") = Opening \o (Custom(r) \o All(v, r, "cust"))
  BY <1>1, ConcatAssociative
<1>3. v.kind = "cxof" => Before(v, r, "cust") \o All(v, r, "cust") = Before(v, r, "msg")
  BY <1>2 DEF Before
<1>4. Absorbed(v, r) = Before(v, r, "msg") \o All(v, r, "msg")
  BY DEF Absorbed, Before, All, Opening, Custom, LenOf, Rounds
<1>5. Absorbed(v, r) \o [j \in 1..0 |-> PermOf(v.b)] = Absorbed(v, r)
  <2>1. [j \in 1..0 |-> PermOf(v.b)] = <<>>
    OBVIOUS
  <2>2. Absorbed(v, r) \in Seq(HashOperation)
    BY <1>1, <1>4, ConcatProperties
  <2> QED  BY <2>1, <2>2, ConcatEmptySeq
<1> QED  BY <1>3, <1>4, <1>5 DEF Squeezed

LEMMA SqueezeGrows ==
    ASSUME NEW v \in HashVariants, NEW r, Vector(r), NEW i \in Nat
    PROVE  /\ Squeezed(v, r, i) \in HashState
           /\ Append(Squeezed(v, r, i), PermOf(v.b)) = Squeezed(v, r, i + 1)
<1> DEFINE a == Absorbed(v, r)
           p == PermOf(v.b)
           s0 == [j \in 1..i |-> p]
           s1 == [j \in 1 .. (i + 1) |-> p]
<1>1. a \in HashState
  <2>1. a = Before(v, r, "msg") \o All(v, r, "msg")
    BY DEF Absorbed, Before, All, Opening, Custom, LenOf, Rounds
  <2> QED  BY <2>1, BeforeTypes, AllTypes, ConcatProperties DEF HashState, Segments
<1>2. p \in HashOperation
  BY VariantTypes, OperationTypes
<1> HIDE DEF a, p
<1>3. s0 \in Seq(HashOperation) /\ Len(s0) = i
  <2>1. s0 \in [1..i -> HashOperation]
    BY <1>2
  <2> QED  BY <2>1, FunctionIsSeq
<1>4. s1 \in Seq(HashOperation) /\ Len(s1) = i + 1
  <2>1. s1 \in [1 .. (i + 1) -> HashOperation] /\ i + 1 \in Nat
    BY <1>2
  <2> QED  BY <2>1, FunctionIsSeq
<1>5. \A j \in 1..i : s0[j] = p
  OBVIOUS
<1>6. \A j \in 1 .. (i + 1) : s1[j] = p
  OBVIOUS
<1> HIDE DEF s0, s1
<1>7. /\ Append(s0, p) \in Seq(HashOperation) /\ Len(Append(s0, p)) = i + 1
      /\ \A j \in 1..i : Append(s0, p)[j] = s0[j]
      /\ Append(s0, p)[i + 1] = p
  BY <1>2, <1>3, AppendProperties
<1>8. \A j \in 1 .. (i + 1) : Append(s0, p)[j] = s1[j]
  BY <1>5, <1>6, <1>7
<1>9. Append(s0, p) = s1
  BY <1>4, <1>7, <1>8, SeqEqual
<1>10. a \o s0 \in HashState /\ Append(a \o s0, p) = a \o Append(s0, p)
  BY <1>1, <1>2, <1>3, AppendBehind DEF HashState
<1> QED  BY <1>9, <1>10 DEF Squeezed, a, p, s0, s1

-----------------------------------------------------------------------------
(* The encoding of the states.                                             *)

\* In a list without repetitions S finds the place of a name.
LEMMA PlaceOf ==
    ASSUME \A i, j \in 1 .. Len(StateNames) : StateNames[i] = StateNames[j] => i = j,
           Len(StateNames) \in Nat,
           NEW i \in 0 .. (Len(StateNames) - 1)
    PROVE  S(StateNames[i + 1]) = i
<1> DEFINE n == StateNames
           x == n[i + 1]
<1>1. ASSUME NEW k \in 0 .. (Len(n) - 1), n[k + 1] = n[i + 1] PROVE k = i
  <2>1. k + 1 \in 1 .. Len(n) /\ i + 1 \in 1 .. Len(n)
    OBVIOUS
  <2>2. k + 1 = i + 1
    BY <1>1, <2>1
  <2> QED  BY <2>2
<1>2. S(x) = CHOOSE k \in 0 .. (Len(n) - 1) : n[k + 1] = x
  BY DEF S
<1>3. \A k \in 0 .. (Len(n) - 1) : n[k + 1] = x => k = i
  BY <1>1
<1>4. n[i + 1] = x
  OBVIOUS
<1> HIDE DEF n, x
<1>5. (CHOOSE k \in 0 .. (Len(n) - 1) : n[k + 1] = x) = i
  BY <1>3, <1>4
<1> QED  BY <1>2, <1>5 DEF n, x

LEMMA HashCodes ==
    ASSUME variant \in HashVariants, variant.kind = "hash"
    PROVE  /\ S(<<"IDLE">>) = 0 /\ S(<<"PERM">>) = 1 /\ FirstSq = 5
           /\ S(<<"DECIDE", "msg">>) = 2 /\ S(<<"FULL", "msg">>) = 3 /\ S(<<"PAD", "msg">>) = 4
<1> DEFINE n == StateNames
<1>1. n = <<<<"IDLE">>, <<"PERM">>, <<"DECIDE", "msg">>, <<"FULL", "msg">>, <<"PAD", "msg">>>>
  BY DEF StateNames
<1>2. Len(n) = 5
  BY <1>1
<1>3. n[1] = <<"IDLE">> /\ n[2] = <<"PERM">> /\ n[3] = <<"DECIDE", "msg">>
      /\ n[4] = <<"FULL", "msg">> /\ n[5] = <<"PAD", "msg">>
  BY <1>1
<1>4. \A i, j \in 1..5 : n[i] = n[j] => i = j
  BY <1>3
<1>5. \A i \in 0..4 : S(n[i + 1]) = i
  BY <1>2, <1>4, PlaceOf
<1> HIDE DEF n
<1> QED  BY <1>2, <1>3, <1>5 DEF FirstSq, n

LEMMA CxofCodes ==
    ASSUME variant \in HashVariants, variant.kind = "cxof"
    PROVE  /\ S(<<"IDLE">>) = 0 /\ S(<<"PERM">>) = 1 /\ S(<<"CXLEN">>) = 2 /\ FirstSq = 9
           /\ S(<<"DECIDE", "cust">>) = 3 /\ S(<<"FULL", "cust">>) = 4 /\ S(<<"PAD", "cust">>) = 5
           /\ S(<<"DECIDE", "msg">>) = 6 /\ S(<<"FULL", "msg">>) = 7 /\ S(<<"PAD", "msg">>) = 8
<1> DEFINE n == StateNames
<1>1. n = <<<<"IDLE">>, <<"PERM">>, <<"CXLEN">>,
            <<"DECIDE", "cust">>, <<"FULL", "cust">>, <<"PAD", "cust">>,
            <<"DECIDE", "msg">>, <<"FULL", "msg">>, <<"PAD", "msg">>>>
  BY DEF StateNames
<1>2. Len(n) = 9
  BY <1>1
<1>3. /\ n[1] = <<"IDLE">> /\ n[2] = <<"PERM">> /\ n[3] = <<"CXLEN">>
      /\ n[4] = <<"DECIDE", "cust">> /\ n[5] = <<"FULL", "cust">> /\ n[6] = <<"PAD", "cust">>
      /\ n[7] = <<"DECIDE", "msg">> /\ n[8] = <<"FULL", "msg">> /\ n[9] = <<"PAD", "msg">>
  BY <1>1
<1>4. \A i, j \in 1..9 : n[i] = n[j] => i = j
  BY <1>3
<1>5. \A i \in 0..8 : S(n[i + 1]) = i
  BY <1>2, <1>4, PlaceOf
<1> HIDE DEF n
<1> QED  BY <1>2, <1>3, <1>5 DEF FirstSq, n

LEMMA Codes ==
    ASSUME variant \in HashVariants
    PROVE  /\ S(<<"IDLE">>) = 0 /\ S(<<"PERM">>) = 1 /\ FirstSq = First
           /\ variant.kind = "cxof" => S(<<"CXLEN">>) = 2
           /\ \A g \in HSegs : /\ S(<<"DECIDE", g>>) = Base(g)
                               /\ S(<<"FULL", g>>) = Base(g) + 1
                               /\ S(<<"PAD", g>>) = Base(g) + 2
           /\ S(<<"DECIDE", "msg">>) = Base("msg")
<1>1. CASE variant.kind = "hash"
  BY <1>1, HashCodes DEF HSegs, Base, First
<1>2. CASE variant.kind = "cxof"
  BY <1>2, CxofCodes DEF HSegs, Segments, Base, First
<1> QED  BY <1>1, <1>2, VariantTypes

LEMMA SqueezeCode ==
    ASSUME SqueezeFits, variant \in HashVariants, NEW i \in 0 .. (variant.words - 1)
    PROVE  SQ(i) = First + i
<1>1. variant.words \in Nat \ {0} /\ variant.kind \in {"hash", "cxof"}
  BY VariantTypes
<1>2. variant.words <= IF variant.kind = "hash" THEN 11 ELSE 23
  BY DEF SqueezeFits
<1>3. CASE variant.kind = "hash"
  <2>1. SQ(i) = (5 + i) % 16
    BY <1>3, Codes DEF SQ, StateWidth, First
  <2>2. 5 + i \in 0..15
    BY <1>1, <1>2, <1>3
  <2> QED  BY <1>3, <2>1, <2>2 DEF First
<1>4. CASE variant.kind = "cxof"
  <2>1. SQ(i) = (9 + i) % 32
    BY <1>4, Codes DEF SQ, StateWidth, First
  <2>2. 9 + i \in 0..31
    BY <1>1, <1>2, <1>4
  <2> QED  BY <1>4, <2>1, <2>2 DEF First
<1> QED  BY <1>1, <1>3, <1>4

\* First and the loops' states, as numbers.
LEMMA Places ==
    ASSUME variant \in HashVariants
    PROVE  /\ First \in {5, 9} /\ Base("msg") = First - 3
           /\ variant.kind = "hash" => First = 5 /\ HSegs = {"msg"}
           /\ variant.kind = "cxof" => First = 9 /\ HSegs = {"cust", "msg"} /\ Base("cust") = 3
           /\ HSegs \subseteq Segments /\ variant.kind \in {"hash", "cxof"}
BY VariantTypes DEF First, Base, HSegs, Segments

-----------------------------------------------------------------------------
(* The permutation below.                                                  *)

CodeRounds(code) == IF code = 0 THEN 6 ELSE IF code = 1 THEN 8 ELSE 12

LEMMA PermutedTypes ==
    ASSUME NEW t \in HashState, NEW c \in 0..2
    PROVE  /\ PermutedState(<<t, c>>) = Append(t, PermOf(CodeRounds(c)))
           /\ PermutedState(<<t, c>>) \in HashState /\ PermutedState(<<t, c>>) # NoPerm
           /\ <<t, c>> # NoPerm
<1>1. PermutedState(<<t, c>>) = Append(t, PermOf(CodeRounds(c)))
  BY DEF PermutedState, CodeRounds
<1>2. PermOf(CodeRounds(c)) \in HashOperation
  BY OperationTypes DEF CodeRounds
<1>3. Append(t, PermOf(CodeRounds(c))) \in HashState
  BY <1>2, AppendProperties DEF HashState
<1>4. NoPerm \notin HashState /\ NoPerm \notin HashState \X (0..2)
  BY HashAssumption
<1>5. <<t, c>> \in HashState \X (0..2)
  OBVIOUS
<1>6. <<t, c>> # NoPerm
  BY <1>4, <1>5
<1> QED  BY <1>1, <1>3, <1>4, <1>6

\* Nothing happens below while the core asks for nothing.
LEMMA RestsBelow ==
    ASSUME PermShare, ~hstart, working = NoPerm, answer = NoPerm
    PROVE  working' = NoPerm /\ answer' = NoPerm
BY DEF PermShare, Below!Answer, Below!Withdraw

\* The core leaves a state that is not S_PERM for one that is not ...
LEMMA ShakeGone ==
    ASSUME Shake, PermShare, hst # 1, NEW x, x # 1, HGoto(x)
    PROVE  Shake' /\ Where' = x /\ Owed' = hs' /\ hst' = x
<1>1. ~hstart /\ working = NoPerm /\ answer = NoPerm
  BY DEF Shake
<1>2. hst' = x /\ hstart' = FALSE
  BY DEF HGoto
<1> QED  BY <1>1, <1>2, RestsBelow DEF Shake, Where, Owed

\* ... or for S_PERM.
LEMMA ShakeAsked ==
    ASSUME HashTyped, Shake, PermShare, hst # 1, NEW code \in 0..2, NEW ret, HPermute(code, ret),
           hs' \in HashState
    PROVE  /\ Shake' /\ Where' = ret /\ Owed' = Append(hs', PermOf(CodeRounds(code)))
           /\ hst' = 1 /\ hrounds' = code
<1>1. ~hstart /\ working = NoPerm /\ answer = NoPerm
  BY DEF Shake
<1>2. hst' = 1 /\ hstart' = TRUE /\ hrounds' = code /\ hret' = ret
  BY Codes DEF HPermute, HashTyped
<1>3. Owed' = PermutedState(<<hs', hrounds'>>)
  BY <1>2 DEF Owed, PermutedState
<1>4. Owed' = Append(hs', PermOf(CodeRounds(code)))
  BY <1>2, <1>3, PermutedTypes
<1> QED  BY <1>1, <1>2, <1>4, RestsBelow DEF Shake, Where

\* In S_PERM it waits for the answer to what it asked and goes on with it.
LEMMA ShakePerm ==
    ASSUME HashTyped, Shake, PermShare, hst = 1, hret # 1, HPerm
    PROVE  /\ Shake' /\ Where' = Where /\ Owed' = Owed
           /\ (hst' = 1 \/ hst' = hret) /\ hrounds' = hrounds /\ hs' \in HashState
<1>1. /\ PermutedState(<<hs, hrounds>>) \in HashState
      /\ PermutedState(<<hs, hrounds>>) # NoPerm /\ <<hs, hrounds>> # NoPerm
  BY PermutedTypes DEF HashTyped
<1>2. Owed = PermutedState(<<hs, hrounds>>) /\ Where = hret
  BY DEF Owed, Where
<1>3. CASE answer # NoPerm
  <2>1. ~hstart /\ working = NoPerm /\ answer = Owed
    BY <1>3 DEF Shake
  <2>2. hs' = Owed /\ hst' = hret /\ hstart' = FALSE /\ hret' = hret /\ hrounds' = hrounds
    BY <1>3, <2>1 DEF HPerm, HGoto
  <2>3. working' = NoPerm /\ answer' = NoPerm
    BY <1>3, <2>1 DEF PermShare, Below!Answer, Below!Withdraw
  <2> QED  BY <1>1, <1>2, <2>2, <2>3 DEF Shake, Where, Owed
<1>4. CASE answer = NoPerm
  <2>1. hs' = hs /\ hst' = 1 /\ hstart' = FALSE /\ hret' = hret /\ hrounds' = hrounds
    BY <1>4 DEF HPerm, HGoto
  <2>2. Owed' = Owed /\ Where' = Where
    BY <2>1 DEF Owed, Where, PermutedState
  <2>3. CASE hstart
    <3>1. working' = <<hs, hrounds>> /\ answer' = NoPerm
      BY <2>3 DEF PermShare, Below!Accept
    <3> QED  BY <2>1, <2>2, <3>1 DEF Shake, HashTyped
  <2>4. CASE ~hstart
    <3>1. working = <<hs, hrounds>>
      BY <1>1, <1>2, <1>4, <2>4 DEF Shake
    <3>2. \/ working' = NoPerm /\ answer' = PermutedState(<<hs, hrounds>>)
          \/ working' = working /\ answer' = NoPerm
      BY <1>1, <1>4, <2>4, <3>1 DEF PermShare, Below!Answer, Below!Withdraw
    <3> QED  BY <1>2, <2>1, <2>2, <3>1, <3>2 DEF Shake, HashTyped
  <2> QED  BY <2>1, <2>2, <2>3, <2>4 DEF HashTyped
<1> QED  BY <1>3, <1>4

-----------------------------------------------------------------------------
(* The invariant step by step.                                             *)

\* A core between its start and its end, outside S_PERM.
LEMMA AtWork ==
    ASSUME CoreInv, hst # 0, hst # 1
    PROVE  Where = hst /\ Owed = hs /\ Busy /\ HashTyped /\ Shake /\ Vector(hin) /\ hs \in HashState
BY DEF CoreInv, Where, Owed, HashTyped, Vector

\* What remains to be shown of a step into a loop, ...
LEMMA BusyInLoop ==
    ASSUME variant \in HashVariants, variant' = variant,
           NEW g \in HSegs, Where' \in Base(g) .. (Base(g) + 2),
           \A h \in Segments : hlen'[h] = LenOf(hin', h),
           variant.kind = "cxof" => hrounds' = 2,
           LoopInStep(g)', ~hdone'
    PROVE  Busy'
<1>1. First' = First /\ HSegs' = HSegs /\ \A h \in Segments : Base(h)' = Base(h)
  BY DEF First, HSegs, Base
<1>2. First \in {5, 9} /\ variant.words \in Nat \ {0} /\ HSegs \subseteq Segments
  BY Places, VariantTypes
<1>3. \A h \in HSegs : h = g \/ ~(Where' \in Base(h) .. (Base(h) + 2))
  BY Places
<1>4. \A h \in HSegs : LoopInStep(h)'
  <2> SUFFICES ASSUME NEW h \in HSegs PROVE LoopInStep(h)'
    BY <1>1
  <2>1. CASE h = g
    BY <2>1
  <2>2. CASE h # g
    <3>1. ~(Where' \in Base(h)' .. (Base(h)' + 2))
      BY <1>1, <1>2, <1>3, <2>2
    <3> QED  BY <3>1 DEF LoopInStep
  <2> QED  BY <2>1, <2>2
<1>5. /\ Where' \in 2 .. (First + variant.words - 1) /\ ~(Where' >= First)
      /\ ~(variant.kind = "cxof" /\ Where' = 2)
  BY <1>2, Places
<1>6. SqueezeInStep'
  BY <1>1, <1>5 DEF SqueezeInStep
<1> QED  BY <1>1, <1>4, <1>5, <1>6 DEF Busy

\* ... or to a squeeze state.
LEMMA BusySqueezing ==
    ASSUME variant \in HashVariants, variant' = variant,
           NEW i \in 0 .. (variant.words - 1), Where' = First + i,
           \A h \in Segments : hlen'[h] = LenOf(hin', h),
           variant.kind = "cxof" => hrounds' = 2,
           Owed' = Squeezed(variant, hin', i),
           \A j \in 1..i : digest'[j] = Squeezed(variant, hin', j - 1),
           ~hdone'
    PROVE  Busy'
<1>1. First' = First /\ HSegs' = HSegs /\ \A h \in Segments : Base(h)' = Base(h)
  BY DEF First, HSegs, Base
<1>2. First \in {5, 9} /\ variant.words \in Nat \ {0} /\ HSegs \subseteq Segments
  BY Places, VariantTypes
<1>3. \A h \in HSegs : ~(Where' \in Base(h)' .. (Base(h)' + 2))
  BY <1>1, <1>2, Places
<1>4. \A h \in HSegs : LoopInStep(h)'
  BY <1>3 DEF LoopInStep
<1>5. /\ Where' \in 2 .. (First + variant.words - 1) /\ Where' - First = i
      /\ ~(variant.kind = "cxof" /\ Where' = 2)
  BY <1>2, Places
<1>6. SqueezeInStep'
  BY <1>1, <1>5 DEF SqueezeInStep
<1> QED  BY <1>1, <1>4, <1>5, <1>6 DEF Busy

LEMMA HPermStep ==
    ASSUME CoreInv, PermShare, HPerm, UNCHANGED <<variant, hin>>
    PROVE  CoreInv'
<1>1. hst = 1 /\ HashTyped /\ Shake /\ Busy
  BY Codes DEF HPerm, CoreInv, HashTyped
<1>2. UNCHANGED <<hoff, hlen, digest, hdone>>
  BY DEF HPerm
<1>3. Where = hret /\ Where >= 2 /\ hret # 1 /\ hret # 0
  <2>1. Where = hret /\ Where \in 2 .. (First + variant.words - 1)
    BY <1>1 DEF Where, Busy
  <2>2. First + variant.words - 1 \in Int
    BY <1>1, Places, VariantTypes DEF HashTyped
  <2> QED  BY <2>1, <2>2
<1>4. /\ Shake' /\ Where' = Where /\ Owed' = Owed
      /\ (hst' = 1 \/ hst' = hret) /\ hrounds' = hrounds /\ hs' \in HashState
  BY <1>1, <1>3, ShakePerm
<1>5. Busy'
  BY <1>1, <1>2, <1>4 DEF Busy, LoopInStep, SqueezeInStep, Blocks, Base, First, HSegs
<1>6. HashTyped'
  <2>1. hstart' \in BOOLEAN /\ hret' = hret
    BY DEF HPerm, HGoto
  <2> QED  BY <1>1, <1>2, <1>4, <2>1 DEF HashTyped
<1>7. ~hdone'
  BY <1>1, <1>2 DEF Busy
<1> QED  BY <1>4, <1>5, <1>6, <1>7 DEF CoreInv

\* An idle core that is not started, and one that is.
LEMMA HIdleStep ==
    ASSUME CoreInv, PermShare, HIdle(FALSE), UNCHANGED <<variant, hin>>
    PROVE  CoreInv'
<1>1. hst = 0 /\ HGoto(0) /\ UNCHANGED <<hdone, hs, hlen, hoff, digest>>
  BY Codes DEF HIdle, CoreInv, HashTyped
<1>2. Shake' /\ hst' = 0
  BY <1>1, ShakeGone DEF CoreInv
<1>3. HashTyped'
  BY <1>1, <1>2 DEF CoreInv, HashTyped, HGoto
<1> QED  BY <1>1, <1>2, <1>3 DEF CoreInv

LEMMA NoBlocks == 0 \div Rate = 0 /\ 0 = 0 * Rate
BY RateAssumption

\* The loop over a segment begins.
LEMMA LoopBegins ==
    ASSUME variant \in HashVariants, variant' = variant, NEW g \in HSegs, Vector(hin'),
           Where' = Base(g), hoff'[g] = 0, g = "cust" => hoff'["msg"] = 0,
           Owed' = Before(variant, hin', g),
           \A h \in Segments : hlen'[h] = LenOf(hin', h),
           variant.kind = "cxof" => hrounds' = 2, ~hdone'
    PROVE  Busy'
<1>1. g \in Segments /\ First \in {5, 9}
  BY Places
<1>2. Base(g) \in Nat
  BY <1>1 DEF Base
<1>3. Base(g)' = Base(g)
  BY DEF Base, First
<1>4. Blocks(g)' = 0 /\ hoff'[g] = Blocks(g)' * Rate
  BY NoBlocks DEF Blocks
<1>5. LenOf(hin', g) \in Nat
  BY <1>1, AllTypes
<1>6. Owed' = SoFar(variant', hin', g, 2 * Blocks(g)')
  <2>1. 2 * Blocks(g)' = 0
    BY <1>4
  <2>2. SoFar(variant, hin', g, 0) = Before(variant, hin', g)
    BY <1>1, NothingYet
  <2> QED  BY <2>1, <2>2
<1>7. LoopInStep(g)'
  BY <1>1, <1>2, <1>3, <1>4, <1>5, <1>6 DEF LoopInStep
<1>8. Where' \in Base(g) .. (Base(g) + 2)
  BY <1>2
<1> QED  BY <1>7, <1>8, BusyInLoop

LEMMA StartStep ==
    ASSUME CoreInv, PermShare, HIdle(TRUE), UNCHANGED variant, NEW r \in HashVectors, hin' = r
    PROVE  CoreInv' /\ hst' = 1
<1>0. HashTyped /\ Shake /\ variant \in HashVariants
  BY DEF CoreInv, HashTyped
<1> DEFINE ret == IF variant.kind = "cxof" THEN 2 ELSE First - 3
<1>1. /\ hst = 0 /\ hdone' = FALSE /\ hs' = <<HashIV>> /\ hlen' = hin'
      /\ hoff' = [g \in Segments |-> 0] /\ digest' = digest /\ HPermute(2, ret)
  BY <1>0, Codes, Places DEF HIdle
<1>2. Vector(hin') /\ HashMax \in Nat
  BY HashAssumption DEF Vector, HashVectors
<1>3. hs' \in HashState
  BY <1>1, OperationTypes DEF HashState
<1>4. ret \in Nat
  BY <1>0, Places
<1> HIDE DEF ret
<1>5. /\ Shake' /\ Where' = ret /\ Owed' = Append(hs', PermOf(CodeRounds(2)))
      /\ hst' = 1 /\ hrounds' = 2
  BY <1>0, <1>1, <1>3, ShakeAsked
<1>6. Owed' = Opening
  <2>1. CodeRounds(2) = 12
    BY DEF CodeRounds
  <2>2. Append(<<HashIV>>, PermOf(12)) = <<HashIV, PermOf(12)>>
    BY OperationTypes, AppendPair
  <2> QED  BY <1>1, <1>5, <2>1, <2>2 DEF Opening
<1>7. \A h \in Segments : hlen'[h] = LenOf(hin', h)
  BY <1>1 DEF LenOf, Segments
<1>8. hlen' \in [Segments -> Nat] /\ hoff' \in [Segments -> Nat]
  <2>1. hlen' \in [Segments -> Nat]
    BY <1>1, <1>2, HashAssumption DEF HashVectors, Segments
  <2> QED  BY <1>1, <2>1
<1>9. HashTyped'
  <2>1. hstart' = TRUE /\ hret' = ret
    BY <1>1 DEF HPermute
  <2>2. variant' \in HashVariants /\ digest' \in [1..variant'.words -> HashState]
    <3>1. digest \in [1..variant.words -> HashState] /\ digest' = digest /\ variant' = variant
      BY <1>0, <1>1 DEF HashTyped
    <3> QED  BY <1>0, <3>1
  <2>4. hst' \in Nat /\ hrounds' \in 0..2 /\ hdone' \in BOOLEAN
    <3>1. hst' = 1 /\ hrounds' = 2
      BY <1>5
    <3>2. hdone' \in BOOLEAN
      BY <1>1
    <3>3. hst' \in Nat /\ hrounds' \in 0..2
      BY <3>1
    <3> QED  BY <3>2, <3>3
  <2>3. hin'.cust \in 0..HashMax /\ hin'.msg \in 0..HashMax
    BY <1>2 DEF Vector
  <2> QED  BY <1>3, <1>4, <1>8, <2>1, <2>2, <2>3, <2>4 DEF HashTyped
<1>10. Busy'
  <2>1. CASE variant.kind = "hash"
    <3>1. "msg" \in HSegs /\ ret = Base("msg") /\ variant.kind # "cxof"
      BY <1>0, <2>1, Places DEF ret
    <3>2. Opening \o <<>> = Opening
      BY <1>0, <1>2, BeforeTypes, ConcatEmptySeq DEF HashState
    <3>3. Before(variant, hin', "msg") = Opening
      BY <2>1, <3>2 DEF Before
    <3> QED  BY <1>0, <1>1, <1>2, <1>5, <1>6, <1>7, <3>1, <3>3, LoopBegins DEF Segments
  <2>2. CASE variant.kind = "cxof"
    <3>1. Where' = 2 /\ First' = 9 /\ \A g \in Segments : Base(g)' \in {3, 6}
      BY <1>5, <2>2 DEF ret, First, Base
    <3>2. \A g \in Segments : ~(Where' \in Base(g)' .. (Base(g)' + 2))
      BY <3>1
    <3>3. (\A g \in HSegs : LoopInStep(g))' /\ SqueezeInStep'
      BY <3>1, <3>2 DEF LoopInStep, SqueezeInStep, HSegs, Segments
    <3>4. Where' \in 2 .. (First + variant.words - 1)'
      BY <1>0, <3>1, VariantTypes
    <3> QED  BY <1>1, <1>5, <1>6, <1>7, <3>3, <3>4 DEF Busy, Segments
  <2> QED  BY <1>0, <2>1, <2>2, Places
<1> QED  BY <1>1, <1>5, <1>9, <1>10 DEF CoreInv

LEMMA HCxLenStep ==
    ASSUME CoreInv, PermShare, HCxLen, UNCHANGED <<variant, hin>>
    PROVE  CoreInv'
<1>1. /\ variant.kind = "cxof" /\ hst = 2 /\ hs' = Append(hs, LengthWord(hin.cust))
      /\ HPermute(hrounds, 3) /\ UNCHANGED <<hoff, hlen, digest, hdone>>
      /\ variant \in HashVariants
  <2>1. variant \in HashVariants
    BY DEF CoreInv, HashTyped
  <2>2. variant.kind = "cxof" => "cust" \in HSegs /\ Base("cust") = 3
    BY <2>1, Places
  <2> QED  BY <2>1, <2>2, Codes DEF HCxLen
<1>2. Where = hst /\ Owed = hs /\ Busy /\ HashTyped /\ Shake /\ Vector(hin) /\ hs \in HashState
  BY <1>1, AtWork
<1>3. hs = Opening /\ hoff["cust"] = 0 /\ hoff["msg"] = 0 /\ hrounds = 2 /\ ~hdone
      /\ \A g \in Segments : hlen[g] = LenOf(hin, g)
  BY <1>1, <1>2 DEF Busy
<1>4. LengthWord(hin.cust) \in HashOperation /\ PermOf(12) \in HashOperation
  BY <1>2, HashAssumption, OperationTypes DEF Vector
<1>5. hs' \in HashState
  BY <1>1, <1>2, <1>4, AppendProperties DEF HashState
<1>6. /\ Shake' /\ Where' = 3 /\ Owed' = Append(hs', PermOf(12)) /\ hst' = 1 /\ hrounds' = 2
  BY <1>1, <1>2, <1>3, <1>5, ShakeAsked DEF CodeRounds
<1>7. Owed' = Before(variant, hin, "cust")
  <2>1. <<LengthWord(hin.cust)>> \in HashState
    BY <1>4 DEF HashState
  <2>2. hs' = Opening \o <<LengthWord(hin.cust)>>
    BY <1>1, <1>2, <1>3, <1>4, AppendIsConcat DEF HashState
  <2>3. Append(Opening \o <<LengthWord(hin.cust)>>, PermOf(12))
           = Opening \o Append(<<LengthWord(hin.cust)>>, PermOf(12))
    BY <1>2, <1>3, <1>4, <2>1, AppendBehind
  <2>4. Append(<<LengthWord(hin.cust)>>, PermOf(12)) = Custom(hin)
    BY <1>4, AppendPair DEF Custom
  <2> QED  BY <1>6, <2>2, <2>3, <2>4 DEF Before
<1>8. Busy'
  <2>1. "cust" \in HSegs /\ Base("cust") = 3
    BY <1>1, Places
  <2> QED  BY <1>1, <1>2, <1>3, <1>6, <1>7, <2>1, LoopBegins
<1>9. HashTyped'
  <2>1. hstart' = TRUE /\ hret' = 3
    BY <1>1 DEF HPermute
  <2> QED  BY <1>1, <1>2, <1>5, <1>6, <2>1 DEF HashTyped
<1> QED  BY <1>1, <1>3, <1>6, <1>8, <1>9 DEF CoreInv


\* Inside the loop over a segment: its first, second or third state.
LEMMA InLoop ==
    ASSUME CoreInv, NEW g \in HSegs, NEW k \in 0..2, hst = Base(g) + k
    PROVE  /\ variant \in HashVariants /\ g \in Segments /\ Base(g) \in 2..6
           /\ hst # 0 /\ hst # 1
           /\ hs = SoFar(variant, hin, g, 2 * Blocks(g)) /\ hs \in HashState
           /\ Blocks(g) \in Nat /\ hoff[g] = Blocks(g) * Rate /\ hoff[g] \in Nat
           /\ hlen[g] \in Nat /\ hoff[g] <= hlen[g] /\ HRem(g) \in Nat
           /\ k = 1 => HRem(g) >= Rate
           /\ k = 2 => HRem(g) < Rate
           /\ g = "cust" => hoff["msg"] = 0
           /\ \A h \in Segments : hlen[h] = LenOf(hin, h)
           /\ variant.kind = "cxof" => hrounds = 2
           /\ ~hdone
<1>1. variant \in HashVariants
  BY DEF CoreInv, HashTyped
<1>2. g \in Segments /\ Base(g) \in 2..6
  BY <1>1, Places DEF Base, Segments
<1>3. hst # 0 /\ hst # 1
  BY <1>2
<1>4. Where = hst /\ Owed = hs /\ Busy /\ HashTyped /\ hs \in HashState
  BY <1>3, AtWork
<1>5. Where \in Base(g) .. (Base(g) + 2) /\ (Where = Base(g) + 1 <=> k = 1)
      /\ (Where = Base(g) + 2 <=> k = 2)
  BY <1>2, <1>4
<1>6. LoopInStep(g)
  BY <1>4 DEF Busy
<1>7. /\ hs = SoFar(variant, hin, g, 2 * Blocks(g))
      /\ hoff[g] = Blocks(g) * Rate /\ hoff[g] <= hlen[g]
      /\ k = 1 => hlen[g] - hoff[g] >= Rate
      /\ k = 2 => hlen[g] - hoff[g] < Rate
      /\ g = "cust" => hoff["msg"] = 0
  BY <1>4, <1>5, <1>6 DEF LoopInStep
<1>8. hoff[g] \in Nat /\ hlen[g] \in Nat
  BY <1>2, <1>4 DEF HashTyped
<1>9. Blocks(g) \in Nat
  BY <1>8, DivideBlocks DEF Blocks
<1>10. HRem(g) = hlen[g] - hoff[g] /\ HRem(g) \in Nat
  BY <1>7, <1>8 DEF HRem
<1> QED  BY <1>1, <1>2, <1>3, <1>4, <1>7, <1>8, <1>9, <1>10 DEF Busy

LEMMA HDecideStep ==
    ASSUME CoreInv, PermShare, NEW g \in Segments, HDecide(g), UNCHANGED <<variant, hin>>
    PROVE  CoreInv'
<1> DEFINE x == IF HRem(g) >= Rate THEN Base(g) + 1 ELSE Base(g) + 2
<1>0. HashTyped /\ Shake /\ variant \in HashVariants
  BY DEF CoreInv, HashTyped
<1>1. /\ g \in HSegs /\ hst = Base(g) /\ HGoto(x)
      /\ UNCHANGED <<hs, hoff, hlen, digest, hdone>>
  BY <1>0, Codes DEF HDecide
<1>2. /\ Base(g) \in 2..6 /\ hst # 1 /\ hst # 0
      /\ hs = SoFar(variant, hin, g, 2 * Blocks(g)) /\ hs \in HashState
      /\ hoff[g] = Blocks(g) * Rate /\ hoff[g] <= hlen[g] /\ HRem(g) \in Nat
      /\ g = "cust" => hoff["msg"] = 0
      /\ \A h \in Segments : hlen[h] = LenOf(hin, h)
      /\ variant.kind = "cxof" => hrounds = 2
      /\ ~hdone
  <2>1. hst = Base(g) + 0
    <3>1. Base(g) \in Nat
      BY <1>0, Places DEF Base
    <3> QED  BY <1>1, <3>1
  <2> QED  BY <1>1, <2>1, InLoop
<1>3. x \in Nat /\ x # 1 /\ x # 0
  BY <1>2
<1>4. Shake' /\ Where' = x /\ Owed' = hs' /\ hst' = x
  BY <1>0, <1>1, <1>2, <1>3, ShakeGone
<1>5. Blocks(g)' = Blocks(g) /\ Base(g)' = Base(g) /\ HRem(g)' = HRem(g)
  BY <1>1 DEF Blocks, Base, First, HRem
<1>6. x = Base(g) + 1 => HRem(g) >= Rate
  BY <1>2
<1>7. x = Base(g) + 2 => HRem(g) < Rate
  BY <1>2, RateAssumption
<1>8. LoopInStep(g)'
  <2>1. Owed' = SoFar(variant', hin', g, 2 * Blocks(g)')
    BY <1>1, <1>2, <1>4, <1>5
  <2>2. hoff'[g] = Blocks(g)' * Rate /\ hoff'[g] <= hlen'[g] /\ (g = "cust" => hoff'["msg"] = 0)
    BY <1>1, <1>2, <1>5
  <2>3. HRem(g) = hlen'[g] - hoff'[g]
    BY <1>1 DEF HRem
  <2>4. (x = Base(g)' + 1 => hlen'[g] - hoff'[g] >= Rate)
        /\ (x = Base(g)' + 2 => hlen'[g] - hoff'[g] < Rate)
    BY <1>5, <1>6, <1>7, <2>3
  <2> HIDE DEF x
  <2> QED  BY <1>4, <2>1, <2>2, <2>4 DEF LoopInStep
<1>9. Busy'
  <2>1. x \in Base(g) .. (Base(g) + 2)
    BY <1>2
  <2>2. \A h \in Segments : hlen'[h] = LenOf(hin', h)
    BY <1>1, <1>2
  <2>3. variant.kind = "cxof" => hrounds' = 2
    BY <1>1, <1>2 DEF HGoto
  <2> HIDE DEF x
  <2> QED  BY <1>0, <1>1, <1>2, <1>4, <1>8, <2>1, <2>2, <2>3, BusyInLoop
<1>10. HashTyped'
  <2>1. hstart' = FALSE /\ hret' = hret /\ hrounds' = hrounds
    BY <1>1 DEF HGoto
  <2> HIDE DEF x
  <2> QED  BY <1>0, <1>1, <1>3, <1>4, <2>1 DEF HashTyped
<1> QED  BY <1>1, <1>2, <1>4, <1>9, <1>10 DEF CoreInv

\* The rounds between the blocks of a segment, as perm_rounds codes them.
LEMMA DataRounds ==
    ASSUME variant \in HashVariants, NEW g \in HSegs, variant.kind = "cxof" => hrounds = 2
    PROVE  LET code == IF variant.kind = "cxof" THEN hrounds ELSE DataCode
           IN  /\ code \in 0..2 /\ CodeRounds(code) = Rounds(variant, g)
               /\ variant.kind = "cxof" => code = 2
<1>1. CASE variant.kind = "cxof"
  BY <1>1, VariantTypes DEF CodeRounds, Rounds
<1>2. CASE variant.kind = "hash"
  <2>1. g = "msg"
    BY <1>2, Places
  <2> QED  BY <1>2, <2>1, VariantTypes DEF CodeRounds, Rounds, DataCode
<1> QED  BY <1>1, <1>2, VariantTypes

LEMMA HFullStep ==
    ASSUME CoreInv, PermShare, NEW g \in Segments, HFull(g), UNCHANGED <<variant, hin>>
    PROVE  CoreInv'
<1> DEFINE code == IF variant.kind = "cxof" THEN hrounds ELSE DataCode
           q == Blocks(g)
<1>0. HashTyped /\ Shake /\ variant \in HashVariants /\ Vector(hin)
  BY DEF CoreInv, HashTyped, Vector
<1>1. /\ g \in HSegs /\ hst = Base(g) + 1
      /\ hs' = Append(hs, HashBlock(g, hoff[g], Rate))
      /\ hoff' = [hoff EXCEPT ![g] = @ + Rate]
      /\ HPermute(code, Base(g)) /\ UNCHANGED <<hlen, digest, hdone>>
  BY <1>0, Codes DEF HFull
<1>2. /\ Base(g) \in 2..6 /\ hst # 1 /\ hst # 0
      /\ hs = SoFar(variant, hin, g, 2 * q) /\ hs \in HashState
      /\ q \in Nat /\ hoff[g] = q * Rate /\ hoff[g] \in Nat /\ hlen[g] \in Nat
      /\ hoff[g] <= hlen[g] /\ HRem(g) >= Rate
      /\ g = "cust" => hoff["msg"] = 0
      /\ \A h \in Segments : hlen[h] = LenOf(hin, h)
      /\ variant.kind = "cxof" => hrounds = 2
      /\ ~hdone
  BY <1>1, InLoop
<1>3. /\ code \in 0..2 /\ CodeRounds(code) = Rounds(variant, g)
      /\ variant.kind = "cxof" => code = 2
  BY <1>0, <1>1, <1>2, DataRounds
<1> HIDE DEF code, q
<1>4. hs' \in HashState
  <2>1. HashBlock(g, hoff[g], Rate) \in HashOperation
    BY <1>2, RateAssumption, OperationTypes
  <2> QED  BY <1>1, <1>2, <2>1, AppendProperties DEF HashState
<1>5. /\ Shake' /\ Where' = Base(g) /\ Owed' = Append(hs', PermOf(Rounds(variant, g)))
      /\ hst' = 1 /\ hrounds' = code
  BY <1>0, <1>1, <1>2, <1>3, <1>4, ShakeAsked
<1>6. LenOf(hin, g) - q * Rate >= Rate
  BY <1>2 DEF HRem
<1>7. Owed' = SoFar(variant, hin, g, 2 * (q + 1))
  <2>1. AndBlock(SoFar(variant, hin, g, 2 * q), g, q * Rate, Rate, Rounds(variant, g))
           = SoFar(variant, hin, g, 2 * (q + 1))
    BY <1>0, <1>2, <1>6, FullGrows
  <2> QED  BY <1>1, <1>2, <1>5, <2>1 DEF AndBlock
<1>8. hoff'[g] = q * Rate + Rate /\ hoff' \in [Segments -> Nat]
      /\ (g = "cust" => hoff'["msg"] = 0)
  <2>1. hoff \in [Segments -> Nat] /\ "msg" \in Segments
    BY <1>0 DEF HashTyped, Segments
  <2>2. hoff'[g] = hoff[g] + Rate /\ (g # "msg" => hoff'["msg"] = hoff["msg"])
    BY <1>1, <2>1
  <2>3. hoff[g] + Rate \in Nat
    BY <1>2, RateAssumption
  <2>4. hoff' \in [Segments -> Nat]
    BY <1>1, <2>1, <2>3
  <2> QED  BY <1>2, <2>2, <2>4
<1>9. Blocks(g)' = q + 1 /\ hoff'[g] = (q + 1) * Rate
  BY <1>2, <1>8, OneMoreBlock DEF Blocks
<1>10. hoff'[g] <= hlen'[g]
  <2>1. q * Rate \in Nat /\ Rate \in Nat
    BY <1>2, NextOffset, RateAssumption
  <2>2. hlen'[g] - q * Rate >= Rate /\ hlen'[g] \in Nat
    BY <1>1, <1>2, <1>6
  <2> QED  BY <1>8, <2>1, <2>2
<1>11. LoopInStep(g)'
  <2>1. Base(g)' = Base(g) /\ Base(g) \in Nat
    BY <1>1, <1>2 DEF Base, First
  <2>2. Where' # Base(g)' + 1 /\ Where' # Base(g)' + 2
    BY <1>5, <2>1
  <2>3. Owed' = SoFar(variant', hin', g, 2 * Blocks(g)')
    BY <1>7, <1>9
  <2> QED  BY <1>8, <1>9, <1>10, <2>2, <2>3 DEF LoopInStep
<1>12. Busy'
  <2>1. Where' \in Base(g) .. (Base(g) + 2)
    BY <1>2, <1>5
  <2>2. (\A h \in Segments : hlen'[h] = LenOf(hin', h)) /\ ~hdone'
    BY <1>1, <1>2
  <2>3. variant.kind = "cxof" => hrounds' = 2
    BY <1>3, <1>5
  <2> QED  BY <1>0, <1>1, <1>11, <2>1, <2>2, <2>3, BusyInLoop
<1>13. HashTyped'
  <2>1. hstart' = TRUE /\ hret' = Base(g) /\ Base(g) \in Nat
    BY <1>1, <1>2 DEF HPermute
  <2> QED  BY <1>0, <1>1, <1>3, <1>4, <1>5, <1>8, <2>1 DEF HashTyped
<1> QED  BY <1>1, <1>2, <1>5, <1>12, <1>13 DEF CoreInv

LEMMA HPadStep ==
    ASSUME SqueezeFits, CoreInv, PermShare, NEW g \in Segments, HPad(g), UNCHANGED <<variant, hin>>
    PROVE  CoreInv'
<1> DEFINE code == IF variant.kind = "cxof" THEN hrounds ELSE 2
           ret == IF g = "cust" THEN Base("msg") ELSE First
           q == Blocks(g)
<1>0. HashTyped /\ Shake /\ variant \in HashVariants /\ Vector(hin)
  BY DEF CoreInv, HashTyped, Vector
<1>1. /\ g \in HSegs /\ hst = Base(g) + 2
      /\ hs' = Append(hs, HashBlock(g, hoff[g], HRem(g)))
      /\ HPermute(code, ret) /\ UNCHANGED <<hoff, hlen, digest, hdone>>
  <2>1. SQ(0) = First
    <3>1. 0 \in 0 .. (variant.words - 1) /\ First + 0 = First
      BY <1>0, VariantTypes, Places
    <3> QED  BY <1>0, <3>1, SqueezeCode
  <2> QED  BY <1>0, <2>1, Codes DEF HPad
<1>2. /\ Base(g) \in 2..6 /\ hst # 1 /\ hst # 0
      /\ hs = SoFar(variant, hin, g, 2 * q) /\ hs \in HashState
      /\ q \in Nat /\ hoff[g] = q * Rate /\ hoff[g] \in Nat /\ hlen[g] \in Nat
      /\ hoff[g] <= hlen[g] /\ HRem(g) < Rate /\ HRem(g) \in Nat
      /\ g = "cust" => hoff["msg"] = 0
      /\ \A h \in Segments : hlen[h] = LenOf(hin, h)
      /\ variant.kind = "cxof" => hrounds = 2
      /\ ~hdone
  BY <1>1, InLoop
<1>3. /\ code = 2 /\ CodeRounds(code) = 12 /\ ret \in Nat
  <2>1. code = 2
    BY <1>2
  <2>2. First \in Nat /\ Base("msg") \in Nat
    BY <1>0, Places
  <2> QED  BY <2>1, <2>2 DEF CodeRounds
<1> HIDE DEF code, q, ret
<1>4. hs' \in HashState
  <2>1. HashBlock(g, hoff[g], HRem(g)) \in HashOperation
    BY <1>2, OperationTypes
  <2> QED  BY <1>1, <1>2, <2>1, AppendProperties DEF HashState
<1>5. /\ Shake' /\ Where' = ret /\ Owed' = Append(hs', PermOf(12))
      /\ hst' = 1 /\ hrounds' = 2
  <2>1. code \in 0..2
    BY <1>3
  <2> QED  BY <1>0, <1>1, <1>2, <1>3, <1>4, <2>1, ShakeAsked
<1>6. Owed' = Before(variant, hin, g) \o All(variant, hin, g)
  <2>1. HRem(g) = LenOf(hin, g) - q * Rate /\ q * Rate <= LenOf(hin, g)
    BY <1>2 DEF HRem
  <2>2. AndBlock(SoFar(variant, hin, g, 2 * q), g, q * Rate, LenOf(hin, g) - q * Rate, 12)
           = Before(variant, hin, g) \o All(variant, hin, g)
    BY <1>0, <1>2, <2>1, LastGrows
  <2> QED  BY <1>1, <1>2, <1>5, <2>1, <2>2 DEF AndBlock
<1>7. /\ \A h \in Segments : hlen'[h] = LenOf(hin', h)
      /\ variant.kind = "cxof" => hrounds' = 2
      /\ ~hdone'
  BY <1>1, <1>2, <1>5
<1>8. Busy'
  <2>1. CASE g = "cust"
    <3>1. variant.kind = "cxof" /\ "msg" \in HSegs
      BY <1>0, <1>1, <2>1, Places
    <3>2. Owed' = Before(variant, hin', "msg")
      BY <1>0, <1>6, <2>1, <3>1, SegmentEnds
    <3>3. Where' = Base("msg") /\ hoff'["msg"] = 0 /\ Vector(hin')
      BY <1>0, <1>1, <1>2, <1>5, <2>1 DEF ret
    <3> QED  BY <1>0, <1>7, <3>1, <3>2, <3>3, LoopBegins
  <2>2. CASE g = "msg"
    <3>1. Owed' = Squeezed(variant, hin', 0)
      BY <1>0, <1>6, <2>2, SegmentEnds
    <3>2. Where' = First + 0 /\ 0 \in 0 .. (variant.words - 1)
      BY <1>0, <1>5, <2>2, Places, VariantTypes DEF ret
    <3>3. \A j \in 1..0 : digest'[j] = Squeezed(variant, hin', j - 1)
      OBVIOUS
    <3> QED  BY <1>0, <1>7, <3>1, <3>2, <3>3, BusySqueezing
  <2> QED  BY <2>1, <2>2 DEF Segments
<1>9. HashTyped'
  <2>1. hstart' = TRUE /\ hret' = ret
    BY <1>1 DEF HPermute
  <2> QED  BY <1>0, <1>1, <1>3, <1>4, <1>5, <2>1 DEF HashTyped
<1> QED  BY <1>5, <1>7, <1>8, <1>9 DEF CoreInv

\* In a squeeze state.
LEMMA InSqueeze ==
    ASSUME CoreInv, hst >= First, NEW i, i = hst - First
    PROVE  /\ i \in 0 .. (variant.words - 1) /\ hst # 0 /\ hst # 1
           /\ hs = Squeezed(variant, hin, i)
           /\ \A j \in 1..i : digest[j] = Squeezed(variant, hin, j - 1)
           /\ \A h \in Segments : hlen[h] = LenOf(hin, h)
           /\ variant.kind = "cxof" => hrounds = 2
           /\ ~hdone
<1>1. variant \in HashVariants /\ hst \in Nat
  BY DEF CoreInv, HashTyped
<1>2. First \in {5, 9} /\ variant.words \in Nat \ {0}
  BY <1>1, Places, VariantTypes
<1>3. hst # 0 /\ hst # 1
  BY <1>1, <1>2
<1>4. Where = hst /\ Owed = hs /\ Busy
  BY <1>3, AtWork
<1>5. i \in 0 .. (variant.words - 1)
  <2>1. hst \in 2 .. (First + variant.words - 1)
    BY <1>4 DEF Busy
  <2> QED  BY <1>1, <1>2, <2>1
<1> QED  BY <1>3, <1>4, <1>5 DEF Busy, SqueezeInStep

LEMMA HSqueezeStep ==
    ASSUME SqueezeFits, CoreInv, PermShare, HSqueeze, UNCHANGED <<variant, hin>>
    PROVE  CoreInv'
<1> DEFINE i == hst - First
           n == variant.words
<1>0. HashTyped /\ Shake /\ variant \in HashVariants /\ Vector(hin)
  BY DEF CoreInv, HashTyped, Vector
<1>1. /\ hst >= First /\ digest' = [digest EXCEPT ![i + 1] = hs]
      /\ IF i = n - 1 THEN hdone' = TRUE /\ HGoto(0)
                      ELSE HPermute(DataCode, SQ(i + 1)) /\ UNCHANGED hdone
      /\ UNCHANGED <<hs, hoff, hlen>>
  BY <1>0, Codes DEF HSqueeze, SqWord
<1>2. n \in Nat \ {0} /\ First \in {5, 9}
  BY <1>0, VariantTypes, Places
<1>3. /\ i \in 0 .. (n - 1) /\ hst # 0 /\ hst # 1
      /\ hs = Squeezed(variant, hin, i)
      /\ \A j \in 1..i : digest[j] = Squeezed(variant, hin, j - 1)
      /\ \A h \in Segments : hlen[h] = LenOf(hin, h)
      /\ variant.kind = "cxof" => hrounds = 2
      /\ ~hdone
  BY <1>1, InSqueeze
<1> HIDE DEF i, n
<1>4. i \in Nat /\ i + 1 \in 1..n
  BY <1>2, <1>3
<1>5. hs \in HashState /\ digest \in [1..n -> HashState]
  BY <1>0 DEF HashTyped, n
<1>6. digest' \in [1..n -> HashState]
  BY <1>1, <1>5
<1>7. \A j \in 1 .. (i + 1) : digest'[j] = Squeezed(variant, hin, j - 1)
  <2> SUFFICES ASSUME NEW j \in 1 .. (i + 1) PROVE digest'[j] = Squeezed(variant, hin, j - 1)
    OBVIOUS
  <2>1. j \in 1..n
    BY <1>2, <1>4
  <2>2. CASE j = i + 1
    <3>1. digest'[j] = hs /\ j - 1 = i
      BY <1>1, <1>4, <1>5, <2>1, <2>2
    <3> QED  BY <1>3, <3>1
  <2>3. CASE j # i + 1
    <3>1. j \in 1..i
      BY <1>4, <2>3
    <3>2. digest'[j] = digest[j]
      BY <1>1, <1>5, <2>1, <2>3
    <3> QED  BY <1>3, <3>1, <3>2
  <2> QED  BY <2>2, <2>3
<1>8. CASE i = n - 1
  <2>1. hdone' = TRUE /\ HGoto(0)
    BY <1>1, <1>8
  <2>2. Shake' /\ hst' = 0
    BY <1>0, <1>3, <2>1, ShakeGone
  <2>3. hstart' = FALSE /\ hret' = hret /\ hrounds' = hrounds
    BY <2>1 DEF HGoto
  <2>4. HashTyped'
    BY <1>0, <1>1, <1>6, <2>1, <2>2, <2>3 DEF HashTyped, n
  <2>5. GoldenDigest(variant, hin) = [j \in 1..n |-> Squeezed(variant, hin, j - 1)]
    BY DEF GoldenDigest, Squeezed, n
  <2>6. \A j \in 1..n : digest'[j] = Squeezed(variant, hin, j - 1)
    <3>1. i + 1 = n
      BY <1>2, <1>8
    <3> QED  BY <1>7, <3>1
  <2>7. digest' = GoldenDigest(variant, hin)
    <3> DEFINE sq(j) == Squeezed(variant, hin, j - 1)
    <3>1. digest' = [j \in 1..n |-> digest'[j]]
      BY <1>6
    <3>2. \A j \in 1..n : digest'[j] = sq(j)
      BY <2>6
    <3> HIDE DEF sq
    <3>3. digest' = [j \in 1..n |-> sq(j)]
      BY <3>1, <3>2
    <3> QED  BY <2>5, <3>3 DEF sq
  <2> QED  BY <2>2, <2>4, <2>7 DEF CoreInv
<1>9. CASE i # n - 1
  <2>1. i + 1 \in 0 .. (n - 1) /\ First + (i + 1) \in Nat
    BY <1>2, <1>3, <1>9
  <2>2. SQ(i + 1) = First + (i + 1)
    BY <1>0, <2>1, SqueezeCode DEF n
  <2>3. HPermute(DataCode, First + (i + 1)) /\ hdone' = hdone /\ hs' = hs
    BY <1>1, <1>9, <2>2
  <2>4. DataCode \in 0..2 /\ CodeRounds(DataCode) = variant.b
        /\ (variant.kind = "cxof" => DataCode = 2)
    BY <1>0, VariantTypes DEF DataCode, CodeRounds
  <2>5. /\ Shake' /\ Where' = First + (i + 1) /\ Owed' = Append(hs, PermOf(variant.b))
        /\ hst' = 1 /\ hrounds' = DataCode
    BY <1>0, <1>3, <1>5, <2>3, <2>4, ShakeAsked
  <2>6. Owed' = Squeezed(variant, hin', i + 1)
    BY <1>0, <1>3, <1>4, <2>5, SqueezeGrows
  <2>7. Busy'
    <3>1. (\A h \in Segments : hlen'[h] = LenOf(hin', h)) /\ ~hdone'
      BY <1>1, <1>3, <2>3
    <3>2. variant.kind = "cxof" => hrounds' = 2
      BY <2>4, <2>5
    <3>3. \A j \in 1 .. (i + 1) : digest'[j] = Squeezed(variant, hin', j - 1)
      BY <1>7
    <3> QED  BY <1>0, <2>1, <2>5, <2>6, <3>1, <3>2, <3>3, BusySqueezing DEF n
  <2>8. HashTyped'
    <3>1. hstart' = TRUE /\ hret' = First + (i + 1)
      BY <2>3 DEF HPermute
    <3>2. digest' \in [1..variant'.words -> HashState]
      BY <1>6 DEF n
    <3> QED  BY <1>0, <1>1, <1>5, <2>1, <2>3, <2>4, <2>5, <3>1, <3>2 DEF HashTyped
  <2> QED  BY <1>3, <2>3, <2>5, <2>7, <2>8 DEF CoreInv
<1> QED  BY <1>8, <1>9

\* A clock edge without a start.
LEMMA EdgeStep ==
    ASSUME SqueezeFits, CoreInv, HashEdge(FALSE), PermShare, UNCHANGED <<variant, hin>>
    PROVE  CoreInv'
<1>1. CASE HIdle(FALSE)
  BY <1>1, HIdleStep
<1>2. CASE HPerm
  BY <1>2, HPermStep
<1>3. CASE HCxLen
  BY <1>3, HCxLenStep
<1>4. CASE HSqueeze
  BY <1>4, HSqueezeStep
<1>5. CASE \E g \in Segments : HDecide(g) \/ HFull(g) \/ HPad(g)
  BY <1>5, HDecideStep, HFullStep, HPadStep
<1> QED  BY <1>1, <1>2, <1>3, <1>4, <1>5 DEF HashEdge

-----------------------------------------------------------------------------
(* The core with its testbench.                                            *)

LEMMA HashInvInit == ASSUME HashInit PROVE HashInv
<1>1. HashTyped
  <2>1. HashMax \in Nat /\ variant \in HashVariants
    BY HashAssumption DEF HashInit
  <2>2. <<>> \in HashState
    BY DEF HashState
  <2>3. digest = [i \in 1..variant.words |-> <<>>] /\ hs = <<>>
    BY DEF HashInit
  <2>4. digest \in [1..variant.words -> HashState] /\ hs \in HashState
    BY <2>2, <2>3
  <2>5. hin.cust \in 0..HashMax /\ hin.msg \in 0..HashMax
    BY <2>1 DEF HashInit
  <2>6. hoff \in [Segments -> Nat] /\ hlen \in [Segments -> Nat]
    BY DEF HashInit
  <2>7. hst \in Nat /\ hret \in Nat /\ hrounds \in 0..2
    BY DEF HashInit
  <2>8. hstart \in BOOLEAN /\ hdone \in BOOLEAN
    BY DEF HashInit
  <2> QED  BY <2>1, <2>4, <2>5, <2>6, <2>7, <2>8 DEF HashTyped
<1>2. Shake
  BY DEF HashInit, Shake
<1> QED  BY <1>1, <1>2 DEF HashInit, HashInv, CoreInv

\* An idle core does what S_IDLE does.
LEMMA OnlyIdle ==
    ASSUME variant \in HashVariants, hst = 0, NEW start, HashEdge(start)
    PROVE  HIdle(start)
<1>1. FirstSq \in {5, 9} /\ \A g \in HSegs : Base(g) \in 2..6
  BY Codes, Places DEF Base
<1>2. ~HPerm /\ ~HCxLen /\ ~HSqueeze
  BY <1>1, Codes DEF HPerm, HCxLen, HSqueeze
<1>3. ASSUME NEW g \in Segments PROVE ~HDecide(g) /\ ~HFull(g) /\ ~HPad(g)
  <2>1. g \in HSegs => S(<<"DECIDE", g>>) # 0 /\ S(<<"FULL", g>>) # 0 /\ S(<<"PAD", g>>) # 0
    BY <1>1, Codes
  <2> QED  BY <2>1 DEF HDecide, HFull, HPad
<1> QED  BY <1>2, <1>3 DEF HashEdge

\* The start is given in "present", where the core is idle.
LEMMA HashStartKeeps ==
    ASSUME HashInv, NEW r \in HashVectors, HashStart(r)
    PROVE  HashInv'
<1>1. /\ hphase = "present" /\ hin' = r /\ hphase' = "wait" /\ HashEdge(TRUE) /\ PermShare
      /\ UNCHANGED variant
  BY DEF HashStart
<1>2. CoreInv /\ hst = 0 /\ variant \in HashVariants
  BY <1>1 DEF HashInv, CoreInv, HashTyped
<1>3. HIdle(TRUE)
  BY <1>1, <1>2, OnlyIdle
<1>4. CoreInv'
  BY <1>1, <1>2, <1>3, StartStep
<1> QED  BY <1>1, <1>4 DEF HashInv

LEMMA CoreRests ==
    ASSUME CoreInv, UNCHANGED <<variant, hregs, working, answer, hin>>
    PROVE  CoreInv'
BY DEF CoreInv, HashTyped, Shake, Busy, LoopInStep, SqueezeInStep, Where, Owed, Blocks, Base,
       First, HSegs, hregs, PermutedState, GoldenDigest

LEMMA HashInvStep ==
    ASSUME SqueezeFits, HashInv, [HashNext]_hashVars
    PROVE  HashInv'
<1>1. ASSUME NEW r \in HashVectors, HashStart(r) PROVE HashInv'
  BY <1>1, HashStartKeeps
<1>2. CASE HashWait
  <2>1. hphase' = "wait" /\ HashEdge(FALSE) /\ PermShare /\ UNCHANGED <<variant, hin>>
    BY <1>2 DEF HashWait
  <2>2. CoreInv'
    BY <2>1, EdgeStep DEF HashInv
  <2> QED  BY <2>1, <2>2 DEF HashInv
<1>3. CASE HashCheck
  <2>1. /\ hphase' = "present" /\ hdone /\ HashEdge(FALSE) /\ PermShare
        /\ UNCHANGED <<variant, hin>>
    BY <1>3 DEF HashCheck
  <2>2. CoreInv' /\ variant \in HashVariants /\ hst = 0
    BY <2>1, EdgeStep DEF HashInv, CoreInv, Busy, HashTyped
  <2>3. hst' = 0
    <3>1. HIdle(FALSE)
      BY <2>1, <2>2, OnlyIdle
    <3> QED  BY <2>2, <3>1, Codes DEF HIdle, HGoto
  <2> QED  BY <2>1, <2>2, <2>3 DEF HashInv
<1>4. CASE HashFinish
  <2>1. hphase = "present" /\ hphase' = "end" /\ UNCHANGED <<variant, hregs, working, answer, hin>>
    BY <1>4 DEF HashFinish
  <2>2. CoreInv'
    BY <2>1, CoreRests DEF HashInv
  <2> QED  BY <2>1, <2>2 DEF HashInv, hregs
<1>5. CASE UNCHANGED hashVars
  <2>1. UNCHANGED <<variant, hregs, working, answer, hin, hphase>>
    BY <1>5 DEF hashVars
  <2>2. CoreInv'
    BY <2>1, CoreRests DEF HashInv
  <2> QED  BY <2>1, <2>2 DEF HashInv, hregs
<1> QED  BY <1>1, <1>2, <1>3, <1>4, <1>5 DEF HashNext, HashRun

\* DigestIsGolden: a core that raises done_o has squeezed the golden digest of
\* the vector it was started with, whatever the lengths, the number of words,
\* the block size and the latency of the permutation, as long as its squeeze
\* states have encodings of their own.
THEOREM DigestsGolden == SqueezeFits => (HashSpec => []DigestIsGolden)
<1> SUFFICES ASSUME SqueezeFits PROVE HashSpec => []DigestIsGolden
  OBVIOUS
<1>1. HashInit => HashInv
  BY HashInvInit
<1>2. HashInv /\ [HashNext]_hashVars => HashInv'
  BY HashInvStep
<1>3. HashInv => DigestIsGolden
  BY DEF HashInv, CoreInv, DigestIsGolden
<1> QED  BY <1>1, <1>2, <1>3, PTL DEF HashSpec

-----------------------------------------------------------------------------
(* What the registers hold, and what the testbench reports.                *)

Bounded ==
    /\ hst \in 0..31 /\ hret \in 0..31
    /\ hoff \in [Segments -> 0..HashMax] /\ hlen \in [Segments -> 0..HashMax]

BenchInv ==
    /\ HashInv /\ Bounded
    /\ herr = 0 /\ htrial \in 0..HashTrials
    /\ hphase = "wait" => htrial < HashTrials
    /\ hphase = "end" => htrial = HashTrials

LEMMA CodeRange ==
    ASSUME variant \in HashVariants
    PROVE  /\ FirstSq \in 0..31 /\ \A g \in HSegs : Base(g) \in 2..6
           /\ \A i \in Nat : SQ(i) \in 0..31
<1>1. FirstSq \in {5, 9} /\ \A g \in HSegs : Base(g) \in 2..6
  BY Codes, Places DEF Base
<1>2. ASSUME NEW i \in Nat PROVE SQ(i) \in 0..31
  <2>1. FirstSq + i \in Nat
    BY <1>1
  <2>2. SQ(i) = (FirstSq + i) % 16 \/ SQ(i) = (FirstSq + i) % 32
    BY DEF SQ, StateWidth
  <2> QED  BY <2>1, <2>2
<1> QED  BY <1>1, <1>2

\* An edge stores states, lengths and offsets that fit.
LEMMA EdgeBounded ==
    ASSUME SqueezeFits, CoreInv, Bounded, NEW start \in BOOLEAN, HashEdge(start),
           start => hin' \in HashVectors
    PROVE  Bounded'
<1>0. variant \in HashVariants /\ HashMax \in Nat /\ hst \in Nat
  BY HashAssumption DEF CoreInv, HashTyped
<1>1. CASE HIdle(start)
  <2>1. CASE start
    <3>1. hlen' = hin' /\ hoff' = [g \in Segments |-> 0]
      BY <1>1, <2>1 DEF HIdle
    <3>2. hlen' \in [Segments -> 0..HashMax] /\ hoff' \in [Segments -> 0..HashMax]
      BY <1>0, <2>1, <3>1 DEF HashVectors, Segments
    <3>3. hst' = 1 /\ (hret' = 2 \/ hret' = Base("msg"))
      BY <1>0, <1>1, <2>1, Codes DEF HIdle, HPermute
    <3>4. Base("msg") \in 2..6
      BY <1>0, Places
    <3> QED  BY <3>2, <3>3, <3>4 DEF Bounded
  <2>2. CASE ~start
    BY <1>0, <1>1, <2>2, Codes DEF HIdle, HGoto, Bounded
  <2> QED  BY <2>1, <2>2
<1>2. CASE HPerm
  <2>1. (hst' = hret \/ hst' = hst) /\ hret' = hret /\ UNCHANGED <<hoff, hlen>>
    BY <1>2 DEF HPerm, HGoto
  <2> QED  BY <2>1 DEF Bounded
<1>3. CASE HCxLen
  <2>1. hst' = 1 /\ hret' = 3 /\ UNCHANGED <<hoff, hlen>>
    BY <1>0, <1>3, CxofCodes, Codes DEF HCxLen, HPermute
  <2> QED  BY <2>1 DEF Bounded
<1>4. CASE HSqueeze
  <2>1. UNCHANGED <<hoff, hlen>>
    BY <1>4 DEF HSqueeze
  <2>2. SqWord + 1 \in Nat
    <3>1. hst >= FirstSq /\ FirstSq \in 0..31
      BY <1>0, <1>4, CodeRange DEF HSqueeze
    <3> QED  BY <1>0, <3>1 DEF SqWord
  <2>3. (hst' = 0 /\ hret' = hret) \/ (hst' = 1 /\ hret' = SQ(SqWord + 1))
    BY <1>0, <1>4, Codes DEF HSqueeze, HGoto, HPermute
  <2>4. SQ(SqWord + 1) \in 0..31
    BY <1>0, <2>2, CodeRange
  <2> QED  BY <2>1, <2>3, <2>4 DEF Bounded
<1>5. ASSUME NEW g \in Segments, HDecide(g) PROVE Bounded'
  <2>1. /\ g \in HSegs /\ (hst' = Base(g) + 1 \/ hst' = Base(g) + 2) /\ hret' = hret
        /\ UNCHANGED <<hoff, hlen>>
    BY <1>0, <1>5, Codes DEF HDecide, HGoto
  <2>2. Base(g) \in 2..6
    BY <1>0, <2>1, CodeRange
  <2> QED  BY <2>1, <2>2 DEF Bounded
<1>6. ASSUME NEW g \in Segments, HFull(g) PROVE Bounded'
  <2>1. /\ g \in HSegs /\ hst = Base(g) + 1 /\ hst' = 1 /\ hret' = Base(g)
        /\ hoff' = [hoff EXCEPT ![g] = @ + Rate] /\ hlen' = hlen
    BY <1>0, <1>6, Codes DEF HFull, HPermute
  <2>2. hoff[g] \in Nat /\ HRem(g) >= Rate /\ Base(g) \in 2..6
    BY <2>1, InLoop
  <2>3. hoff \in [Segments -> 0..HashMax] /\ hlen \in [Segments -> 0..HashMax]
    BY DEF Bounded
  <2>4. hoff[g] + Rate \in 0..HashMax
    <3>1. hlen[g] \in 0..HashMax /\ hlen[g] - hoff[g] >= Rate
      BY <2>2, <2>3 DEF HRem
    <3> QED  BY <1>0, <2>2, <3>1, RateAssumption
  <2>5. hoff' \in [Segments -> 0..HashMax]
    BY <2>1, <2>3, <2>4
  <2> QED  BY <2>1, <2>2, <2>3, <2>5 DEF Bounded
<1>7. ASSUME NEW g \in Segments, HPad(g) PROVE Bounded'
  <2>1. hst' = 1 /\ (hret' = Base("msg") \/ hret' = SQ(0)) /\ UNCHANGED <<hoff, hlen>>
    BY <1>0, <1>7, Codes DEF HPad, HPermute
  <2>2. Base("msg") \in 2..6
    BY <1>0, Places
  <2>3. SQ(0) \in 0..31
    BY <1>0, CodeRange
  <2> QED  BY <2>1, <2>2, <2>3 DEF Bounded
<1> QED  BY <1>1, <1>2, <1>3, <1>4, <1>5, <1>6, <1>7 DEF HashEdge

LEMMA BenchInvInit == ASSUME HashInit PROVE BenchInv
<1>1. HashMax \in Nat /\ HashTrials \in Nat
  BY HashAssumption
<1>2. HashInv
  BY HashInvInit
<1>3. Bounded
  BY <1>1 DEF HashInit, Bounded
<1> QED  BY <1>1, <1>2, <1>3 DEF HashInit, BenchInv

LEMMA BenchInvStep ==
    ASSUME SqueezeFits, BenchInv, [HashNext]_hashVars
    PROVE  BenchInv'
<1>1. HashInv' /\ HashTrials \in Nat
  BY HashInvStep, HashAssumption DEF BenchInv
<1>2. CoreInv /\ Bounded /\ herr = 0 /\ htrial \in 0..HashTrials
  BY DEF BenchInv, HashInv
<1>3. ASSUME NEW r \in HashVectors, HashStart(r) PROVE BenchInv'
  <2>1. HashEdge(TRUE) /\ hin' = r /\ hphase' = "wait" /\ htrial < HashTrials
      /\ UNCHANGED <<htrial, herr>>
    BY <1>3 DEF HashStart
  <2>2. Bounded'
    BY <1>2, <2>1, EdgeBounded
  <2> QED  BY <1>1, <1>2, <2>1, <2>2 DEF BenchInv
<1>4. CASE HashWait
  <2>1. HashEdge(FALSE) /\ hphase = "wait" /\ hphase' = "wait" /\ UNCHANGED <<htrial, herr>>
    BY <1>4 DEF HashWait
  <2>2. Bounded'
    BY <1>2, <2>1, EdgeBounded
  <2> QED  BY <1>1, <1>2, <2>1, <2>2 DEF BenchInv
<1>5. CASE HashCheck
  <2>1. /\ HashEdge(FALSE) /\ hphase = "wait" /\ hphase' = "present" /\ hdone
        /\ herr' = (IF digest = GoldenDigest(variant, hin) THEN herr ELSE herr + 1)
        /\ htrial' = htrial + 1
    BY <1>5 DEF HashCheck
  <2>2. Bounded'
    BY <1>2, <2>1, EdgeBounded
  <2>3. herr' = 0
    BY <1>2, <2>1 DEF CoreInv
  <2>4. htrial' \in 0..HashTrials
    <3>1. htrial < HashTrials
      BY <2>1 DEF BenchInv
    <3> QED  BY <1>1, <1>2, <2>1, <3>1
  <2> QED  BY <1>1, <2>1, <2>2, <2>3, <2>4 DEF BenchInv
<1>6. CASE HashFinish
  <2>1. hphase' = "end" /\ htrial = HashTrials /\ UNCHANGED <<hregs, htrial, herr>>
    BY <1>6 DEF HashFinish
  <2> QED  BY <1>1, <1>2, <2>1 DEF BenchInv, Bounded, hregs
<1>7. CASE UNCHANGED hashVars
  BY <1>1, <1>7 DEF BenchInv, Bounded, hashVars, hregs
<1> QED  BY <1>3, <1>4, <1>5, <1>6, <1>7 DEF HashNext, HashRun

LEMMA BenchTypes == ASSUME BenchInv PROVE HashTypeOK
<1>1. HashTyped /\ Bounded /\ herr = 0 /\ htrial \in 0..HashTrials /\ HashTrials \in Nat
      /\ hphase \in {"present", "wait", "end"}
  BY HashAssumption DEF BenchInv, HashInv, CoreInv
<1>2. DOMAIN digest = 1..variant.words
  BY <1>1 DEF HashTyped
<1>3. herr \in 0..htrial
  BY <1>1
<1>4. hstart \in BOOLEAN /\ hdone \in BOOLEAN
  BY <1>1 DEF HashTyped
<1>5. /\ variant \in HashVariants /\ hrounds \in 0..2
      /\ hst \in 0..31 /\ hret \in 0..31
      /\ hoff \in [Segments -> 0..HashMax] /\ hlen \in [Segments -> 0..HashMax]
  BY <1>1 DEF HashTyped, Bounded
<1> QED  BY <1>1, <1>2, <1>3, <1>4, <1>5 DEF HashTypeOK

\* HashTypeOK: every state, also the one to return to, is a number the register
\* holds, and the offsets never pass the longest segment.
THEOREM HashTypeCorrect == SqueezeFits => (HashSpec => []HashTypeOK)
<1> SUFFICES ASSUME SqueezeFits PROVE HashSpec => []HashTypeOK
  OBVIOUS
<1>1. HashInit => BenchInv
  BY BenchInvInit
<1>2. BenchInv /\ [HashNext]_hashVars => BenchInv'
  BY BenchInvStep
<1>3. BenchInv => HashTypeOK
  BY BenchTypes
<1> QED  BY <1>1, <1>2, <1>3, PTL DEF HashSpec

NoMismatch == herr = 0 /\ (hphase = "end" => htrial = HashTrials)

\* The testbench never counts a mismatch, and reports only when it has compared
\* every vector.
THEOREM HashBenchPasses == SqueezeFits => (HashSpec => []NoMismatch)
<1> SUFFICES ASSUME SqueezeFits PROVE HashSpec => []NoMismatch
  OBVIOUS
<1>1. HashInit => BenchInv
  BY BenchInvInit
<1>2. BenchInv /\ [HashNext]_hashVars => BenchInv'
  BY BenchInvStep
<1>3. BenchInv => NoMismatch
  BY DEF BenchInv, NoMismatch
<1> QED  BY <1>1, <1>2, <1>3, PTL DEF HashSpec
=============================================================================
