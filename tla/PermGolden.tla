----------------------------- MODULE PermGolden -----------------------------
(***************************************************************************)
(* The Ascon permutation bit by bit: the golden model's five-word form     *)
(* (ascon_hwmodel/pc.py, ps.py, pl.py, round.py) and the Verilog functions *)
(* the same files emit for the hardware, which work on one 320-bit vector  *)
(* (rtl/generated/ascon_model.vh).                                         *)
(*                                                                         *)
(* A word or a vector is the set of the positions of its one bits, so xor  *)
(* is symmetric difference and "and" is intersection.  A state is a        *)
(* function from 0..4 to words; the vector holds word i at 64*i..64*i+63.  *)
(***************************************************************************)
EXTENDS Naturals, Sequences

Bits  == 0..63
Words == 0..4

A (+) B == (A \ B) \cup (B \ A)

\* The positions of the one bits of an n-bit number.
BitsOf(v, n) == {b \in 0..(n - 1) : (v \div 2^b) % 2 = 1}

-----------------------------------------------------------------------------
(* The golden model.                                                       *)

ROUND_CONSTANTS == <<60, 45, 30, 15, 240, 225, 210, 195,
                     180, 165, 150, 135, 120, 105, 90, 75>>

SBOX == << 4, 11, 31, 20, 26, 21,  9,  2, 27,  5,  8, 18, 29,  3,  6, 28,
          30, 19,  7, 14,  0, 13, 17, 24, 16, 12,  1, 25, 22, 10, 15, 23>>

RoundConstantIndex(rounds, i) == 16 - rounds + i

\* x2 <- x2 xor c_i
PC(s, rounds, i) ==
    [s EXCEPT ![2] = @ (+) BitsOf(ROUND_CONSTANTS[RoundConstantIndex(rounds, i) + 1], 8)]

\* Column j of the state as a number: word 0 is bit 4, word 4 is bit 0.
Column(s, j) ==
    LET b(i) == IF j \in s[i] THEN 2^(4 - i) ELSE 0
    IN  b(0) + b(1) + b(2) + b(3) + b(4)

\* Bit i of an S-box output, in the same order.
OutBit(y, i) == (y \div 2^(4 - i)) % 2 = 1

\* 64 table lookups: the reference substitution layer.
PSLut(s) == [i \in Words |-> {j \in Bits : OutBit(SBOX[Column(s, j) + 1], i)}]

\* The same by word-wide boolean operations: the one the model uses.
PSBitsliced(s) ==
    LET x0 == s[0]  x1 == s[1]  x2 == s[2]  x3 == s[3]  x4 == s[4]
    IN  [i \in Words |->
          CASE i = 0 -> (x4 \cap x1) (+) x3 (+) (x2 \cap x1) (+) x2 (+) (x1 \cap x0) (+) x1 (+) x0
            [] i = 1 -> x4 (+) (x3 \cap x2) (+) (x3 \cap x1) (+) x3 (+) (x2 \cap x1) (+) x2 (+) x1 (+) x0
            [] i = 2 -> (x4 \cap x3) (+) x4 (+) x2 (+) x1 (+) Bits
            [] i = 3 -> (x4 \cap x0) (+) x4 (+) (x3 \cap x0) (+) x3 (+) x2 (+) x1 (+) x0
            [] i = 4 -> (x4 \cap x1) (+) x4 (+) x3 (+) (x1 \cap x0) (+) x1]

\* Rotation to the right: bit j of the result is bit (j + r) % 64 of x.
Rotr64(x, r) == {(j + 64 - r) % 64 : j \in x}

Sigma(x, r1, r2) == x (+) Rotr64(x, r1) (+) Rotr64(x, r2)

PL(s) ==
    [i \in Words |->
      CASE i = 0 -> Sigma(s[0], 19, 28) [] i = 1 -> Sigma(s[1], 61, 39)
        [] i = 2 -> Sigma(s[2], 1, 6)   [] i = 3 -> Sigma(s[3], 10, 17)
        [] i = 4 -> Sigma(s[4], 7, 41)]

AsconRound(s, rounds, i) == PL(PSBitsliced(PC(s, rounds, i)))

AsconPermutation(s, rounds) ==
    LET after[i \in 0..rounds] ==
            IF i = 0 THEN s ELSE AsconRound(after[i - 1], rounds, i - 1)
    IN  after[rounds]

\* AsconState.from_u320 and to_u320.
FromVector(v) == [i \in Words |-> {j \in Bits : 64 * i + j \in v}]
ToVector(s)   == UNION {{64 * i + j : j \in s[i]} : i \in Words}

\* The round count a rounds_i code stands for.
RoundsOf(code) == CASE code = 0 -> 6 [] code = 1 -> 8 [] code = 2 -> 12

\* The golden permutation of a vector, under its rounds_i code.
GoldenPerm(v, code) == ToVector(AsconPermutation(FromVector(v), RoundsOf(code)))

-----------------------------------------------------------------------------
(* The emitted Verilog functions.                                          *)

Slice(v, i)  == {j \in Bits : 64 * i + j \in v}      \* state[64i+63 : 64i]
Concat(w)    == UNION {{64 * i + j : j \in w[i]} : i \in Words}

\* ascon_p_c: the constant is xored into state[191:128].
RtlPC(v, const) == v (+) {128 + b : b \in BitsOf(ROUND_CONSTANTS[const + 1], 8)}

\* {v[j], v[64+j], v[128+j], v[192+j], v[256+j]}, msb first.
RtlColumn(v, j) ==
    LET b(i) == IF 64 * i + j \in v THEN 2^(4 - i) ELSE 0
    IN  b(0) + b(1) + b(2) + b(3) + b(4)

\* ascon_sbox5_lut, written back to column j: y[4] to j, ..., y[0] to 256+j.
RtlSboxAt(v, j) ==
    LET y == SBOX[RtlColumn(v, j) + 1]
    IN  (v \ {64 * i + j : i \in Words}) \cup {64 * i + j : i \in {i \in Words : OutBit(y, i)}}

RtlPS(v) == Concat(PSBitsliced([i \in Words |-> Slice(v, i)]))

\* ascon_p_l, on the five slices.
RtlPL(v) ==
    LET rot == [i \in Words |-> <<<<19, 28>>, <<61, 39>>, <<1, 6>>, <<10, 17>>, <<7, 41>>>>[i + 1]]
    IN  Concat([i \in Words |-> Sigma(Slice(v, i), rot[i][1], rot[i][2])])

\* ascon_round_const_index
RtlRound(v, const) == RtlPL(RtlPS(RtlPC(v, const)))

\* ascon_p6, ascon_p8, ascon_p12: what the testbenches compare with.
RtlPerm(v, code) ==
    LET first == 16 - RoundsOf(code)
        after[i \in first..16] == IF i = first THEN v ELSE RtlRound(after[i - 1], i - 1)
    IN  after[16]
=============================================================================
