--------------------------- MODULE AeadCoreProofs ---------------------------
(***************************************************************************)
(* Proofs about AeadCore, for every block size Rate, every R rounds per    *)
(* cycle and every set of requests CoreAssumption allows: the type         *)
(* invariant, the permutation handshake, that a permutation is neither cut *)
(* short nor run too long, and that the block loops stay in the payload;   *)
(* then that a finished request holds the golden result, and that every    *)
(* step of the core is a step of its contract or none.                     *)
(***************************************************************************)
EXTENDS AeadCore, SequenceTheorems, TLAPS

-----------------------------------------------------------------------------
(* The inductive invariant.                                                *)

\* The type invariant by machine.
CoreTypeOK ==
    /\ st \in States /\ permRet \in States
    /\ permRounds \in 0..2 /\ permStart \in BOOLEAN
    /\ s \in Transcript /\ tag \in Transcript
    /\ adoff \in Nat /\ msgoff \in Nat
    /\ req \in Requests \cup {None}
    /\ st # "IDLE" => req # None
    /\ out \in [1..MaxBlocks -> Transcript]
    /\ valid \in BOOLEAN /\ done \in BOOLEAN

PermTypeOK ==
    /\ running \in BOOLEAN /\ pvalid \in BOOLEAN /\ idx \in 0..DONE
    /\ ps \in PermState /\ pout \in PermState

\* The rounds i0 .. i1 - 1.
Rounds(i0, i1) == [k \in 1 .. (i1 - i0) |-> i0 + (k - 1)]

LongReturns  == {"INIT_KEY", "FIN_TAG"}                  \* from p12
ShortReturns == {"AD_DECIDE", "DOMSEP", "MSG_DECIDE"}    \* from p8

\* Which permutation is under way, and how far it has come.
PermProgress ==
    st = "PERM" =>
        /\ permRet \in LongReturns \cup ShortReturns
        /\ permRounds = IF permRet \in LongReturns THEN 2 ELSE 1
        /\ running =>
              /\ ps.base = s
              /\ idx \in StartIndex(permRounds) .. (DONE - 1)
              /\ ps.rounds = Rounds(StartIndex(permRounds), idx)
        /\ pvalid =>
              /\ pout.base = s
              /\ pout.rounds = Rounds(StartIndex(permRounds), DONE)

IInv == CoreTypeOK /\ PermTypeOK /\ PermHandshake /\ PermProgress /\ BlocksInBounds

-----------------------------------------------------------------------------
(* Facts about rounds.                                                     *)

LEMMA StartIndexes == StartIndex(0) = 10 /\ StartIndex(1) = 8 /\ StartIndex(2) = 4
BY DEF StartIndex

LEMMA FunctionIsSeq ==
    ASSUME NEW S, NEW m \in Nat, NEW f \in [1..m -> S]
    PROVE  f \in Seq(S) /\ Len(f) = m
<1>1. f \in Seq(S)
  BY SeqDef
<1>2. DOMAIN f = 1 .. m /\ DOMAIN f = 1 .. Len(f) /\ Len(f) \in Nat
  BY <1>1, LenProperties
<1> QED  BY <1>1, <1>2

LEMMA RoundsSeq ==
    ASSUME NEW i0 \in 0..16, NEW i1 \in i0..16
    PROVE  /\ Rounds(i0, i1) \in Seq(0..15)
           /\ Len(Rounds(i0, i1)) = i1 - i0
           /\ \A k \in 1 .. (i1 - i0) : Rounds(i0, i1)[k] = i0 + (k - 1)
<1>1. i1 - i0 \in Nat /\ \A k \in 1 .. (i1 - i0) : i0 + (k - 1) \in 0..15
  OBVIOUS
<1>2. Rounds(i0, i1) \in [1 .. (i1 - i0) -> 0..15]
  BY <1>1 DEF Rounds
<1>3. \A k \in 1 .. (i1 - i0) : Rounds(i0, i1)[k] = i0 + (k - 1)
  BY DEF Rounds
<1> QED  BY <1>1, <1>2, <1>3, FunctionIsSeq

\* Running on from round i extends the rounds run.
LEMMA RoundsExtend ==
    ASSUME NEW i0 \in 0..16, NEW i \in i0..16, NEW n \in 0 .. (16 - i)
    PROVE  /\ Rounds(i0, i) \o [k \in 1..n |-> i + (k - 1)] = Rounds(i0, i + n)
           /\ Rounds(i0, i + n) \in Seq(0..15)
<1> DEFINE a == Rounds(i0, i)
           b == [k \in 1..n |-> i + (k - 1)]
           c == Rounds(i0, i + n)
<1>1. a \in Seq(0..15) /\ Len(a) = i - i0 /\ \A k \in 1 .. (i - i0) : a[k] = i0 + (k - 1)
  BY RoundsSeq
<1>2. b \in Seq(0..15) /\ Len(b) = n /\ \A k \in 1..n : b[k] = i + (k - 1)
  <2>1. n \in Nat /\ b \in [1..n -> 0..15] /\ \A k \in 1..n : b[k] = i + (k - 1)
    OBVIOUS
  <2> QED  BY <2>1, FunctionIsSeq
<1>3. c \in Seq(0..15) /\ Len(c) = i + n - i0
      /\ \A k \in 1 .. (i + n - i0) : c[k] = i0 + (k - 1)
  <2> DEFINE i1 == i + n
  <2>1. i1 \in i0..16
    OBVIOUS
  <2> HIDE DEF i1
  <2>2. /\ Rounds(i0, i1) \in Seq(0..15) /\ Len(Rounds(i0, i1)) = i1 - i0
        /\ \A k \in 1 .. (i1 - i0) : Rounds(i0, i1)[k] = i0 + (k - 1)
    BY <2>1, RoundsSeq
  <2> QED  BY <2>2 DEF i1
<1> HIDE DEF a, b, c
<1>4. /\ a \o b \in Seq(0..15)
      /\ Len(a \o b) = Len(a) + Len(b)
      /\ \A k \in 1 .. Len(a) + Len(b) :
            (a \o b)[k] = IF k <= Len(a) THEN a[k] ELSE b[k - Len(a)]
  BY <1>1, <1>2, ConcatProperties
<1>5. Len(a \o b) = Len(c)
  BY <1>1, <1>2, <1>3, <1>4
<1>6. ASSUME NEW k \in 1 .. Len(a \o b)  PROVE (a \o b)[k] = c[k]
  <2>1. k \in 1 .. (i + n - i0) /\ c[k] = i0 + (k - 1)
    BY <1>1, <1>2, <1>3, <1>4
  <2>2. CASE k <= Len(a)
    BY <2>1, <2>2, <1>1, <1>2, <1>4
  <2>3. CASE k > Len(a)
    <3>1. (a \o b)[k] = b[k - Len(a)]
      BY <2>1, <2>3, <1>1, <1>2, <1>4
    <3>2. k - Len(a) \in 1..n /\ i + ((k - Len(a)) - 1) = i0 + (k - 1)
      BY <2>1, <2>3, <1>1, <1>2
    <3> QED  BY <3>1, <3>2, <2>1, <1>2
  <2> QED  BY <2>2, <2>3, <1>1
<1>7. a \o b = c
  BY <1>3, <1>4, <1>5, <1>6, SeqEqual
<1> QED  BY <1>3, <1>7 DEF a, b, c

LEMMA NoRoundsYet ==
    ASSUME NEW i0 \in 0..16
    PROVE  Rounds(i0, i0) = <<>>
BY DEF Rounds

\* The two permutations the core uses, as the golden model writes them.
LEMMA WholePermutations ==
    /\ Rounds(4, DONE) = RoundIndexes(12)
    /\ Rounds(8, DONE) = RoundIndexes(8)
BY DEF Rounds, DONE, RoundIndexes

\* One cycle of the permutation core carries the rounds from idx to idx + R,
\* or to the end if that comes first.
LEMMA OneCycle ==
    ASSUME NEW i0 \in 0..16, NEW i \in i0..15, NEW p \in PermState,
           p.rounds = Rounds(i0, i)
    PROVE  /\ RRounds(p, i).base = p.base
           /\ RRounds(p, i).rounds = Rounds(i0, IF i + R <= DONE THEN i + R ELSE DONE)
           /\ RRounds(p, i) \in PermState
<1> DEFINE n == IF i + R <= 16 THEN R ELSE 16 - i
           more == [k \in 1..n |-> i + (k - 1)]
<1>1. n \in 0 .. (16 - i) /\ i + n = (IF i + R <= 16 THEN i + R ELSE 16)
  BY CoreAssumption
<1>2. RRounds(p, i) = [p EXCEPT !.rounds = p.rounds \o more]
  BY DEF RRounds, DONE
<1>3. i \in i0..16
  OBVIOUS
<1> HIDE DEF n
<1>4. /\ Rounds(i0, i) \o [k \in 1..n |-> i + (k - 1)] = Rounds(i0, i + n)
      /\ Rounds(i0, i + n) \in Seq(0..15)
  BY <1>1, <1>3, RoundsExtend
<1>5. p.rounds \o more = Rounds(i0, IF i + R <= 16 THEN i + R ELSE 16)
  BY <1>1, <1>4
<1>6. p.rounds \o more \in Seq(0..15)
  BY <1>4
<1> HIDE DEF more
<1>7. /\ p = [base |-> p.base, rounds |-> p.rounds] /\ p.base \in Transcript
  BY DEF PermState
<1>8. RRounds(p, i) = [base |-> p.base, rounds |-> p.rounds \o more]
  BY <1>2, <1>7
<1> QED  BY <1>5, <1>6, <1>7, <1>8 DEF PermState, DONE

-----------------------------------------------------------------------------
(* Type correctness.                                                       *)

LEMMA OperationTypes ==
    /\ Load \in Operation /\ DomainSep \in Operation
    /\ Key(16) \in Operation /\ Key(24) \in Operation
    /\ \A o \in Nat, n \in 0..Rate : Absorb(o, n) \in Operation
    /\ \A o \in Nat, n \in 0..Rate, d \in BOOLEAN : Crypt(o, n, MsgHow(d)) \in Operation
    /\ \A rs \in Seq(0..15) : Perm(rs) \in Operation
BY DEF Operation, Load, DomainSep, Key, Absorb, Crypt, MsgHow, Perm

LEMMA TranscriptExtends ==
    ASSUME NEW t \in Transcript, NEW op \in Operation
    PROVE  Append(t, op) \in Transcript
BY DEF Transcript

LEMMA RequestType ==
    ASSUME NEW r \in Requests
    PROVE  /\ r.adlen \in Nat /\ r.msglen \in Nat /\ r.dec \in BOOLEAN
           /\ r # None
BY CoreAssumption

LEMMA InitIInv == Init => IInv
<1> SUFFICES ASSUME Init PROVE IInv
  OBVIOUS
<1>1. <<>> \in Transcript /\ <<>> \in Seq(0..15)
  BY EmptySeq DEF Transcript
<1>2. CoreTypeOK
  <2>1. s \in Transcript /\ tag \in Transcript
    BY <1>1 DEF Init, CoreInit
  <2>2. out \in [1..MaxBlocks -> Transcript]
    BY <1>1, Zenon DEF Init, CoreInit
  <2>3. /\ st = "IDLE" /\ permRet = "IDLE" /\ permRounds = 0
        /\ adoff = 0 /\ msgoff = 0 /\ req = None
        /\ permStart \in BOOLEAN /\ valid \in BOOLEAN /\ done \in BOOLEAN
    BY Zenon DEF Init, CoreInit
  <2> QED  BY <2>1, <2>2, <2>3 DEF CoreTypeOK, States
<1>3. PermTypeOK
  <2>1. [base |-> <<>>, rounds |-> <<>>] \in PermState
    BY <1>1, Zenon DEF PermState
  <2>2. ps \in PermState /\ pout \in PermState
    BY <2>1, Zenon DEF Init, PermInit
  <2>3. running \in BOOLEAN /\ pvalid \in BOOLEAN /\ idx = DONE
    BY Zenon DEF Init, PermInit
  <2> QED  BY <2>2, <2>3 DEF PermTypeOK, DONE
<1>4. PermHandshake /\ PermProgress /\ BlocksInBounds
  BY Zenon DEF Init, CoreInit, PermInit, PermHandshake, PermProgress, BlocksInBounds
<1> QED  BY <1>2, <1>3, <1>4 DEF IInv

LEMMA CoreTypeStep ==
    ASSUME IInv, Next
    PROVE  CoreTypeOK'
<1> USE DEF CoreTypeOK, States, Goto, Permute
<1>0. CoreTypeOK /\ PermTypeOK /\ BlocksInBounds /\ PermProgress /\ PermHandshake
  BY DEF IInv
<1>1. ASSUME st # "IDLE"  PROVE /\ req \in Requests
                                /\ req.adlen \in Nat /\ req.msglen \in Nat /\ req.dec \in BOOLEAN
  BY <1>0, <1>1, RequestType
<1>2. ASSUME NEW r \in Requests, IdleStart(r)  PROVE CoreTypeOK'
  <2>1. <<>> \in Transcript /\ <<Load>> \in Transcript /\ r # None
    BY OperationTypes, RequestType, EmptySeq DEF Transcript
  <2>2. out' \in [1..MaxBlocks -> Transcript]
    BY <1>2, <2>1, Zenon DEF IdleStart
  <2>3. s' \in Transcript
    BY <1>2, <2>1, Zenon DEF IdleStart
  <2>4. /\ st' = "PERM" /\ permRet' = "INIT_KEY" /\ permRounds' = 2
        /\ permStart' \in BOOLEAN /\ done' \in BOOLEAN
        /\ adoff' = 0 /\ msgoff' = 0 /\ req' = r
        /\ tag' = tag /\ valid' = valid
    BY <1>2, Zenon DEF IdleStart
  <2> QED  BY <1>0, <2>1, <2>2, <2>3, <2>4
<1>3. CASE IdleWait
  BY <1>0, <1>3 DEF IdleWait
<1>4. CASE PermWait
  BY <1>0, <1>4 DEF PermWait
<1>5. CASE PermTake
  <2>1. Append(pout.base, Perm(pout.rounds)) \in Transcript
    BY <1>0, <1>5, OperationTypes, TranscriptExtends DEF PermTypeOK, PermState
  <2>2. permRet # "IDLE" => req # None
    BY <1>0, <1>5 DEF PermTake
  <2> QED  BY <1>0, <1>5, <2>1, <2>2 DEF PermTake
<1>6. CASE InitKey
  BY <1>0, <1>6, OperationTypes, TranscriptExtends DEF InitKey
<1>7. CASE AdDecide
  BY <1>0, <1>7 DEF AdDecide
<1>8. CASE AdFull
  <2>1. Absorb(adoff, Rate) \in Operation /\ adoff + Rate \in Nat
    BY <1>0, RateAssumption, OperationTypes
  <2> QED  BY <1>0, <1>8, <2>1, TranscriptExtends DEF AdFull
<1>9. CASE AdPad
  <2>1. AdRem \in 0..Rate
    BY <1>0, <1>1, <1>9, RateAssumption DEF AdPad, BlocksInBounds, AdRem
  <2>2. Absorb(adoff, AdRem) \in Operation
    BY <1>0, <2>1, OperationTypes
  <2> QED  BY <1>0, <1>9, <2>2, TranscriptExtends DEF AdPad
<1>10. CASE DomSep
  BY <1>0, <1>10, OperationTypes, TranscriptExtends DEF DomSep
<1>11. CASE MsgDecide
  BY <1>0, <1>11 DEF MsgDecide
<1>12. CASE MsgFull
  <2>1. Crypt(msgoff, Rate, MsgHow(req.dec)) \in Operation /\ msgoff + Rate \in Nat
    BY <1>0, <1>1, <1>12, RateAssumption, OperationTypes DEF MsgFull
  <2>2. out' \in [1..MaxBlocks -> Transcript]
    BY <1>0, <1>12 DEF MsgFull
  <2> QED  BY <1>0, <1>12, <2>1, <2>2, TranscriptExtends DEF MsgFull
<1>13. CASE MsgPad
  <2>1. MsgRem \in 0..Rate
    BY <1>0, <1>1, <1>13, RateAssumption DEF MsgPad, BlocksInBounds, MsgRem
  <2>2. Crypt(msgoff, MsgRem, MsgHow(req.dec)) \in Operation
    BY <1>0, <1>1, <1>13, <2>1, OperationTypes DEF MsgPad
  <2>3. out' \in [1..MaxBlocks -> Transcript]
    BY <1>0, <1>13 DEF MsgPad
  <2> QED  BY <1>0, <1>13, <2>2, <2>3, TranscriptExtends DEF MsgPad
<1>14. CASE FinKey
  BY <1>0, <1>14, OperationTypes, TranscriptExtends DEF FinKey
<1>15. CASE FinTag
  <2>1. valid' \in BOOLEAN
    BY <1>15 DEF FinTag
  <2> QED  BY <1>0, <1>15, <2>1 DEF FinTag
<1> QED
  BY <1>2, <1>3, <1>4, <1>5, <1>6, <1>7, <1>8, <1>9, <1>10, <1>11, <1>12, <1>13, <1>14, <1>15
     DEF Next, Start, Rest, Busy, Work

LEMMA PermTypeStep ==
    ASSUME IInv, PermEdge
    PROVE  PermTypeOK'
<1>0. CoreTypeOK /\ PermTypeOK /\ PermProgress /\ PermHandshake
  BY DEF IInv
<1>1. CASE PermStarts
  <2>1. [base |-> s, rounds |-> <<>>] \in PermState
    BY <1>0, EmptySeq DEF CoreTypeOK, PermState
  <2>2. idx' \in 0..DONE
    BY <1>1 DEF PermStarts, StartIndex, DONE
  <2>3. ps' \in PermState /\ pout' \in PermState /\ running' = TRUE /\ pvalid' = FALSE
    BY <1>0, <1>1, <2>1, Zenon DEF PermStarts, PermTypeOK
  <2> QED  BY <2>2, <2>3 DEF PermTypeOK
<1>2. CASE PermRuns \/ PermEnds
  <2>1. running /\ st = "PERM"
    BY <1>0, <1>2 DEF PermRuns, PermEnds, PermHandshake
  <2>2. StartIndex(permRounds) \in 0..16 /\ idx \in StartIndex(permRounds) .. 15
    BY <1>0, <2>1, StartIndexes DEF PermProgress, DONE
  <2>3. RRounds(ps, idx) \in PermState
    BY <1>0, <2>1, <2>2, OneCycle DEF PermProgress, PermTypeOK
  <2>4. idx' \in 0..DONE
    BY <1>0, <1>2, CoreAssumption DEF PermRuns, PermEnds, PermTypeOK, DONE
  <2> QED  BY <1>0, <1>2, <2>3, <2>4 DEF PermRuns, PermEnds, PermTypeOK
<1>3. CASE PermRests
  BY <1>0, <1>3 DEF PermRests, PermTypeOK
<1> QED  BY <1>1, <1>2, <1>3 DEF PermEdge

-----------------------------------------------------------------------------
(* The handshake.                                                          *)

LEMMA HandshakeStep ==
    ASSUME IInv, Next
    PROVE  PermHandshake'
<1>0. /\ PermHandshake
      /\ running \in BOOLEAN /\ pvalid \in BOOLEAN /\ permStart \in BOOLEAN
      /\ st = "PERM" => permRet # "PERM"
  BY DEF IInv, CoreTypeOK, PermTypeOK, PermProgress, LongReturns, ShortReturns
<1>1. PermEdge
  BY DEF Next, Start, Rest, Busy
<1> USE DEF PermHandshake, PermEdge, PermStarts, PermRuns, PermEnds, PermRests, Goto, Permute
<1>2. CASE PermWait
  BY <1>0, <1>1, <1>2 DEF PermWait
<1>3. CASE PermTake
  BY <1>0, <1>1, <1>3 DEF PermTake
<1>4. ASSUME st # "PERM", st' # "PERM", ~permStart'  PROVE PermHandshake'
  BY <1>0, <1>1, <1>4
<1>10. ASSUME st # "PERM", st' = "PERM", permStart'  PROVE PermHandshake'
  BY <1>0, <1>1, <1>10
<1>5. ASSUME NEW r \in Requests, IdleStart(r)  PROVE PermHandshake'
  <2>1. st # "PERM" /\ st' = "PERM" /\ permStart'
    BY <1>5 DEF IdleStart
  <2> QED  BY <1>10, <2>1
<1>6. CASE IdleWait
  BY <1>4, <1>6 DEF IdleWait
<1>7. CASE AdDecide \/ MsgDecide
  BY <1>4, <1>7 DEF AdDecide, MsgDecide
<1>8. CASE InitKey \/ DomSep \/ MsgPad \/ FinTag
  BY <1>4, <1>8 DEF InitKey, DomSep, MsgPad, FinTag
<1>9. CASE AdFull \/ AdPad \/ MsgFull \/ FinKey
  <2>1. st # "PERM" /\ st' = "PERM" /\ permStart'
    BY <1>9 DEF AdFull, AdPad, MsgFull, FinKey
  <2> QED  BY <1>10, <2>1
<1> QED
  BY <1>2, <1>3, <1>5, <1>6, <1>7, <1>8, <1>9 DEF Next, Start, Rest, Busy, Work

-----------------------------------------------------------------------------
(* The permutation.                                                        *)

\* A transition that asks for a permutation asks for the one its return state
\* is for, and takes no step of the permutation core's result.
LEMMA PermRequest ==
    ASSUME IInv, Next, st # "PERM", st' = "PERM"
    PROVE  /\ permStart' /\ ~running' /\ ~pvalid'
           /\ permRet' \in LongReturns \cup ShortReturns
           /\ permRounds' = IF permRet' \in LongReturns THEN 2 ELSE 1
<1>0. ~running /\ ~pvalid /\ ~permStart
  BY DEF IInv, PermHandshake
<1>1. ~running' /\ ~pvalid'
  BY <1>0 DEF Next, Start, Rest, Busy, PermEdge, PermStarts, PermRuns, PermEnds, PermRests
<1> USE DEF Goto, Permute, LongReturns, ShortReturns
<1>2. ASSUME NEW r \in Requests, IdleStart(r)
      PROVE  permStart' /\ permRet' = "INIT_KEY" /\ permRounds' = 2
  BY <1>2 DEF IdleStart
<1>3. CASE FinKey
  BY <1>1, <1>3 DEF FinKey
<1>4. CASE AdFull \/ AdPad \/ MsgFull
  BY <1>1, <1>4 DEF AdFull, AdPad, MsgFull
<1>5. CASE IdleWait \/ PermWait \/ PermTake \/ InitKey \/ DomSep \/ MsgPad \/ FinTag
  BY <1>5 DEF IdleWait, PermWait, PermTake, InitKey, DomSep, MsgPad, FinTag
<1>6. CASE AdDecide \/ MsgDecide
  BY <1>6 DEF AdDecide, MsgDecide
<1> QED
  BY <1>1, <1>2, <1>3, <1>4, <1>5, <1>6 DEF Next, Start, Rest, Busy, Work

LEMMA ProgressStep ==
    ASSUME IInv, Next
    PROVE  PermProgress'
<1>0. /\ CoreTypeOK /\ PermTypeOK /\ PermHandshake /\ PermProgress
  BY DEF IInv
<1>1. PermEdge
  BY DEF Next, Start, Rest, Busy
<1>2. CASE st # "PERM" /\ st' = "PERM"
  BY <1>2, PermRequest DEF PermProgress
<1>3. CASE st' # "PERM"
  BY <1>3 DEF PermProgress
<1>4. CASE st = "PERM" /\ st' = "PERM"
  <2>1. PermWait
    <3>1. ~PermTake
      BY <1>0, <1>4 DEF PermTake, Goto, PermProgress, LongReturns, ShortReturns
    <3> QED
      BY <1>4, <3>1 DEF Next, Start, Rest, Busy, Work, IdleStart, IdleWait, InitKey, AdDecide,
         AdFull, AdPad, DomSep, MsgDecide, MsgFull, MsgPad, FinKey, FinTag
  <2>2. s' = s /\ permRet' = permRet /\ permRounds' = permRounds /\ ~pvalid /\ ~permStart'
    BY <2>1 DEF PermWait, Goto
  <2> DEFINE i0 == StartIndex(permRounds)
  <2>3. i0 \in {4, 8}
    BY <1>0, <1>4, StartIndexes DEF PermProgress
  <2>4. CASE PermStarts
    <3>1. running' /\ ~pvalid' /\ ps' = [base |-> s, rounds |-> <<>>] /\ idx' = i0
      BY <2>4 DEF PermStarts
    <3>2. Rounds(i0, i0) = <<>>
      BY <2>3, NoRoundsYet
    <3>3. idx' \in i0 .. (DONE - 1)
      BY <3>1, <2>3 DEF DONE
    <3> HIDE DEF i0
    <3>4. ps'.base = s' /\ ps'.rounds = Rounds(i0, idx')
      BY <3>1, <3>2, <2>2
    <3> QED  BY <1>0, <1>4, <2>2, <3>1, <3>3, <3>4 DEF PermProgress, i0
  <2>5. CASE PermRuns \/ PermEnds
    <3>1. running /\ ps.base = s /\ idx \in i0 .. 15 /\ ps.rounds = Rounds(i0, idx)
      BY <1>0, <1>4, <2>5 DEF PermRuns, PermEnds, PermProgress, DONE
    <3>2. /\ RRounds(ps, idx).base = s
          /\ RRounds(ps, idx).rounds = Rounds(i0, IF idx + R <= DONE THEN idx + R ELSE DONE)
      BY <3>1, <2>3, <1>0, OneCycle DEF PermTypeOK
    <3> HIDE DEF i0
    <3>3. CASE PermRuns
      <4>1. ps' = RRounds(ps, idx) /\ idx' = idx + R /\ idx + R < DONE /\ ~pvalid'
        BY <3>3 DEF PermRuns
      <4>2. idx' \in i0 .. (DONE - 1)
        BY <3>1, <4>1, <2>3, CoreAssumption DEF DONE
      <4>3. ps'.base = s' /\ ps'.rounds = Rounds(i0, idx')
        BY <3>2, <4>1, <2>2 DEF DONE
      <4> QED  BY <1>0, <1>4, <2>2, <4>1, <4>2, <4>3 DEF PermProgress, i0
    <3>4. CASE PermEnds
      <4>1. pout' = RRounds(ps, idx) /\ idx + R >= DONE /\ ~running'
        BY <3>4 DEF PermEnds
      <4>2. pout'.base = s' /\ pout'.rounds = Rounds(i0, DONE)
        BY <3>1, <3>2, <4>1, <2>2, CoreAssumption DEF DONE
      <4> QED  BY <1>0, <1>4, <2>2, <4>1, <4>2 DEF PermProgress, i0
    <3> QED  BY <2>5, <3>3, <3>4
  <2>6. CASE PermRests
    <3>1. FALSE
      BY <1>0, <1>4, <2>2, <2>6 DEF PermRests, PermHandshake
    <3> QED  BY <3>1
  <2> QED  BY <1>1, <2>4, <2>5, <2>6 DEF PermEdge
<1> QED  BY <1>2, <1>3, <1>4

-----------------------------------------------------------------------------
(* The block loops.                                                        *)

LEMMA BlocksStep ==
    ASSUME IInv, Next
    PROVE  BlocksInBounds'
<1>0. CoreTypeOK /\ BlocksInBounds /\ PermProgress
  BY DEF IInv
<1>r. ASSUME st # "IDLE"  PROVE req.adlen \in Nat /\ req.msglen \in Nat
  BY <1>0, <1>r, RequestType DEF CoreTypeOK
<1>t. adoff \in Nat /\ msgoff \in Nat /\ Rate \in Nat \ {0}
  BY <1>0, RateAssumption DEF CoreTypeOK
<1> USE DEF BlocksInBounds, AdRem, MsgRem, Goto, Permute
<1>1. ASSUME NEW r \in Requests, IdleStart(r)  PROVE BlocksInBounds'
  <2>1. st' = "PERM" /\ adoff' = 0 /\ msgoff' = 0 /\ req' = r
    BY <1>1 DEF IdleStart
  <2> QED  BY <2>1, RequestType
<1>2. CASE IdleWait
  BY <1>2 DEF IdleWait
<1>3. CASE PermWait
  BY <1>0, <1>3 DEF PermWait
<1>4. CASE PermTake
  <2>1. st' \in LongReturns \cup ShortReturns /\ st = "PERM"
    BY <1>0, <1>4 DEF PermTake, PermProgress
  <2> QED  BY <1>0, <1>4, <2>1 DEF PermTake, LongReturns, ShortReturns
<1>5. CASE InitKey
  BY <1>0, <1>5 DEF InitKey
<1>6. CASE AdDecide
  BY <1>0, <1>r, <1>t, <1>6 DEF AdDecide
<1>7. CASE AdFull
  BY <1>0, <1>r, <1>t, <1>7 DEF AdFull
<1>8. CASE AdPad
  BY <1>0, <1>8 DEF AdPad
<1>9. CASE DomSep
  BY <1>0, <1>9 DEF DomSep
<1>10. CASE MsgDecide
  BY <1>0, <1>r, <1>t, <1>10 DEF MsgDecide
<1>11. CASE MsgFull
  BY <1>0, <1>r, <1>t, <1>11 DEF MsgFull
<1>12. CASE MsgPad
  BY <1>0, <1>12 DEF MsgPad
<1>13. CASE FinKey
  BY <1>0, <1>13 DEF FinKey
<1>14. CASE FinTag
  BY <1>14 DEF FinTag
<1> QED
  BY <1>1, <1>2, <1>3, <1>4, <1>5, <1>6, <1>7, <1>8, <1>9, <1>10, <1>11, <1>12, <1>13, <1>14
     DEF Next, Start, Rest, Busy, Work

-----------------------------------------------------------------------------
(* The theorems.                                                           *)

LEMMA NextIInv ==
    ASSUME IInv, [Next]_vars
    PROVE  IInv'
<1>1. CASE Next
  <2>1. PermEdge
    BY <1>1 DEF Next, Start, Rest, Busy
  <2> QED
    BY <1>1, <2>1, CoreTypeStep, PermTypeStep, HandshakeStep, ProgressStep, BlocksStep DEF IInv
<1>2. CASE UNCHANGED vars
  BY <1>2 DEF vars, coreVars, permVars, IInv, CoreTypeOK, PermTypeOK, PermHandshake,
     PermProgress, BlocksInBounds, AdRem, MsgRem
<1> QED  BY <1>1, <1>2

THEOREM Invariance == Spec => []IInv
<1>1. Init => IInv
  BY InitIInv
<1>2. IInv /\ [Next]_vars => IInv'
  BY NextIInv
<1> QED  BY <1>1, <1>2, PTL DEF Spec

\* The registers of the AEAD machine and of the permutation core hold values of
\* their types (AeadCore!TypeOK).
THEOREM TypeCorrect == Spec => []TypeOK
<1>1. IInv => TypeOK
  BY DEF IInv, CoreTypeOK, PermTypeOK, TypeOK
<1> QED  BY <1>1, Invariance, PTL

\* perm_start and perm_done are never lost, doubled or left hanging: in S_PERM
\* exactly one of pending, running and answered, elsewhere none.
THEOREM HandshakeHolds == Spec => []PermHandshake
<1>1. IInv => PermHandshake
  BY DEF IInv
<1> QED  BY <1>1, Invariance, PTL

\* Whatever R is, and whether or not it divides 12 and 8, the state that the
\* AEAD machine takes back has been through all the rounds of the permutation
\* it needs, in order, each once.
THEOREM PermutationsWhole == Spec => []PermIsWhole
<1>1. IInv => PermIsWhole
  <2> SUFFICES ASSUME IInv, st = "PERM", pvalid
               PROVE  /\ pout.base = s
                      /\ pout.rounds =
                            RoundIndexes(IF permRet \in {"INIT_KEY", "FIN_TAG"} THEN 12 ELSE 8)
    BY DEF PermIsWhole
  <2>1. /\ pout.base = s
        /\ pout.rounds = Rounds(StartIndex(permRounds), DONE)
        /\ permRounds = IF permRet \in LongReturns THEN 2 ELSE 1
    BY DEF IInv, PermProgress
  <2>2. CASE permRet \in LongReturns
    BY <2>1, <2>2, StartIndexes, WholePermutations DEF LongReturns
  <2>3. CASE permRet \notin LongReturns
    BY <2>1, <2>3, StartIndexes, WholePermutations DEF LongReturns
  <2> QED  BY <2>2, <2>3
<1> QED  BY <1>1, Invariance, PTL

\* For every block size and all lengths the block loops never step past the
\* payload, and each block is processed by the state made for its size.
THEOREM BlocksStayInBounds == Spec => []BlocksInBounds
<1>1. IInv => BlocksInBounds
  BY DEF IInv
<1> QED  BY <1>1, Invariance, PTL
-----------------------------------------------------------------------------
(* The result: the register holds a prefix of the golden transcript at     *)
(* every step.  The inductive invariant, over IInv.                        *)

\* The state the machine is in or will return to, and the sponge state it has
\* there: while a permutation is under way, the register with it applied.
Where == IF st = "PERM" THEN permRet ELSE st
Owed  == IF st = "PERM"
         THEN Append(s, IF permRet \in LongReturns THEN P12 ELSE P8)
         ELSE s

AdBlocks  == adoff \div Rate      \* blocks absorbed
MsgBlocks == msgoff \div Rate     \* message blocks processed

\* The golden transcript up to the first n operations on the associated data,
\* and up to the first n on the message.
Opening        == <<Load, P12, Key(24)>>
AdSoFar(r, n)  == Opening \o SubSeq(AdTranscript(r.adlen), 1, n)
BeforeMsg(r)   == Opening \o AdTranscript(r.adlen) \o <<DomainSep>>
MsgSoFar(r, n) == BeforeMsg(r) \o SubSeq(MsgTranscript(r.msglen, MsgHow(r.dec)), 1, n)
AfterMsg(r)    == BeforeMsg(r) \o MsgTranscript(r.msglen, MsgHow(r.dec))

AdStates     == {"AD_DECIDE", "AD_FULL", "AD_PAD"}
MsgStates    == {"MSG_DECIDE", "MSG_FULL", "MSG_PAD"}
BeforeStates == {"INIT_KEY", "DOMSEP"} \cup AdStates
FinalStates  == {"FIN_KEY", "FIN_TAG"}

\* Offsets are whole blocks; the message loop starts from offset 0.
OffsetsAligned ==
    st # "IDLE" =>
        /\ adoff = AdBlocks * Rate /\ msgoff = MsgBlocks * Rate
        /\ Where = "INIT_KEY" => adoff = 0
        /\ Where \in {"AD_FULL", "AD_PAD"} => req.adlen # 0
        /\ Where \in BeforeStates => msgoff = 0

\* The sponge has been through a prefix of the golden transcript: the one that
\* ends where the machine is.
SpongeInStep ==
    /\ Where # "PERM"
    /\ Where = "INIT_KEY" => Owed = <<Load, P12>>
    /\ Where \in AdStates => Owed = AdSoFar(req, 2 * AdBlocks)
    /\ Where = "DOMSEP" => Owed = Opening \o AdTranscript(req.adlen)
    /\ Where \in MsgStates => Owed = MsgSoFar(req, 2 * MsgBlocks)
    /\ Where = "FIN_KEY" => Owed = AfterMsg(req)
    /\ Where = "FIN_TAG" => Owed = GoldenTag(req)

\* The first n output blocks are the golden ones.
OutGolden(n) == \A k \in 1..n : out[k] = BeforeMsgBlock(req, k)

OutputsSoFar ==
    /\ Where \in MsgStates => OutGolden(MsgBlocks)
    /\ Where \in FinalStates => OutGolden(NumBlocks(req.msglen))

\* What done_o announces is there, and stays while the core is idle.
DoneHolds == done => (st = "IDLE" /\ req # None /\ ResultIsGolden)

ResultInv == OffsetsAligned /\ SpongeInStep /\ OutputsSoFar /\ DoneHolds

-----------------------------------------------------------------------------
(* Facts about blocks.                                                     *)

\* Writing a length as whole blocks and a rest, in the only way there is.
LEMMA DivideBlocks ==
    ASSUME NEW len \in Nat
    PROVE  /\ len \div Rate \in Nat /\ len % Rate \in 0 .. (Rate - 1)
           /\ len = (len \div Rate) * Rate + (len % Rate)
BY RateAssumption

LEMMA DivideUnique ==
    ASSUME NEW q \in Nat, NEW x \in Nat, x < Rate, NEW len \in Nat, len = q * Rate + x
    PROVE  len \div Rate = q /\ len % Rate = x
BY RateAssumption

LEMMA NextOffset ==
    ASSUME NEW q \in Nat
    PROVE  (q + 1) * Rate = q * Rate + Rate /\ q * Rate \in Nat
BY RateAssumption

LEMMA MoreBlocks ==
    ASSUME NEW p \in Nat, NEW q \in Nat, p < q
    PROVE  p * Rate + Rate <= q * Rate
BY RateAssumption

\* Where a whole block is left, the block at this offset is not the last one.
LEMMA FullBlock ==
    ASSUME NEW len \in Nat, NEW q \in Nat, len - q * Rate >= Rate
    PROVE  /\ q + 1 < NumBlocks(len)
           /\ BlockOff(q + 1) = q * Rate /\ BlockLen(len, q + 1) = Rate
<1> DEFINE d == len \div Rate
<1>1. d \in Nat /\ len % Rate \in 0 .. (Rate - 1) /\ len = d * Rate + (len % Rate)
  BY DivideBlocks
<1>2. q * Rate \in Nat /\ d * Rate \in Nat /\ Rate \in Nat
  BY <1>1, NextOffset, RateAssumption
<1> HIDE DEF d
<1>3. ~(d < q)
  BY <1>1, <1>2, MoreBlocks
<1>4. d # q
  BY <1>1, <1>2
<1>5. q + 1 < NumBlocks(len)
  BY <1>1, <1>3, <1>4 DEF NumBlocks, d
<1>6. BlockOff(q + 1) = q * Rate
  BY DEF BlockOff
<1> QED  BY <1>5, <1>6 DEF BlockLen

\* Where less than a block is left, it is the last one, and this is its size.
LEMMA LastBlock ==
    ASSUME NEW len \in Nat, NEW q \in Nat, q * Rate <= len, len - q * Rate < Rate
    PROVE  /\ q + 1 = NumBlocks(len)
           /\ BlockOff(q + 1) = q * Rate /\ BlockLen(len, q + 1) = len - q * Rate
<1> DEFINE x == len - q * Rate
<1>1. x \in Nat /\ x < Rate /\ len = q * Rate + x
  BY NextOffset, RateAssumption
<1> HIDE DEF x
<1>2. len \div Rate = q /\ len % Rate = x
  BY <1>1, DivideUnique
<1>3. q + 1 = NumBlocks(len)
  BY <1>2 DEF NumBlocks
<1>4. BlockOff(q + 1) = q * Rate
  BY DEF BlockOff
<1>5. BlockLen(len, q + 1) = x
  BY <1>2, <1>3 DEF BlockLen, NumBlocks
<1> QED  BY <1>3, <1>4, <1>5 DEF x

LEMMA NumBlocksType ==
    ASSUME NEW len \in Nat
    PROVE  NumBlocks(len) \in Nat \ {0}
BY DivideBlocks DEF NumBlocks

LEMMA BlockTypes ==
    ASSUME NEW len \in Nat, NEW k \in 1 .. NumBlocks(len)
    PROVE  BlockOff(k) \in Nat /\ BlockLen(len, k) \in 0..Rate
<1>1. k - 1 \in Nat
  BY NumBlocksType
<1>2. BlockOff(k) \in Nat
  BY <1>1, NextOffset DEF BlockOff
<1>3. BlockLen(len, k) \in 0..Rate
  BY DivideBlocks, RateAssumption DEF BlockLen
<1> QED  BY <1>2, <1>3

\* Odd places of a transcript are blocks, even ones permutations.
LEMMA Halves ==
    ASSUME NEW k \in Nat
    PROVE  /\ (2 * k - 1) % 2 = 1 /\ ((2 * k - 1) + 1) \div 2 = k
           /\ (2 * k) % 2 = 0
OBVIOUS

-----------------------------------------------------------------------------
(* Facts about transcripts.                                                *)

LEMMA GrowPrefix ==
    ASSUME NEW t \in Transcript, NEW n \in Nat, n < Len(t)
    PROVE  /\ SubSeq(t, 1, n) \in Transcript
           /\ t[n + 1] \in Operation
           /\ Append(SubSeq(t, 1, n), t[n + 1]) = SubSeq(t, 1, n + 1)
<1> USE DEF Transcript
<1>1. Len(t) \in Nat /\ 1 \in 1 .. Len(t) /\ n + 1 \in 1 .. Len(t)
  BY LenProperties
<1>2. t[n + 1] \in Operation
  BY <1>1, ElementOfSeq
<1>3. \A i \in 1 .. n : t[i] \in Operation
  BY <1>1, ElementOfSeq
<1>4. SubSeq(t, 1, n) \in Seq(Operation)
  BY <1>3, SubSeqProperties
<1>5. SubSeq(t, 1, n + 1) = SubSeq(t, 1, (n + 1) - 1) \o <<t[n + 1]>>
  BY <1>1, SubSeqRecursiveSecond
<1>6. (n + 1) - 1 = n
  OBVIOUS
<1>7. Append(SubSeq(t, 1, n), t[n + 1]) = SubSeq(t, 1, n) \o <<t[n + 1]>>
  BY <1>2, <1>4, AppendIsConcat
<1> QED  BY <1>2, <1>4, <1>5, <1>6, <1>7

LEMMA AppendBehind ==
    ASSUME NEW t \in Transcript, NEW u \in Transcript, NEW op \in Operation
    PROVE  /\ t \o u \in Transcript
           /\ Append(t \o u, op) = t \o Append(u, op)
<1> USE DEF Transcript
<1>1. <<op>> \in Seq(Operation)
  OBVIOUS
<1>2. t \o u \in Seq(Operation)
  BY ConcatProperties
<1>3. Append(t \o u, op) = (t \o u) \o <<op>>
  BY <1>2, AppendIsConcat
<1>4. Append(u, op) = u \o <<op>>
  BY AppendIsConcat
<1>5. (t \o u) \o <<op>> = t \o (u \o <<op>>)
  BY <1>1, ConcatAssociative
<1> QED  BY <1>2, <1>3, <1>4, <1>5

LEMMA AppendToTuples ==
    /\ \A a, b : Append(<<a>>, b) = <<a, b>>
    /\ \A a, b, c : Append(<<a, b>>, c) = <<a, b, c>>
<1>1. ASSUME NEW a, NEW b  PROVE Append(<<a>>, b) = <<a, b>>
  <2> DEFINE S == {a, b}
             u == <<a>>
             v == <<a, b>>
  <2>1. u \in Seq(S) /\ Len(u) = 1 /\ u[1] = a /\ b \in S
    OBVIOUS
  <2>2. v \in Seq(S) /\ Len(v) = 2 /\ v[1] = a /\ v[2] = b
    OBVIOUS
  <2> HIDE DEF u, v, S
  <2> DEFINE w == Append(u, b)
  <2>3. /\ w \in Seq(S) /\ Len(w) = Len(u) + 1
        /\ \A i \in 1 .. Len(u) : w[i] = u[i]
        /\ w[Len(u) + 1] = b
    <3>1. u \in Seq(S) /\ b \in S
      BY <2>1
    <3> QED  BY <3>1, AppendProperties
  <2> HIDE DEF w
  <2>4. Len(w) = 2 /\ w[1] = a /\ w[2] = b
    BY <2>1, <2>3
  <2>5. \A i \in 1 .. Len(w) : w[i] = v[i]
    BY <2>2, <2>4
  <2>6. w = v
    BY <2>2, <2>3, <2>4, <2>5, SeqEqual
  <2> QED  BY <2>6 DEF u, v, w
<1>2. ASSUME NEW a, NEW b, NEW c  PROVE Append(<<a, b>>, c) = <<a, b, c>>
  <2> DEFINE S == {a, b, c}
             u == <<a, b>>
             v == <<a, b, c>>
  <2>1. u \in Seq(S) /\ Len(u) = 2 /\ u[1] = a /\ u[2] = b /\ c \in S
    OBVIOUS
  <2>2. v \in Seq(S) /\ Len(v) = 3 /\ v[1] = a /\ v[2] = b /\ v[3] = c
    OBVIOUS
  <2> HIDE DEF u, v, S
  <2> DEFINE w == Append(u, c)
  <2>3. /\ w \in Seq(S) /\ Len(w) = Len(u) + 1
        /\ \A i \in 1 .. Len(u) : w[i] = u[i]
        /\ w[Len(u) + 1] = c
    <3>1. u \in Seq(S) /\ c \in S
      BY <2>1
    <3> QED  BY <3>1, AppendProperties
  <2> HIDE DEF w
  <2>4. Len(w) = 3 /\ w[1] = a /\ w[2] = b /\ w[3] = c
    BY <2>1, <2>3
  <2>5. \A i \in 1 .. Len(w) : w[i] = v[i]
    BY <2>2, <2>4
  <2>6. w = v
    BY <2>2, <2>3, <2>4, <2>5, SeqEqual
  <2> QED  BY <2>6 DEF u, v, w
<1> QED  BY <1>1, <1>2

LEMMA WholePrefix ==
    ASSUME NEW t \in Transcript
    PROVE  SubSeq(t, 1, Len(t)) = t
BY SubSeqFull DEF Transcript

LEMMA PermTypes == P8 \in Operation /\ P12 \in Operation
<1>1. RoundIndexes(8) \in Seq(0..15) /\ RoundIndexes(12) \in Seq(0..15)
  BY RoundsSeq, WholePermutations DEF DONE
<1> QED  BY <1>1, OperationTypes DEF P8, P12

LEMMA AdShape ==
    ASSUME NEW len \in Nat, len # 0
    PROVE  /\ AdTranscript(len) \in Transcript
           /\ Len(AdTranscript(len)) = 2 * NumBlocks(len)
           /\ \A k \in 1 .. NumBlocks(len) :
                 /\ AdTranscript(len)[2 * k - 1] = Absorb(BlockOff(k), BlockLen(len, k))
                 /\ AdTranscript(len)[2 * k] = P8
<1> DEFINE nb == NumBlocks(len)
           op(i) == LET k == (i + 1) \div 2
                    IN  IF i % 2 = 1 THEN Absorb(BlockOff(k), BlockLen(len, k)) ELSE P8
           f == [i \in 1 .. 2 * nb |-> op(i)]
<1>1. AdTranscript(len) = f
  BY DEF AdTranscript
<1>2. nb \in Nat \ {0} /\ 2 * nb \in Nat
  BY NumBlocksType
<1>3. \A i \in 1 .. 2 * nb : op(i) \in Operation
  <2> SUFFICES ASSUME NEW i \in 1 .. 2 * nb PROVE op(i) \in Operation
    OBVIOUS
  <2>1. (i + 1) \div 2 \in 1 .. nb
    BY <1>2
  <2>2. BlockOff((i + 1) \div 2) \in Nat /\ BlockLen(len, (i + 1) \div 2) \in 0..Rate
    BY <2>1, BlockTypes
  <2>3. Absorb(BlockOff((i + 1) \div 2), BlockLen(len, (i + 1) \div 2)) \in Operation
    BY <2>2, OperationTypes
  <2> QED  BY <2>3, PermTypes
<1>4. ASSUME NEW k \in 1 .. nb
      PROVE  f[2 * k - 1] = Absorb(BlockOff(k), BlockLen(len, k)) /\ f[2 * k] = P8
  <2>1. 2 * k - 1 \in 1 .. 2 * nb /\ 2 * k \in 1 .. 2 * nb /\ k \in Nat
    BY <1>2
  <2>2. /\ (2 * k - 1) % 2 = 1 /\ ((2 * k - 1) + 1) \div 2 = k /\ (2 * k) % 2 = 0
    BY <2>1, Halves
  <2> QED  BY <2>1, <2>2
<1> HIDE DEF nb, op
<1>5. f \in [1 .. 2 * nb -> Operation]
  BY <1>3
<1>6. f \in Seq(Operation) /\ Len(f) = 2 * nb
  BY <1>2, <1>5, FunctionIsSeq
<1> QED  BY <1>1, <1>4, <1>6 DEF nb, Transcript

LEMMA MsgShape ==
    ASSUME NEW len \in Nat, NEW dec \in BOOLEAN
    PROVE  LET t == MsgTranscript(len, MsgHow(dec))
           IN  /\ t \in Transcript
               /\ Len(t) = 2 * NumBlocks(len) - 1
               /\ \A k \in 1 .. NumBlocks(len) :
                     t[2 * k - 1] = Crypt(BlockOff(k), BlockLen(len, k), MsgHow(dec))
               /\ \A k \in 1 .. NumBlocks(len) - 1 : t[2 * k] = P8
<1> DEFINE nb == NumBlocks(len)
           how == MsgHow(dec)
           op(i) == LET k == (i + 1) \div 2
                    IN  IF i % 2 = 1 THEN Crypt(BlockOff(k), BlockLen(len, k), how) ELSE P8
           f == [i \in 1 .. 2 * nb - 1 |-> op(i)]
<1>1. MsgTranscript(len, how) = f
  BY DEF MsgTranscript
<1>2. nb \in Nat \ {0} /\ 2 * nb - 1 \in Nat
  BY NumBlocksType
<1>3. \A i \in 1 .. 2 * nb - 1 : op(i) \in Operation
  <2> SUFFICES ASSUME NEW i \in 1 .. 2 * nb - 1 PROVE op(i) \in Operation
    OBVIOUS
  <2>1. (i + 1) \div 2 \in 1 .. nb
    BY <1>2
  <2>2. BlockOff((i + 1) \div 2) \in Nat /\ BlockLen(len, (i + 1) \div 2) \in 0..Rate
    BY <2>1, BlockTypes
  <2>3. Crypt(BlockOff((i + 1) \div 2), BlockLen(len, (i + 1) \div 2), how) \in Operation
    BY <2>2, OperationTypes
  <2> QED  BY <2>3, PermTypes
<1>4. ASSUME NEW k \in 1 .. nb
      PROVE  f[2 * k - 1] = Crypt(BlockOff(k), BlockLen(len, k), how)
  <2>1. 2 * k - 1 \in 1 .. 2 * nb - 1 /\ k \in Nat
    BY <1>2
  <2>2. (2 * k - 1) % 2 = 1 /\ ((2 * k - 1) + 1) \div 2 = k
    BY <2>1, Halves
  <2> QED  BY <2>1, <2>2
<1>5. ASSUME NEW k \in 1 .. nb - 1  PROVE f[2 * k] = P8
  <2>1. 2 * k \in 1 .. 2 * nb - 1 /\ k \in Nat
    BY <1>2
  <2>2. (2 * k) % 2 = 0
    BY <2>1, Halves
  <2> QED  BY <2>1, <2>2
<1> HIDE DEF nb, op
<1>6. f \in [1 .. 2 * nb - 1 -> Operation]
  BY <1>3
<1>7. f \in Seq(Operation) /\ Len(f) = 2 * nb - 1
  BY <1>2, <1>6, FunctionIsSeq
<1> QED  BY <1>1, <1>4, <1>5, <1>7 DEF nb, Transcript
-----------------------------------------------------------------------------
(* How the golden transcript grows.                                        *)

LEMMA GoldenTypes ==
    ASSUME NEW r \in Requests
    PROVE  /\ Opening \in Transcript
           /\ AdTranscript(r.adlen) \in Transcript
           /\ BeforeMsg(r) \in Transcript
           /\ MsgTranscript(r.msglen, MsgHow(r.dec)) \in Transcript
           /\ AfterMsg(r) \in Transcript
<1>1. Opening \in Transcript /\ <<DomainSep>> \in Transcript
  BY OperationTypes, PermTypes DEF Opening, Transcript
<1>2. AdTranscript(r.adlen) \in Transcript
  <2>1. CASE r.adlen = 0
    BY <2>1, EmptySeq DEF AdTranscript, Transcript
  <2>2. CASE r.adlen # 0
    BY <2>2, RequestType, AdShape
  <2> QED  BY <2>1, <2>2
<1>3. MsgTranscript(r.msglen, MsgHow(r.dec)) \in Transcript
  BY RequestType, MsgShape
<1>4. \A a, b \in Transcript : a \o b \in Transcript
  BY ConcatProperties DEF Transcript
<1>5. BeforeMsg(r) \in Transcript
  BY <1>1, <1>2, <1>4 DEF BeforeMsg
<1>6. AfterMsg(r) \in Transcript
  BY <1>3, <1>4, <1>5 DEF AfterMsg
<1> QED  BY <1>1, <1>2, <1>3, <1>5, <1>6

\* Two operations more on a prefix.
LEMMA GrowByTwo ==
    ASSUME NEW a \in Transcript, NEW t \in Transcript, NEW n \in Nat, n + 2 <= Len(t)
    PROVE  /\ a \o SubSeq(t, 1, n) \in Transcript
           /\ Append(Append(a \o SubSeq(t, 1, n), t[n + 1]), t[n + 2]) = a \o SubSeq(t, 1, n + 2)
<1> DEFINE p0 == SubSeq(t, 1, n)
           p1 == SubSeq(t, 1, n + 1)
           p2 == SubSeq(t, 1, n + 2)
           op1 == t[n + 1]
           op2 == t[n + 2]
<1>1. Len(t) \in Nat
  BY LenProperties DEF Transcript
<1>2. p0 \in Transcript /\ op1 \in Operation /\ Append(p0, op1) = p1
  BY <1>1, GrowPrefix
<1>3. p1 \in Transcript /\ op2 \in Operation /\ Append(p1, op2) = p2
  <2>1. n + 1 \in Nat /\ n + 1 < Len(t) /\ (n + 1) + 1 = n + 2
    BY <1>1
  <2> QED  BY <2>1, GrowPrefix
<1> HIDE DEF p0, p1, p2, op1, op2
<1>4. a \o p0 \in Transcript /\ Append(a \o p0, op1) = a \o Append(p0, op1)
  BY <1>2, AppendBehind
<1>5. Append(a \o p1, op2) = a \o Append(p1, op2)
  BY <1>3, AppendBehind
<1> QED  BY <1>2, <1>3, <1>4, <1>5 DEF p0, p1, p2, op1, op2

LEMMA NothingYet ==
    ASSUME NEW r \in Requests
    PROVE  /\ AdSoFar(r, 0) = Opening /\ MsgSoFar(r, 0) = BeforeMsg(r)
           /\ r.adlen = 0 => Opening \o AdTranscript(r.adlen) = Opening
<1>1. Opening \o <<>> = Opening /\ BeforeMsg(r) \o <<>> = BeforeMsg(r)
  BY GoldenTypes, ConcatEmptySeq DEF Transcript
<1>2. SubSeq(AdTranscript(r.adlen), 1, 0) = <<>>
      /\ SubSeq(MsgTranscript(r.msglen, MsgHow(r.dec)), 1, 0) = <<>>
  BY SubSeqEmpty
<1> QED  BY <1>1, <1>2 DEF AdSoFar, MsgSoFar, AdTranscript

LEMMA AdGrows ==
    ASSUME NEW r \in Requests, NEW q \in Nat, r.adlen - q * Rate >= Rate
    PROVE  Append(Append(AdSoFar(r, 2 * q), Absorb(q * Rate, Rate)), P8)
              = AdSoFar(r, 2 * (q + 1))
<1> DEFINE t == AdTranscript(r.adlen)
<1>1. r.adlen \in Nat /\ r.adlen # 0
  BY RequestType, NextOffset, RateAssumption
<1>2. q + 1 < NumBlocks(r.adlen) /\ q + 1 \in 1 .. NumBlocks(r.adlen)
  BY <1>1, FullBlock, NumBlocksType
<1>3. /\ t \in Transcript /\ Len(t) = 2 * NumBlocks(r.adlen)
      /\ t[2 * (q + 1) - 1] = Absorb(q * Rate, Rate) /\ t[2 * (q + 1)] = P8
  BY <1>1, <1>2, AdShape, FullBlock
<1> HIDE DEF t
<1>4. 2 * q + 2 <= Len(t) /\ 2 * q \in Nat
  <2> DEFINE nb == NumBlocks(r.adlen)
  <2>1. q + 1 < nb /\ nb \in Nat /\ Len(t) = 2 * nb
    BY <1>1, <1>2, <1>3, NumBlocksType
  <2> HIDE DEF nb
  <2> QED  BY <2>1
<1>5. 2 * (q + 1) - 1 = 2 * q + 1 /\ 2 * (q + 1) = 2 * q + 2
  OBVIOUS
<1>6. Append(Append(Opening \o SubSeq(t, 1, 2 * q), t[2 * q + 1]), t[2 * q + 2])
         = Opening \o SubSeq(t, 1, 2 * q + 2)
  BY <1>3, <1>4, GoldenTypes, GrowByTwo
<1> QED  BY <1>3, <1>5, <1>6 DEF AdSoFar, t

LEMMA AdEnds ==
    ASSUME NEW r \in Requests, NEW q \in Nat, r.adlen # 0,
           q * Rate <= r.adlen, r.adlen - q * Rate < Rate
    PROVE  Append(Append(AdSoFar(r, 2 * q), Absorb(q * Rate, r.adlen - q * Rate)), P8)
              = Opening \o AdTranscript(r.adlen)
<1> DEFINE t == AdTranscript(r.adlen)
<1>1. r.adlen \in Nat /\ q + 1 \in Nat /\ q + 1 >= 1
  BY RequestType
<1>2. q + 1 = NumBlocks(r.adlen)
  BY <1>1, LastBlock
<1>3. /\ t \in Transcript /\ Len(t) = 2 * (q + 1)
      /\ t[2 * (q + 1) - 1] = Absorb(q * Rate, r.adlen - q * Rate) /\ t[2 * (q + 1)] = P8
  <2>1. q + 1 \in 1 .. NumBlocks(r.adlen)
    BY <1>1, <1>2
  <2>2. /\ t \in Transcript /\ Len(t) = 2 * NumBlocks(r.adlen) /\ t[2 * (q + 1)] = P8
        /\ t[2 * (q + 1) - 1] = Absorb(BlockOff(q + 1), BlockLen(r.adlen, q + 1))
    BY <1>1, <2>1, AdShape
  <2>3. BlockOff(q + 1) = q * Rate /\ BlockLen(r.adlen, q + 1) = r.adlen - q * Rate
    BY <1>1, LastBlock
  <2> HIDE DEF t
  <2> QED  BY <1>2, <2>2, <2>3
<1> HIDE DEF t
<1>4. 2 * q + 2 <= Len(t) /\ 2 * q \in Nat
  BY <1>3
<1>5. 2 * (q + 1) - 1 = 2 * q + 1 /\ 2 * (q + 1) = 2 * q + 2
  OBVIOUS
<1>6. Append(Append(Opening \o SubSeq(t, 1, 2 * q), t[2 * q + 1]), t[2 * q + 2])
         = Opening \o SubSeq(t, 1, 2 * q + 2)
  BY <1>3, <1>4, GoldenTypes, GrowByTwo
<1>7. SubSeq(t, 1, 2 * q + 2) = t
  BY <1>3, <1>5, WholePrefix
<1> QED  BY <1>3, <1>5, <1>6, <1>7 DEF AdSoFar, t

LEMMA MsgGrows ==
    ASSUME NEW r \in Requests, NEW q \in Nat, r.msglen - q * Rate >= Rate
    PROVE  Append(Append(MsgSoFar(r, 2 * q), Crypt(q * Rate, Rate, MsgHow(r.dec))), P8)
              = MsgSoFar(r, 2 * (q + 1))
<1> DEFINE t == MsgTranscript(r.msglen, MsgHow(r.dec))
<1>1. r.msglen \in Nat /\ r.dec \in BOOLEAN
  BY RequestType
<1>2. q + 1 < NumBlocks(r.msglen) /\ NumBlocks(r.msglen) \in Nat
  BY <1>1, FullBlock, NumBlocksType
<1>3. /\ t \in Transcript /\ Len(t) = 2 * NumBlocks(r.msglen) - 1
      /\ t[2 * (q + 1) - 1] = Crypt(q * Rate, Rate, MsgHow(r.dec)) /\ t[2 * (q + 1)] = P8
  <2>1. q + 1 \in 1 .. NumBlocks(r.msglen) /\ q + 1 \in 1 .. NumBlocks(r.msglen) - 1
    BY <1>2
  <2> QED  BY <1>1, <2>1, MsgShape, FullBlock
<1> HIDE DEF t
<1>4. 2 * q + 2 <= Len(t) /\ 2 * q \in Nat
  BY <1>2, <1>3
<1>5. 2 * (q + 1) - 1 = 2 * q + 1 /\ 2 * (q + 1) = 2 * q + 2
  OBVIOUS
<1>6. Append(Append(BeforeMsg(r) \o SubSeq(t, 1, 2 * q), t[2 * q + 1]), t[2 * q + 2])
         = BeforeMsg(r) \o SubSeq(t, 1, 2 * q + 2)
  BY <1>3, <1>4, GoldenTypes, GrowByTwo
<1> QED  BY <1>3, <1>5, <1>6 DEF MsgSoFar, t

LEMMA MsgEnds ==
    ASSUME NEW r \in Requests, NEW q \in Nat,
           q * Rate <= r.msglen, r.msglen - q * Rate < Rate
    PROVE  Append(MsgSoFar(r, 2 * q), Crypt(q * Rate, r.msglen - q * Rate, MsgHow(r.dec)))
              = AfterMsg(r)
<1> DEFINE t == MsgTranscript(r.msglen, MsgHow(r.dec))
<1>1. r.msglen \in Nat /\ r.dec \in BOOLEAN
  BY RequestType
<1>2. q + 1 = NumBlocks(r.msglen)
  BY <1>1, LastBlock
<1>3. /\ t \in Transcript /\ Len(t) = 2 * (q + 1) - 1
      /\ t[2 * (q + 1) - 1] = Crypt(q * Rate, r.msglen - q * Rate, MsgHow(r.dec))
  <2>1. q + 1 \in 1 .. NumBlocks(r.msglen)
    BY <1>2
  <2> QED  BY <1>1, <1>2, <2>1, MsgShape, LastBlock
<1> HIDE DEF t
<1>4. 2 * (q + 1) - 1 = 2 * q + 1 /\ 2 * q \in Nat /\ 2 * q < Len(t)
  BY <1>3
<1>5. /\ SubSeq(t, 1, 2 * q) \in Transcript /\ t[2 * q + 1] \in Operation
      /\ Append(SubSeq(t, 1, 2 * q), t[2 * q + 1]) = SubSeq(t, 1, 2 * q + 1)
  BY <1>3, <1>4, GrowPrefix
<1>6. SubSeq(t, 1, 2 * q + 1) = t
  BY <1>3, <1>4, WholePrefix
<1>7. Append(BeforeMsg(r) \o SubSeq(t, 1, 2 * q), t[2 * q + 1])
         = BeforeMsg(r) \o Append(SubSeq(t, 1, 2 * q), t[2 * q + 1])
  <2> DEFINE u == SubSeq(t, 1, 2 * q)
             op == t[2 * q + 1]
  <2>1. u \in Transcript /\ op \in Operation /\ BeforeMsg(r) \in Transcript
    BY <1>5, GoldenTypes
  <2> HIDE DEF u, op
  <2>2. Append(BeforeMsg(r) \o u, op) = BeforeMsg(r) \o Append(u, op)
    BY <2>1, AppendBehind
  <2> QED  BY <2>2 DEF u, op
<1>8. Append(BeforeMsg(r) \o SubSeq(t, 1, 2 * q), t[2 * q + 1]) = BeforeMsg(r) \o t
  BY <1>5, <1>6, <1>7
<1> QED  BY <1>3, <1>4, <1>8 DEF MsgSoFar, AfterMsg, t

\* The state a message block is processed in, as the golden model names it.
LEMMA BeforeBlock ==
    ASSUME NEW r \in Requests, NEW q \in Nat
    PROVE  MsgSoFar(r, 2 * q) = BeforeMsgBlock(r, q + 1)
<1>1. 2 * ((q + 1) - 1) = 2 * q
  OBVIOUS
<1> QED  BY <1>1 DEF MsgSoFar, BeforeMsg, Opening, BeforeMsgBlock

LEMMA TagEnds ==
    ASSUME NEW r \in Requests
    PROVE  Append(Append(AfterMsg(r), Key(16)), P12) = GoldenTag(r)
<1>1. AfterMsg(r) \in Transcript /\ <<Key(16)>> \in Transcript
      /\ Key(16) \in Operation /\ P12 \in Operation
  BY GoldenTypes, OperationTypes, PermTypes DEF Transcript
<1>2. Append(AfterMsg(r), Key(16)) = AfterMsg(r) \o <<Key(16)>>
  BY <1>1, AppendIsConcat DEF Transcript
<1>3. Append(AfterMsg(r) \o <<Key(16)>>, P12) = AfterMsg(r) \o Append(<<Key(16)>>, P12)
  BY <1>1, AppendBehind
<1>4. Append(<<Key(16)>>, P12) = <<Key(16), P12>>
  BY AppendToTuples
<1> QED
  BY <1>2, <1>3, <1>4 DEF GoldenTag, AfterMsg, BeforeMsg, Opening
-----------------------------------------------------------------------------
(* Where a step takes the machine, and with what in the register.          *)

LEMMA Gone ==
    ASSUME NEW x, x # "PERM", Goto(x)
    PROVE  st' = x /\ Where' = x /\ Owed' = s'
BY DEF Goto, Where, Owed

LEMMA Asked ==
    ASSUME NEW ret, NEW code, Permute(code, ret)
    PROVE  /\ Where' = ret
           /\ Owed' = Append(s', IF ret \in LongReturns THEN P12 ELSE P8)
BY DEF Permute, Where, Owed

LEMMA Waits ==
    ASSUME PermWait
    PROVE  Where' = Where /\ Owed' = Owed
BY DEF PermWait, Goto, Where, Owed

\* S_PERM hands over the state with the whole permutation applied.
LEMMA Takes ==
    ASSUME IInv, PermTake
    PROVE  Where' = Where /\ Owed' = Owed /\ st' # "IDLE"
<1>1. st = "PERM" /\ pvalid /\ st' = permRet /\ permRet' = permRet
      /\ s' = Append(pout.base, Perm(pout.rounds))
  BY DEF PermTake, Goto
<1>2. /\ permRet \in LongReturns \cup ShortReturns
      /\ permRounds = IF permRet \in LongReturns THEN 2 ELSE 1
      /\ pout.base = s /\ pout.rounds = Rounds(StartIndex(permRounds), DONE)
  BY <1>1 DEF IInv, PermProgress
<1>3. permRet # "PERM" /\ permRet # "IDLE"
  BY <1>2 DEF LongReturns, ShortReturns
<1>4. Perm(pout.rounds) = IF permRet \in LongReturns THEN P12 ELSE P8
  BY <1>2, StartIndexes, WholePermutations DEF P12, P8
<1> QED  BY <1>1, <1>2, <1>3, <1>4 DEF Where, Owed

\* A step that moves neither the machine nor its results.
LEMMA Quiet ==
    ASSUME ResultInv, Where' = Where, Owed' = Owed, st' = "IDLE" <=> st = "IDLE",
           UNCHANGED <<adoff, msgoff, req, out, tag, valid, done>>
    PROVE  ResultInv'
BY DEF ResultInv, OffsetsAligned, SpongeInStep, OutputsSoFar, OutGolden, DoneHolds, ResultIsGolden,
   AdBlocks, MsgBlocks

\* What the invariants say of a request in work.
LEMMA InWork ==
    ASSUME IInv, ResultInv, st # "IDLE", st # "PERM"
    PROVE  /\ req \in Requests /\ req.adlen \in Nat /\ req.msglen \in Nat /\ req.dec \in BOOLEAN
           /\ AdBlocks \in Nat /\ adoff = AdBlocks * Rate /\ adoff <= req.adlen
           /\ MsgBlocks \in Nat /\ msgoff = MsgBlocks * Rate /\ msgoff <= req.msglen
           /\ ~done /\ Where = st /\ Owed = s
<1>1. CoreTypeOK /\ BlocksInBounds /\ OffsetsAligned /\ DoneHolds
  BY DEF IInv, ResultInv
<1>2. req \in Requests /\ adoff \in Nat /\ msgoff \in Nat /\ done \in BOOLEAN
  BY <1>1 DEF CoreTypeOK
<1>3. AdBlocks \in Nat /\ MsgBlocks \in Nat
  BY <1>2, DivideBlocks DEF AdBlocks, MsgBlocks
<1>4. ~done
  BY <1>1, <1>2 DEF DoneHolds
<1> QED
  BY <1>1, <1>2, <1>3, <1>4, RequestType DEF BlocksInBounds, OffsetsAligned, Where, Owed

LEMMA NoBlocks == 0 \div Rate = 0 /\ 0 = 0 * Rate
BY RateAssumption

LEMMA OneMoreBlock ==
    ASSUME NEW q \in Nat
    PROVE  /\ (q * Rate + Rate) \div Rate = q + 1
           /\ q * Rate + Rate = (q + 1) * Rate
<1>1. q + 1 \in Nat /\ q * Rate \in Nat /\ q * Rate + Rate = (q + 1) * Rate + 0
  BY NextOffset, RateAssumption
<1>2. q * Rate + Rate \in Nat /\ 0 < Rate
  BY <1>1, RateAssumption
<1>3. (q * Rate + Rate) \div Rate = q + 1
  BY <1>1, <1>2, DivideUnique
<1> QED  BY <1>3, NextOffset

-----------------------------------------------------------------------------
(* The invariant step by step.                                             *)

LEMMA StartStep ==
    ASSUME NEW r \in Requests, IdleStart(r)
    PROVE  ResultInv'
<1>1. /\ req' = r /\ s' = <<Load>> /\ adoff' = 0 /\ msgoff' = 0 /\ done' = FALSE
      /\ Where' = "INIT_KEY"
      /\ Owed' = Append(s', IF "INIT_KEY" \in LongReturns THEN P12 ELSE P8)
  BY Asked DEF IdleStart
<1>2. Owed' = <<Load, P12>>
  BY <1>1, AppendToTuples DEF LongReturns
<1>3. OffsetsAligned'
  BY <1>1, NoBlocks DEF OffsetsAligned, AdBlocks, MsgBlocks
<1>4. SpongeInStep'
  BY <1>1, <1>2 DEF SpongeInStep, AdStates, MsgStates
<1>5. OutputsSoFar' /\ DoneHolds'
  BY <1>1 DEF OutputsSoFar, DoneHolds, MsgStates, FinalStates
<1> QED  BY <1>3, <1>4, <1>5 DEF ResultInv

LEMMA InitKeyStep ==
    ASSUME IInv, ResultInv, InitKey
    PROVE  ResultInv'
<1>0. st = "INIT_KEY" /\ s' = Append(s, Key(24)) /\ Where' = "AD_DECIDE" /\ Owed' = s'
      /\ st' = "AD_DECIDE" /\ UNCHANGED <<adoff, msgoff, req, out, tag, valid, done>>
  <2>1. Goto("AD_DECIDE") /\ st = "INIT_KEY" /\ s' = Append(s, Key(24))
        /\ UNCHANGED <<adoff, msgoff, req, out, tag, valid, done>>
    BY DEF InitKey
  <2>2. st' = "AD_DECIDE" /\ Where' = "AD_DECIDE" /\ Owed' = s'
    BY <2>1, Gone
  <2> QED  BY <2>1, <2>2
<1>1. req \in Requests /\ Where = "INIT_KEY" /\ Owed = s /\ ~done
  BY <1>0, InWork
<1>2. s = <<Load, P12>> /\ adoff = 0 /\ msgoff = 0
  BY <1>0, <1>1 DEF ResultInv, SpongeInStep, OffsetsAligned, BeforeStates
<1>3. AdBlocks' = 0 /\ MsgBlocks' = 0
  BY <1>0, <1>2, NoBlocks DEF AdBlocks, MsgBlocks
<1>4. Owed' = AdSoFar(req, 0)
  BY <1>0, <1>1, <1>2, AppendToTuples, NothingYet DEF Opening
<1>5. OffsetsAligned'
  BY <1>0, <1>2, <1>3, NoBlocks DEF OffsetsAligned
<1>6. SpongeInStep'
  BY <1>0, <1>3, <1>4 DEF SpongeInStep, AdStates, MsgStates
<1>7. OutputsSoFar' /\ DoneHolds'
  BY <1>0, <1>1 DEF OutputsSoFar, DoneHolds, MsgStates, FinalStates
<1> QED  BY <1>5, <1>6, <1>7 DEF ResultInv

LEMMA AdDecideStep ==
    ASSUME IInv, ResultInv, AdDecide
    PROVE  ResultInv'
<1> DEFINE next == CASE req.adlen = 0 -> "DOMSEP"
                     [] req.adlen # 0 /\ AdRem >= Rate -> "AD_FULL"
                     [] OTHER -> "AD_PAD"
<1>0. st = "AD_DECIDE" /\ s' = s /\ Goto(next)
      /\ UNCHANGED <<adoff, msgoff, req, out, tag, valid, done>>
  BY DEF AdDecide
<1>1. /\ req \in Requests /\ req.adlen \in Nat /\ adoff \in Nat /\ adoff <= req.adlen
      /\ Where = "AD_DECIDE" /\ Owed = s /\ ~done
  BY <1>0, InWork DEF IInv, CoreTypeOK
<1>2. s = AdSoFar(req, 2 * AdBlocks) /\ adoff = AdBlocks * Rate
      /\ msgoff = MsgBlocks * Rate /\ msgoff = 0
  BY <1>0, <1>1 DEF ResultInv, SpongeInStep, OffsetsAligned, BeforeStates, AdStates
<1>3. next \in {"DOMSEP", "AD_FULL", "AD_PAD"} /\ (next = "DOMSEP" <=> req.adlen = 0)
  OBVIOUS
<1> HIDE DEF next
<1>4. Where' = next /\ Owed' = s' /\ st' = next
  BY <1>0, <1>3, Gone
<1>5. next = "DOMSEP" => s = Opening \o AdTranscript(req.adlen)
  <2> SUFFICES ASSUME next = "DOMSEP" PROVE s = Opening \o AdTranscript(req.adlen)
    OBVIOUS
  <2>1. req.adlen = 0 /\ AdBlocks = 0 /\ 2 * AdBlocks = 0
    BY <1>1, <1>3, NoBlocks DEF AdBlocks
  <2> QED  BY <1>1, <1>2, <2>1, NothingYet
<1>6. AdBlocks' = AdBlocks /\ MsgBlocks' = MsgBlocks
  BY <1>0 DEF AdBlocks, MsgBlocks
<1>7. OffsetsAligned'
  BY <1>0, <1>2, <1>3, <1>4, <1>6 DEF OffsetsAligned
<1>8. SpongeInStep'
  BY <1>0, <1>2, <1>3, <1>4, <1>5, <1>6 DEF SpongeInStep, AdStates, MsgStates
<1>9. OutputsSoFar' /\ DoneHolds'
  BY <1>0, <1>1, <1>3, <1>4 DEF OutputsSoFar, DoneHolds, MsgStates, FinalStates
<1> QED  BY <1>7, <1>8, <1>9 DEF ResultInv

LEMMA AdFullStep ==
    ASSUME IInv, ResultInv, AdFull
    PROVE  ResultInv'
<1>0. /\ st = "AD_FULL" /\ s' = Append(s, Absorb(adoff, Rate)) /\ adoff' = adoff + Rate
      /\ Where' = "AD_DECIDE" /\ st' = "PERM"
      /\ Owed' = Append(s', IF "AD_DECIDE" \in LongReturns THEN P12 ELSE P8)
      /\ UNCHANGED <<msgoff, req, out, tag, valid, done>>
  BY Asked DEF AdFull, Permute
<1>1. /\ req \in Requests /\ AdBlocks \in Nat /\ adoff = AdBlocks * Rate
      /\ Where = "AD_FULL" /\ Owed = s /\ ~done
  BY <1>0, InWork
<1>2. s = AdSoFar(req, 2 * AdBlocks) /\ msgoff = MsgBlocks * Rate /\ msgoff = 0
  BY <1>0, <1>1 DEF ResultInv, SpongeInStep, OffsetsAligned, BeforeStates, AdStates
<1>3. req.adlen - AdBlocks * Rate >= Rate
  BY <1>0, <1>1 DEF IInv, BlocksInBounds, AdRem
<1>4. AdBlocks' = AdBlocks + 1 /\ adoff' = (AdBlocks + 1) * Rate
  <2>1. AdBlocks' = (adoff + Rate) \div Rate
    BY <1>0 DEF AdBlocks
  <2> HIDE DEF AdBlocks
  <2> QED  BY <1>0, <1>1, <2>1, OneMoreBlock
<1>5. Owed' = AdSoFar(req, 2 * (AdBlocks + 1))
  BY <1>0, <1>1, <1>2, <1>3, AdGrows DEF LongReturns
<1>6. MsgBlocks' = MsgBlocks
  BY <1>0 DEF MsgBlocks
<1>7. OffsetsAligned'
  BY <1>0, <1>2, <1>4, <1>6 DEF OffsetsAligned
<1>8. SpongeInStep'
  BY <1>0, <1>4, <1>5 DEF SpongeInStep, AdStates, MsgStates
<1>9. OutputsSoFar' /\ DoneHolds'
  BY <1>0, <1>1 DEF OutputsSoFar, DoneHolds, MsgStates, FinalStates
<1> QED  BY <1>7, <1>8, <1>9 DEF ResultInv

LEMMA AdPadStep ==
    ASSUME IInv, ResultInv, AdPad
    PROVE  ResultInv'
<1>0. /\ st = "AD_PAD" /\ s' = Append(s, Absorb(adoff, AdRem))
      /\ Where' = "DOMSEP" /\ st' = "PERM"
      /\ Owed' = Append(s', IF "DOMSEP" \in LongReturns THEN P12 ELSE P8)
      /\ UNCHANGED <<adoff, msgoff, req, out, tag, valid, done>>
  BY Asked DEF AdPad, Permute
<1>1. /\ req \in Requests /\ AdBlocks \in Nat /\ adoff = AdBlocks * Rate /\ adoff <= req.adlen
      /\ Where = "AD_PAD" /\ Owed = s /\ ~done
  BY <1>0, InWork
<1>2. /\ s = AdSoFar(req, 2 * AdBlocks) /\ msgoff = MsgBlocks * Rate /\ msgoff = 0
      /\ req.adlen # 0
  BY <1>0, <1>1 DEF ResultInv, SpongeInStep, OffsetsAligned, BeforeStates, AdStates
<1>3. AdRem = req.adlen - AdBlocks * Rate /\ AdRem < Rate
  BY <1>0, <1>1 DEF IInv, BlocksInBounds, AdRem
<1>4. AdBlocks' = AdBlocks /\ MsgBlocks' = MsgBlocks
  BY <1>0 DEF AdBlocks, MsgBlocks
<1>5. Owed' = Opening \o AdTranscript(req.adlen)
  <2>1. Owed' = Append(Append(AdSoFar(req, 2 * AdBlocks),
                              Absorb(AdBlocks * Rate, req.adlen - AdBlocks * Rate)), P8)
    BY <1>0, <1>1, <1>2, <1>3 DEF LongReturns
  <2> QED  BY <1>1, <1>2, <1>3, <2>1, AdEnds
<1>7. OffsetsAligned'
  BY <1>0, <1>1, <1>2, <1>4 DEF OffsetsAligned
<1>8. SpongeInStep'
  BY <1>0, <1>5 DEF SpongeInStep, AdStates, MsgStates
<1>9. OutputsSoFar' /\ DoneHolds'
  BY <1>0, <1>1 DEF OutputsSoFar, DoneHolds, MsgStates, FinalStates
<1> QED  BY <1>7, <1>8, <1>9 DEF ResultInv
LEMMA DomSepStep ==
    ASSUME IInv, ResultInv, DomSep
    PROVE  ResultInv'
<1>0. /\ st = "DOMSEP" /\ s' = Append(s, DomainSep) /\ Goto("MSG_DECIDE")
      /\ UNCHANGED <<adoff, msgoff, req, out, tag, valid, done>>
  BY DEF DomSep
<1>1. req \in Requests /\ Where = "DOMSEP" /\ Owed = s /\ ~done
  BY <1>0, InWork
<1>2. Where' = "MSG_DECIDE" /\ Owed' = s' /\ st' = "MSG_DECIDE"
  BY <1>0, Gone
<1>3. /\ s = Opening \o AdTranscript(req.adlen)
      /\ adoff = AdBlocks * Rate /\ msgoff = 0
  BY <1>0, <1>1 DEF ResultInv, SpongeInStep, OffsetsAligned, BeforeStates
<1>4. MsgBlocks' = 0 /\ AdBlocks' = AdBlocks
  BY <1>0, <1>3, NoBlocks DEF AdBlocks, MsgBlocks
<1>5. Owed' = MsgSoFar(req, 0)
  <2> DEFINE t == Opening \o AdTranscript(req.adlen)
  <2>1. t \in Transcript /\ DomainSep \in Operation
    BY <1>1, GoldenTypes, OperationTypes, ConcatProperties DEF Transcript
  <2>2. BeforeMsg(req) = t \o <<DomainSep>>
    BY DEF BeforeMsg
  <2>3. Owed' = Append(t, DomainSep)
    BY <1>0, <1>2, <1>3
  <2> HIDE DEF t
  <2>4. Append(t, DomainSep) = t \o <<DomainSep>>
    BY <2>1, AppendIsConcat DEF Transcript
  <2> QED  BY <1>1, <2>2, <2>3, <2>4, NothingYet
<1>6. OffsetsAligned'
  BY <1>0, <1>2, <1>3, <1>4, NoBlocks DEF OffsetsAligned
<1>7. SpongeInStep'
  BY <1>0, <1>2, <1>4, <1>5 DEF SpongeInStep, AdStates, MsgStates
<1>8. OutputsSoFar' /\ DoneHolds'
  BY <1>0, <1>1, <1>2, <1>4 DEF OutputsSoFar, OutGolden, DoneHolds, MsgStates, FinalStates
<1> QED  BY <1>6, <1>7, <1>8 DEF ResultInv

LEMMA MsgDecideStep ==
    ASSUME IInv, ResultInv, MsgDecide
    PROVE  ResultInv'
<1> DEFINE next == IF req.msglen # 0 /\ MsgRem >= Rate THEN "MSG_FULL" ELSE "MSG_PAD"
<1>0. st = "MSG_DECIDE" /\ s' = s /\ Goto(next)
      /\ UNCHANGED <<adoff, msgoff, req, out, tag, valid, done>>
  BY DEF MsgDecide
<1>1. Where = "MSG_DECIDE" /\ Owed = s /\ ~done
  BY <1>0, InWork
<1>2. /\ s = MsgSoFar(req, 2 * MsgBlocks) /\ OutGolden(MsgBlocks)
      /\ adoff = AdBlocks * Rate /\ msgoff = MsgBlocks * Rate
  BY <1>0, <1>1 DEF ResultInv, SpongeInStep, OffsetsAligned, OutputsSoFar, MsgStates
<1>3. next \in {"MSG_FULL", "MSG_PAD"}
  OBVIOUS
<1> HIDE DEF next
<1>4. Where' = next /\ Owed' = s' /\ st' = next
  BY <1>0, <1>3, Gone
<1>5. AdBlocks' = AdBlocks /\ MsgBlocks' = MsgBlocks
  BY <1>0 DEF AdBlocks, MsgBlocks
<1>6. OffsetsAligned'
  BY <1>0, <1>2, <1>3, <1>4, <1>5 DEF OffsetsAligned, BeforeStates, AdStates
<1>7. SpongeInStep'
  BY <1>0, <1>2, <1>3, <1>4, <1>5 DEF SpongeInStep, AdStates, MsgStates
<1>8. OutputsSoFar'
  BY <1>0, <1>2, <1>3, <1>4, <1>5 DEF OutputsSoFar, OutGolden, MsgStates, FinalStates
<1>9. DoneHolds'
  BY <1>0, <1>1 DEF DoneHolds
<1> QED  BY <1>6, <1>7, <1>8, <1>9 DEF ResultInv

LEMMA MsgFullStep ==
    ASSUME IInv, ResultInv, MsgFull
    PROVE  ResultInv'
<1>0. /\ st = "MSG_FULL" /\ s' = Append(s, Crypt(msgoff, Rate, MsgHow(req.dec)))
      /\ out' = [out EXCEPT ![OutBlock] = s] /\ msgoff' = msgoff + Rate
      /\ Where' = "MSG_DECIDE" /\ st' = "PERM"
      /\ Owed' = Append(s', IF "MSG_DECIDE" \in LongReturns THEN P12 ELSE P8)
      /\ UNCHANGED <<adoff, req, tag, valid, done>>
  BY Asked DEF MsgFull, Permute
<1>1. /\ req \in Requests /\ MsgBlocks \in Nat /\ msgoff = MsgBlocks * Rate
      /\ Where = "MSG_FULL" /\ Owed = s /\ ~done /\ req.msglen \in Nat
  BY <1>0, InWork
<1>2. /\ s = MsgSoFar(req, 2 * MsgBlocks) /\ OutGolden(MsgBlocks) /\ adoff = AdBlocks * Rate
  BY <1>0, <1>1 DEF ResultInv, SpongeInStep, OffsetsAligned, OutputsSoFar, MsgStates
<1>3. req.msglen - MsgBlocks * Rate >= Rate
  BY <1>0, <1>1 DEF IInv, BlocksInBounds, MsgRem
<1>4. MsgBlocks' = MsgBlocks + 1 /\ msgoff' = (MsgBlocks + 1) * Rate
  <2>1. MsgBlocks' = (msgoff + Rate) \div Rate
    BY <1>0 DEF MsgBlocks
  <2> HIDE DEF MsgBlocks
  <2> QED  BY <1>0, <1>1, <2>1, OneMoreBlock
<1>5. Owed' = MsgSoFar(req, 2 * (MsgBlocks + 1))
  BY <1>0, <1>1, <1>2, <1>3, MsgGrows DEF LongReturns
<1>6. AdBlocks' = AdBlocks
  BY <1>0 DEF AdBlocks
<1>7. OffsetsAligned'
  BY <1>0, <1>2, <1>4, <1>6 DEF OffsetsAligned, BeforeStates, AdStates
<1>8. SpongeInStep'
  BY <1>0, <1>4, <1>5 DEF SpongeInStep, AdStates, MsgStates
<1>9. OutputsSoFar'
  <2>1. MsgBlocks + 1 \in 1 .. MaxBlocks
    BY <1>1, <1>3, FullBlock, NumBlocksType, CoreAssumption
  <2>2. out \in [1 .. MaxBlocks -> Transcript] /\ out' = [out EXCEPT ![MsgBlocks + 1] = s]
    BY <1>0 DEF IInv, CoreTypeOK, OutBlock, MsgBlocks
  <2>3. out'[MsgBlocks + 1] = BeforeMsgBlock(req, MsgBlocks + 1)
    BY <1>1, <1>2, <2>1, <2>2, BeforeBlock
  <2>4. ASSUME NEW k \in 1 .. MsgBlocks  PROVE out'[k] = BeforeMsgBlock(req, k)
    BY <1>1, <1>2, <2>1, <2>2 DEF OutGolden
  <2>5. ASSUME NEW k \in 1 .. MsgBlocks + 1  PROVE out'[k] = BeforeMsgBlock(req, k)
    <3>1. k = MsgBlocks + 1 \/ k \in 1 .. MsgBlocks
      BY <1>1
    <3> QED  BY <2>3, <2>4, <3>1
  <2>6. OutGolden(MsgBlocks)'
    BY <1>0, <1>4, <2>5 DEF OutGolden
  <2> QED  BY <1>0, <2>6 DEF OutputsSoFar, MsgStates, FinalStates
<1>10. DoneHolds'
  BY <1>0, <1>1 DEF DoneHolds
<1> QED  BY <1>7, <1>8, <1>9, <1>10 DEF ResultInv

LEMMA MsgPadStep ==
    ASSUME IInv, ResultInv, MsgPad
    PROVE  ResultInv'
<1>0. /\ st = "MSG_PAD" /\ s' = Append(s, Crypt(msgoff, MsgRem, MsgHow(req.dec)))
      /\ out' = [out EXCEPT ![OutBlock] = s] /\ Goto("FIN_KEY")
      /\ UNCHANGED <<adoff, msgoff, req, tag, valid, done>>
  BY DEF MsgPad
<1>1. /\ req \in Requests /\ MsgBlocks \in Nat /\ msgoff = MsgBlocks * Rate /\ msgoff <= req.msglen
      /\ Where = "MSG_PAD" /\ Owed = s /\ ~done /\ req.msglen \in Nat
  BY <1>0, InWork
<1>2. Where' = "FIN_KEY" /\ Owed' = s' /\ st' = "FIN_KEY"
  BY <1>0, Gone
<1>3. /\ s = MsgSoFar(req, 2 * MsgBlocks) /\ OutGolden(MsgBlocks) /\ adoff = AdBlocks * Rate
  BY <1>0, <1>1 DEF ResultInv, SpongeInStep, OffsetsAligned, OutputsSoFar, MsgStates
<1>4. MsgRem = req.msglen - MsgBlocks * Rate /\ MsgRem < Rate
  BY <1>0, <1>1 DEF IInv, BlocksInBounds, MsgRem
<1>5. Owed' = AfterMsg(req)
  <2>1. Owed' = Append(MsgSoFar(req, 2 * MsgBlocks),
                       Crypt(MsgBlocks * Rate, req.msglen - MsgBlocks * Rate, MsgHow(req.dec)))
    BY <1>0, <1>1, <1>2, <1>3, <1>4
  <2> QED  BY <1>1, <1>4, <2>1, MsgEnds
<1>6. AdBlocks' = AdBlocks /\ MsgBlocks' = MsgBlocks
  BY <1>0 DEF AdBlocks, MsgBlocks
<1>7. OffsetsAligned'
  BY <1>0, <1>1, <1>2, <1>3, <1>6 DEF OffsetsAligned, BeforeStates, AdStates
<1>8. SpongeInStep'
  BY <1>0, <1>2, <1>5 DEF SpongeInStep, AdStates, MsgStates
<1>9. OutputsSoFar'
  <2>1. MsgBlocks + 1 = NumBlocks(req.msglen) /\ MsgBlocks + 1 \in 1 .. MaxBlocks
    <3>1. MsgBlocks + 1 = NumBlocks(req.msglen)
      BY <1>1, <1>4, LastBlock
    <3> QED  BY <1>1, <3>1, CoreAssumption
  <2>2. out \in [1 .. MaxBlocks -> Transcript] /\ out' = [out EXCEPT ![MsgBlocks + 1] = s]
    BY <1>0 DEF IInv, CoreTypeOK, OutBlock, MsgBlocks
  <2>3. out'[MsgBlocks + 1] = BeforeMsgBlock(req, MsgBlocks + 1)
    BY <1>1, <1>3, <2>1, <2>2, BeforeBlock
  <2>4. ASSUME NEW k \in 1 .. MsgBlocks  PROVE out'[k] = BeforeMsgBlock(req, k)
    BY <1>1, <1>3, <2>1, <2>2 DEF OutGolden
  <2>5. ASSUME NEW k \in 1 .. MsgBlocks + 1  PROVE out'[k] = BeforeMsgBlock(req, k)
    <3>1. k = MsgBlocks + 1 \/ k \in 1 .. MsgBlocks
      BY <1>1
    <3> QED  BY <2>3, <2>4, <3>1
  <2>6. OutGolden(NumBlocks(req.msglen))'
    BY <1>0, <2>1, <2>5 DEF OutGolden
  <2> QED  BY <1>2, <2>6 DEF OutputsSoFar, MsgStates, FinalStates
<1>10. DoneHolds'
  BY <1>0, <1>1 DEF DoneHolds
<1> QED  BY <1>7, <1>8, <1>9, <1>10 DEF ResultInv

LEMMA FinKeyStep ==
    ASSUME IInv, ResultInv, FinKey
    PROVE  ResultInv'
<1>0. /\ st = "FIN_KEY" /\ s' = Append(s, Key(16)) /\ st' = "PERM" /\ Where' = "FIN_TAG"
      /\ Owed' = Append(s', IF "FIN_TAG" \in LongReturns THEN P12 ELSE P8)
      /\ UNCHANGED <<adoff, msgoff, req, out, tag, valid, done>>
  BY Asked DEF FinKey, Permute
<1>1. req \in Requests /\ Where = "FIN_KEY" /\ Owed = s /\ ~done
  BY <1>0, InWork
<1>2. /\ s = AfterMsg(req) /\ OutGolden(NumBlocks(req.msglen))
      /\ adoff = AdBlocks * Rate /\ msgoff = MsgBlocks * Rate
  BY <1>0, <1>1 DEF ResultInv, SpongeInStep, OffsetsAligned, OutputsSoFar, FinalStates
<1>3. Owed' = GoldenTag(req)
  BY <1>0, <1>1, <1>2, TagEnds DEF LongReturns
<1>4. AdBlocks' = AdBlocks /\ MsgBlocks' = MsgBlocks
  BY <1>0 DEF AdBlocks, MsgBlocks
<1>5. OffsetsAligned'
  BY <1>0, <1>2, <1>4 DEF OffsetsAligned, BeforeStates, AdStates
<1>6. SpongeInStep'
  BY <1>0, <1>3 DEF SpongeInStep, AdStates, MsgStates
<1>7. OutputsSoFar'
  BY <1>0, <1>2 DEF OutputsSoFar, OutGolden, MsgStates, FinalStates
<1>8. DoneHolds'
  BY <1>0, <1>1 DEF DoneHolds
<1> QED  BY <1>5, <1>6, <1>7, <1>8 DEF ResultInv

LEMMA FinTagStep ==
    ASSUME IInv, ResultInv, FinTag
    PROVE  ResultInv'
<1>0. /\ st = "FIN_TAG" /\ tag' = s /\ valid' = (req.dec => s = req.tag) /\ done' = TRUE
      /\ Goto("IDLE") /\ UNCHANGED <<s, adoff, msgoff, req, out>>
  BY DEF FinTag
<1>1. req \in Requests /\ req # None /\ Where = "FIN_TAG" /\ Owed = s
  BY <1>0, InWork, RequestType
<1>2. Where' = "IDLE" /\ st' = "IDLE"
  BY <1>0, Gone
<1>3. s = GoldenTag(req) /\ OutGolden(NumBlocks(req.msglen))
  BY <1>0, <1>1 DEF ResultInv, SpongeInStep, OutputsSoFar, FinalStates
<1>4. ASSUME NEW k \in 1 .. NumBlocks(req.msglen)  PROVE out[k] = GoldenOut(req)[k]
  BY <1>3 DEF OutGolden, GoldenOut
<1>5. valid' = (req.dec => req.tag = GoldenTag(req))
  BY <1>0, <1>3
<1>6. ResultIsGolden'
  BY <1>0, <1>3, <1>4, <1>5 DEF ResultIsGolden
<1>7. OffsetsAligned' /\ SpongeInStep' /\ OutputsSoFar'
  BY <1>2 DEF OffsetsAligned, SpongeInStep, OutputsSoFar, AdStates, MsgStates, FinalStates
<1>8. DoneHolds'
  BY <1>0, <1>1, <1>2, <1>6 DEF DoneHolds
<1> QED  BY <1>7, <1>8 DEF ResultInv
LEMMA InitResultInv == Init => ResultInv
<1> SUFFICES ASSUME Init PROVE ResultInv
  OBVIOUS
<1>1. st = "IDLE" /\ done = FALSE
  BY DEF Init, CoreInit
<1>2. Where = "IDLE"
  BY <1>1 DEF Where
<1> QED
  BY <1>1, <1>2 DEF ResultInv, OffsetsAligned, SpongeInStep, OutputsSoFar, DoneHolds,
     AdStates, MsgStates, FinalStates

LEMMA WaitStep ==
    ASSUME IInv, ResultInv, IdleWait \/ PermWait \/ PermTake
    PROVE  ResultInv'
<1>1. CASE IdleWait
  <2>1. st = "IDLE" /\ Goto("IDLE") /\ UNCHANGED <<s, adoff, msgoff, req, out, tag, valid, done>>
    BY <1>1 DEF IdleWait
  <2>2. st' = "IDLE" /\ Where' = "IDLE" /\ Owed' = s'
    BY <2>1, Gone
  <2>3. Where' = Where /\ Owed' = Owed
    BY <2>1, <2>2 DEF Where, Owed
  <2> QED  BY <2>1, <2>2, <2>3, Quiet
<1>2. CASE PermWait
  <2>1. st = "PERM" /\ st' = "PERM" /\ UNCHANGED <<adoff, msgoff, req, out, tag, valid, done>>
    BY <1>2 DEF PermWait, Goto
  <2> QED  BY <1>2, <2>1, Waits, Quiet
<1>3. CASE PermTake
  <2>1. st = "PERM" /\ UNCHANGED <<adoff, msgoff, req, out, tag, valid, done>>
    BY <1>3 DEF PermTake
  <2> QED  BY <1>3, <2>1, Takes, Quiet
<1> QED  BY <1>1, <1>2, <1>3

LEMMA NextResultInv ==
    ASSUME IInv, ResultInv, [Next]_vars
    PROVE  ResultInv'
<1>1. CASE Next
  BY <1>1, StartStep, WaitStep, InitKeyStep, AdDecideStep, AdFullStep, AdPadStep, DomSepStep,
     MsgDecideStep, MsgFullStep, MsgPadStep, FinKeyStep, FinTagStep
     DEF Next, Start, Rest, Busy, Work
<1>2. CASE UNCHANGED vars
  <2>1. Where' = Where /\ Owed' = Owed /\ st' = st
        /\ UNCHANGED <<adoff, msgoff, req, out, tag, valid, done>>
    BY <1>2 DEF vars, coreVars, Where, Owed
  <2> QED  BY <2>1, Quiet
<1> QED  BY <1>1, <1>2

-----------------------------------------------------------------------------
(* The theorems.                                                           *)

\* At every edge the sponge has been through exactly the golden operations up to
\* where the machine is, and the output blocks so far are the golden ones
\* (rtl/generated/accel/ascon_aead128_core.v).
THEOREM ResultInvariance == Spec => [](IInv /\ ResultInv)
<1>1. Init => IInv /\ ResultInv
  BY InitIInv, InitResultInv
<1>2. IInv /\ ResultInv /\ [Next]_vars => IInv' /\ ResultInv'
  BY NextIInv, NextResultInv
<1> QED  BY <1>1, <1>2, PTL DEF Spec

\* Whatever the block size, the lengths, the direction and the rounds per cycle,
\* a request that done_o reports finished holds the golden model's tag, output
\* blocks and verdict, and still does while the core idles afterwards.
THEOREM ResultsGolden == Spec => []ResultIsGolden
<1>1. ResultInv => ResultIsGolden
  BY DEF ResultInv, DoneHolds, ResultIsGolden
<1> QED  BY <1>1, ResultInvariance, PTL

-----------------------------------------------------------------------------
(* The core implements its contract, step by step.                         *)

ContractNext == [Contract!Next]_(Contract!vars)

\* What the contract calls the result of the request just finished.
HeldGolden == done => HeldResult = GoldenResult(req)

\* out_o read as a sequence of blocks is the golden output.
LEMMA HeldIsGolden ==
    ASSUME IInv, ResultInv
    PROVE  HeldGolden
<1> SUFFICES ASSUME done PROVE HeldResult = GoldenResult(req)
  BY DEF HeldGolden
<1> DEFINE nb == NumBlocks(req.msglen)
           gold == GoldenOut(req)
           held == SubSeq(out, 1, nb)
<1>1. req \in Requests /\ ResultIsGolden /\ out \in [1 .. MaxBlocks -> Transcript]
  BY DEF IInv, CoreTypeOK, ResultInv, DoneHolds
<1>2. nb \in Nat /\ nb <= MaxBlocks /\ MaxBlocks \in Nat
  BY <1>1, RequestType, NumBlocksType, CoreAssumption
<1>3. \A k \in 1 .. nb : out[k] = gold[k] /\ out[k] \in Transcript
  BY <1>1, <1>2 DEF ResultIsGolden
<1>4. gold = [k \in 1 .. nb |-> BeforeMsgBlock(req, k)]
  BY DEF GoldenOut
<1> HIDE DEF nb, gold
<1>5. gold \in [1 .. nb -> Transcript]
  BY <1>3, <1>4
<1>6. gold \in Seq(Transcript) /\ Len(gold) = nb
  BY <1>2, <1>5, FunctionIsSeq
<1>7. /\ held \in Seq(Transcript) /\ Len(held) = nb
      /\ \A k \in 1 .. nb : held[k] = out[k]
  <2>1. /\ held \in Seq(Transcript)
        /\ Len(held) = IF 1 <= nb THEN nb - 1 + 1 ELSE 0
        /\ \A k \in 1 .. nb - 1 + 1 : held[k] = out[1 + k - 1]
    BY <1>2, <1>3, SubSeqProperties
  <2> HIDE DEF held
  <2>2. nb - 1 + 1 = nb /\ \A k \in 1 .. nb : 1 + k - 1 = k
    BY <1>2
  <2> QED  BY <1>2, <2>1, <2>2
<1> HIDE DEF held
<1>8. \A k \in 1 .. Len(held) : held[k] = gold[k]
  BY <1>3, <1>7
<1>9. held = gold
  BY <1>6, <1>7, <1>8, SeqEqual
<1>10. tag = GoldenTag(req) /\ valid = (req.dec => req.tag = GoldenTag(req))
  BY <1>1 DEF ResultIsGolden
<1> QED  BY <1>9, <1>10 DEF HeldResult, GoldenResult, held, gold, nb

LEMMA RefinesInit == Init => Contract!Init
BY DEF Init, CoreInit, Contract!Init, HeldResult

LEMMA RefinesStart ==
    ASSUME NEW r \in Requests, IdleStart(r)
    PROVE  Contract!Accept(r)
<1>1. st = "IDLE" /\ st' = "PERM" /\ req' = r /\ done' = FALSE
  BY DEF IdleStart, Permute
<1> QED  BY <1>1 DEF Contract!Accept, HeldResult

LEMMA RefinesFinish ==
    ASSUME FinTag, HeldGolden'
    PROVE  Contract!Finish
<1>1. st = "FIN_TAG" /\ st' = "IDLE" /\ req' = req /\ done' = TRUE
  BY DEF FinTag, Goto
<1>2. HeldResult' = GoldenResult(req)
  BY <1>1 DEF HeldGolden, GoldenResult
<1> QED  BY <1>1, <1>2 DEF Contract!Finish

\* Between a start and the finish nothing shows.
LEMMA RefinesWork ==
    ASSUME IInv, ResultInv, st # "IDLE", st' # "IDLE", req' = req, done' = done
    PROVE  UNCHANGED Contract!vars
<1>1. ~done
  BY DEF ResultInv, DoneHolds
<1> QED  BY <1>1 DEF Contract!vars, HeldResult

LEMMA RefinesRest ==
    ASSUME st' = st, UNCHANGED <<req, out, tag, valid, done>>
    PROVE  UNCHANGED Contract!vars
BY DEF Contract!vars, HeldResult

LEMMA RefinesNext ==
    ASSUME IInv, ResultInv, HeldGolden', [Next]_vars
    PROVE  ContractNext
<1> USE DEF ContractNext
<1>1. ASSUME NEW r \in Requests, IdleStart(r)  PROVE ContractNext
  BY <1>1, RefinesStart DEF Contract!Next
<1>2. CASE IdleWait
  <2>1. st' = st /\ UNCHANGED <<req, out, tag, valid, done>>
    BY <1>2 DEF IdleWait, Goto
  <2> QED  BY <2>1, RefinesRest
<1>3. CASE FinTag
  BY <1>3, RefinesFinish DEF Contract!Next
<1>4. CASE PermTake
  <2>1. st # "IDLE" /\ st' # "IDLE" /\ req' = req /\ done' = done
    BY <1>4, Takes DEF PermTake
  <2> QED  BY <2>1, RefinesWork
<1>5. CASE PermWait \/ InitKey \/ AdFull \/ AdPad \/ DomSep \/ MsgFull \/ MsgPad \/ FinKey
  <2>1. st # "IDLE" /\ st' # "IDLE" /\ req' = req /\ done' = done
    BY <1>5 DEF PermWait, InitKey, AdFull, AdPad, DomSep, MsgFull, MsgPad, FinKey, Goto, Permute
  <2> QED  BY <2>1, RefinesWork
<1>6. CASE AdDecide \/ MsgDecide
  <2>1. st # "IDLE" /\ st' # "IDLE" /\ req' = req /\ done' = done
    BY <1>6 DEF AdDecide, MsgDecide, Goto
  <2> QED  BY <2>1, RefinesWork
<1>7. CASE UNCHANGED vars
  <2>1. st' = st /\ UNCHANGED <<req, out, tag, valid, done>>
    BY <1>7 DEF vars, coreVars
  <2> QED  BY <2>1, RefinesRest
<1> QED
  BY <1>1, <1>2, <1>3, <1>4, <1>5, <1>6, <1>7 DEF Next, Start, Rest, Busy, Work

\* The safety part of ImplementsContract: the core takes one request at a time,
\* ignores a start while it works, ends a request with the result of that very
\* request and holds it until the next start is accepted.
THEOREM RefinesContract == Spec => Contract!Init /\ [][Contract!Next]_(Contract!vars)
<1>1. Init => Contract!Init
  BY RefinesInit
<1>2. IInv /\ ResultInv => HeldGolden
  BY HeldIsGolden
<1>3. IInv /\ ResultInv /\ HeldGolden' /\ [Next]_vars => [Contract!Next]_(Contract!vars)
  BY RefinesNext DEF ContractNext
<1> QED  BY <1>1, <1>2, <1>3, ResultInvariance, PTL DEF Spec
=============================================================================
