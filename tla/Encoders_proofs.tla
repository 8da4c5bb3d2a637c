---------------------------- MODULE Encoders_proofs ----------------------------
(***************************************************************************)
(* Proofs about the encoders, for any audio and any memory.  G.722: both   *)
(* bands keep to integers, the poles to the triangle in which the          *)
(* predictor is stable, the scales to the table, and the quantizers are    *)
(* monotone.  G.711: the codes keep to their bits and locate the samples.  *)
(*                                                                         *)
(* What is computed by a recursive function needs that the function        *)
(* exists: were it missing for some length, it would be for a least one.   *)
(***************************************************************************)
EXTENDS MCEncoders, TLAPS, SequenceTheorems, WellFoundedInduction

-----------------------------------------------------------------------------
(* Arithmetic *)

LEMMA ShortIsInt == Short \subseteq Int
<1>1. SHRT_MIN \in Int /\ SHRT_MAX \in Int
  BY DEF SHRT_MIN, SHRT_MAX
<1> QED
  BY <1>1 DEF Short

LEMMA SaturateType ==
    ASSUME NEW n \in Int
    PROVE  Saturate(n) \in Int /\ -32768 <= Saturate(n) /\ Saturate(n) <= 32767
  BY DEF Saturate

LEMMA SaturateAddShortType ==
    ASSUME NEW m \in Int, NEW n \in Int
    PROVE  SaturateAddShort(m, n) \in Int
  BY SaturateType DEF SaturateAddShort

LEMMA SaturateAddShortBounds ==
    ASSUME NEW m \in Int, NEW n \in Int
    PROVE  -32768 <= SaturateAddShort(m, n) /\ SaturateAddShort(m, n) <= 32767
  BY SaturateType DEF SaturateAddShort

LEMMA SaturateSubtractShortType ==
    ASSUME NEW m \in Int, NEW n \in Int
    PROVE  SaturateSubtractShort(m, n) \in Int
  BY SaturateType DEF SaturateSubtractShort

LEMMA SaturateSubtractShortBounds ==
    ASSUME NEW m \in Int, NEW n \in Int
    PROVE  -32768 <= SaturateSubtractShort(m, n) /\ SaturateSubtractShort(m, n) <= 32767
  BY SaturateType DEF SaturateSubtractShort

LEMMA SaturateAddType ==
    ASSUME NEW m \in Int, NEW n \in Int
    PROVE  SaturateAdd(m, n) \in Int
  BY DEF SaturateAdd

LEMMA ScaledMultType ==
    ASSUME NEW m \in Int, NEW n \in Int
    PROVE  ScaledMult(m, n) \in Int
<1>1. PICK product \in Int : product = m * n
  BY Z3
<1>2. product \div 32768 \in Int
  BY Z3
<1> QED
  BY <1>1, <1>2 DEF ScaledMult

LEMMA ShiftsAreScalings ==
    ASSUME NEW n \in Int
    PROVE  /\ ShiftLeftShort(n, 2) = Saturate(4 * n)
           /\ ShiftLeftShort(n, 3) = Saturate(8 * n)
           /\ ShiftRightShort(n, 2) = n \div 4
           /\ ShiftRightShort(n, 6) = n \div 64
           /\ ShiftRightShort(n, 7) = n \div 128
<1>1. 2 ^ 2 = 4 /\ 2 ^ 3 = 8 /\ 2 ^ 6 = 64 /\ 2 ^ 7 = 128
  OBVIOUS
<1>2. n * 4 = 4 * n /\ n * 8 = 8 * n
  OBVIOUS
<1> QED
  BY <1>1, <1>2, Zenon DEF ShiftLeftShort, ShiftRightShort

LEMMA ShiftTypes ==
    ASSUME NEW n \in Int
    PROVE  /\ ShiftLeftShort(n, 2) \in Int /\ ShiftLeftShort(n, 3) \in Int
           /\ ShiftRightShort(n, 2) \in Int /\ ShiftRightShort(n, 6) \in Int
           /\ ShiftRightShort(n, 7) \in Int
<1>1. n \div 4 \in Int /\ n \div 64 \in Int /\ n \div 128 \in Int
  BY Z3
<1>2. Saturate(4 * n) \in Int /\ Saturate(8 * n) \in Int
  <2>1. 4 * n \in Int /\ 8 * n \in Int
    OBVIOUS
  <2> QED
    BY <2>1, SaturateType
<1>3. /\ ShiftLeftShort(n, 2) = Saturate(4 * n)
      /\ ShiftLeftShort(n, 3) = Saturate(8 * n)
      /\ ShiftRightShort(n, 2) = n \div 4
      /\ ShiftRightShort(n, 6) = n \div 64
      /\ ShiftRightShort(n, 7) = n \div 128
  BY ShiftsAreScalings
<1> QED
  BY <1>1, <1>2, <1>3

LEMMA ShiftRightType ==
    ASSUME NEW n \in Int
    PROVE  ShiftRightShort(n, 7) \in Int
  BY ShiftTypes, Zenon

(* The factors with which the code forgets: their numbers are too large for   *)
(* the provers to look at.                                                    *)
LEMMA FactorTypes ==
    ASSUME NEW m \in Int
    PROVE  ScaledMult(m, 32512) \in Int /\ ScaledMult(m, 32640) \in Int
<1>1. PICK n \in Int : n = 32512
  OBVIOUS
<1>2. PICK k \in Int : k = 32640
  OBVIOUS
<1>3. ScaledMult(m, n) \in Int /\ ScaledMult(m, k) \in Int
  BY ScaledMultType
<1> QED
  BY <1>1, <1>2, <1>3

-----------------------------------------------------------------------------
(* Tables *)

LEMMA CoefficientsOfQmf == Len(coef_qmf) = 24 /\ coef_qmf \in Seq(Int)
  BY DEF coef_qmf

LEMMA SizeOfIla == Len(ila) = 353
  BY DEF ila

LEMMA ScalesOfIla == ila \in Seq(Nat)
  BY DEF ila

LEMMA QuantizerTables ==
    /\ \A i \in 1 .. 31 : q6[i] \in Nat /\ q6[i] <= 3200
    /\ \A i \in 1 .. 16 : ril4[i] \in 0 .. 7
    /\ \A i \in 1 .. 8 : oq4[i] \in Nat /\ oq4[i] <= 2557 /\ wl[i] \in Int
    /\ \A i \in 1 .. 4 : ih2[i] \in 1 .. 2
    /\ \A i \in 1 .. 3 : oq2[i] \in Nat /\ oq2[i] <= 926 /\ wh[i] \in Int
<1>1. \A i \in 1 .. 31 : q6[i] \in Nat /\ q6[i] <= 3200
  BY DEF q6
<1>2. \A i \in 1 .. 16 : ril4[i] \in 0 .. 7
  BY DEF ril4
<1>3. \A i \in 1 .. 8 : oq4[i] \in Nat /\ oq4[i] <= 2557 /\ wl[i] \in Int
  BY DEF oq4, wl
<1>4. \A i \in 1 .. 4 : ih2[i] \in 1 .. 2
  BY DEF ih2
<1>5. \A i \in 1 .. 3 : oq2[i] \in Nat /\ oq2[i] <= 926 /\ wh[i] \in Int
  BY DEF oq2, wh
<1> QED
  BY <1>1, <1>2, <1>3, <1>4, <1>5

-----------------------------------------------------------------------------
(* Sums *)

(* A nonempty set of natural numbers has a least element. *)
LEMMA LeastNumber ==
    ASSUME NEW S \in SUBSET Nat, S # {}
    PROVE  \E x \in S : \A y \in S : x <= y
<1> DEFINE R == {ss \in Nat \X Nat : ss[1] < ss[2]}
<1>1. IsWellFoundedOn(R, Nat)
  BY NatLessThanWellFounded DEF OpToRel
<1>2. PICK x \in S : \A y \in S : ~ (<< y, x >> \in R)
  <2> HIDE DEF R
  <2> QED
    BY <1>1, WFMin
<1>3. ASSUME NEW y \in S
      PROVE  x <= y
  <2>1. << y, x >> \in Nat \X Nat /\ ~ (<< y, x >> \in R)
    BY <1>2
  <2>2. ~ (y < x)
    BY <2>1
  <2> QED
    BY <2>2
<1> QED
  BY <1>3

(* Both loops of sums exist for integers, and their sums are integers. *)
ShortSums(f, term, n) ==
    f = [i \in 0 .. n |-> IF i = 0 THEN 0 ELSE SaturateAddShort(f[i - 1], term[i])]

IntSums(f, term, n) ==
    f = [i \in 0 .. n |-> IF i = 0 THEN 0 ELSE SaturateAdd(f[i - 1], term[i])]

LEMMA ShortSumsExist ==
    ASSUME NEW n \in Nat, NEW term
    PROVE  \E f : ShortSums(f, term, n)
<1> DEFINE Missing == {m \in Nat : ~ \E f : ShortSums(f, term, m)}
<1>1. SUFFICES ASSUME Missing # {} PROVE FALSE
  OBVIOUS
<1>2. PICK m \in Missing : \A y \in Missing : m <= y
  BY <1>1, LeastNumber
<1>3. m # 0
  <2>1. ShortSums([i \in 0 .. 0 |-> 0], term, 0)
    BY DEF ShortSums
  <2> QED
    BY <2>1
<1>4. m - 1 \in Nat /\ m - 1 \notin Missing /\ m \in Nat
  BY <1>2, <1>3
<1>5. PICK f : ShortSums(f, term, m - 1)
  BY <1>4
<1> DEFINE g == [i \in 0 .. m |->
                    IF i = m THEN SaturateAddShort(f[m - 1], term[m]) ELSE f[i]]
<1>6. ASSUME NEW i \in 0 .. m
      PROVE  g[i] = IF i = 0 THEN 0 ELSE SaturateAddShort(g[i - 1], term[i])
  <2>1. CASE i = m
    <3>1. i # 0 /\ g[i - 1] = f[m - 1] /\ g[i] = SaturateAddShort(f[m - 1], term[m])
      BY <1>3, <1>4, <2>1
    <3> QED
      BY <2>1, <3>1, Zenon
  <2>2. CASE i # m
    <3>1. i \in 0 .. m - 1 /\ g[i] = f[i]
      BY <1>4, <2>2
    <3>2. f[i] = IF i = 0 THEN 0 ELSE SaturateAddShort(f[i - 1], term[i])
      BY <1>5, <3>1, Zenon DEF ShortSums
    <3>3. i # 0 => g[i - 1] = f[i - 1]
      BY <1>4, <3>1
    <3> QED
      BY <3>1, <3>2, <3>3, Zenon
  <2> QED
    BY <2>1, <2>2
<1>7. g = [i \in 0 .. m |-> IF i = 0 THEN 0 ELSE SaturateAddShort(g[i - 1], term[i])]
  <2>1. g = [i \in 0 .. m |-> g[i]]
    OBVIOUS
  <2> HIDE DEF g
  <2> QED
    BY <1>6, <2>1, Zenon
<1>8. ShortSums(g, term, m)
  <2> HIDE DEF g
  <2> QED
    BY <1>7, Zenon DEF ShortSums
<1> HIDE DEF g
<1> QED
  BY <1>2, <1>8

LEMMA ShortSumsType ==
    ASSUME NEW n \in Nat, NEW term \in [1 .. n -> Int], NEW f, ShortSums(f, term, n)
    PROVE  \A i \in 0 .. n : f[i] \in Int
<1> DEFINE Other == {i \in 0 .. n : f[i] \notin Int}
<1>1. SUFFICES ASSUME Other # {} PROVE FALSE
  OBVIOUS
<1>2. PICK m \in Other : \A y \in Other : m <= y
  <2>1. Other \in SUBSET Nat
    OBVIOUS
  <2> QED
    BY <1>1, <2>1, LeastNumber
<1>3. f[m] = IF m = 0 THEN 0 ELSE SaturateAddShort(f[m - 1], term[m])
  <2>1. \A i \in 0 .. n : f[i] = IF i = 0 THEN 0 ELSE SaturateAddShort(f[i - 1], term[i])
    BY Zenon DEF ShortSums
  <2> QED
    BY <2>1
<1>4. m # 0
  BY <1>3
<1>5. m - 1 \in 0 .. n /\ m - 1 \notin Other /\ m \in 1 .. n
  BY <1>2, <1>4
<1>6. f[m - 1] \in Int /\ term[m] \in Int
  BY <1>5
<1>7. SaturateAddShort(f[m - 1], term[m]) \in Int
  BY <1>6, SaturateAddShortType
<1> QED
  BY <1>3, <1>4, <1>7

LEMMA IntSumsExist ==
    ASSUME NEW n \in Nat, NEW term
    PROVE  \E f : IntSums(f, term, n)
<1> DEFINE Missing == {m \in Nat : ~ \E f : IntSums(f, term, m)}
<1>1. SUFFICES ASSUME Missing # {} PROVE FALSE
  OBVIOUS
<1>2. PICK m \in Missing : \A y \in Missing : m <= y
  BY <1>1, LeastNumber
<1>3. m # 0
  <2>1. IntSums([i \in 0 .. 0 |-> 0], term, 0)
    BY DEF IntSums
  <2> QED
    BY <2>1
<1>4. m - 1 \in Nat /\ m - 1 \notin Missing /\ m \in Nat
  BY <1>2, <1>3
<1>5. PICK f : IntSums(f, term, m - 1)
  BY <1>4
<1> DEFINE g == [i \in 0 .. m |->
                    IF i = m THEN SaturateAdd(f[m - 1], term[m]) ELSE f[i]]
<1>6. ASSUME NEW i \in 0 .. m
      PROVE  g[i] = IF i = 0 THEN 0 ELSE SaturateAdd(g[i - 1], term[i])
  <2>1. CASE i = m
    <3>1. i # 0 /\ g[i - 1] = f[m - 1] /\ g[i] = SaturateAdd(f[m - 1], term[m])
      BY <1>3, <1>4, <2>1
    <3> QED
      BY <2>1, <3>1, Zenon
  <2>2. CASE i # m
    <3>1. i \in 0 .. m - 1 /\ g[i] = f[i]
      BY <1>4, <2>2
    <3>2. f[i] = IF i = 0 THEN 0 ELSE SaturateAdd(f[i - 1], term[i])
      BY <1>5, <3>1, Zenon DEF IntSums
    <3>3. i # 0 => g[i - 1] = f[i - 1]
      BY <1>4, <3>1
    <3> QED
      BY <3>1, <3>2, <3>3, Zenon
  <2> QED
    BY <2>1, <2>2
<1>7. g = [i \in 0 .. m |-> IF i = 0 THEN 0 ELSE SaturateAdd(g[i - 1], term[i])]
  <2>1. g = [i \in 0 .. m |-> g[i]]
    OBVIOUS
  <2> HIDE DEF g
  <2> QED
    BY <1>6, <2>1, Zenon
<1>8. IntSums(g, term, m)
  <2> HIDE DEF g
  <2> QED
    BY <1>7, Zenon DEF IntSums
<1> HIDE DEF g
<1> QED
  BY <1>2, <1>8

LEMMA IntSumsType ==
    ASSUME NEW n \in Nat, NEW term \in [1 .. n -> Int], NEW f, IntSums(f, term, n)
    PROVE  \A i \in 0 .. n : f[i] \in Int
<1> DEFINE Other == {i \in 0 .. n : f[i] \notin Int}
<1>1. SUFFICES ASSUME Other # {} PROVE FALSE
  OBVIOUS
<1>2. PICK m \in Other : \A y \in Other : m <= y
  <2>1. Other \in SUBSET Nat
    OBVIOUS
  <2> QED
    BY <1>1, <2>1, LeastNumber
<1>3. f[m] = IF m = 0 THEN 0 ELSE SaturateAdd(f[m - 1], term[m])
  <2>1. \A i \in 0 .. n : f[i] = IF i = 0 THEN 0 ELSE SaturateAdd(f[i - 1], term[i])
    BY Zenon DEF IntSums
  <2> QED
    BY <2>1
<1>4. m # 0
  BY <1>3
<1>5. m - 1 \in 0 .. n /\ m - 1 \notin Other /\ m \in 1 .. n
  BY <1>2, <1>4
<1>6. f[m - 1] \in Int /\ term[m] \in Int
  BY <1>5
<1>7. SaturateAdd(f[m - 1], term[m]) \in Int
  BY <1>6, SaturateAddType
<1> QED
  BY <1>3, <1>4, <1>7

LEMMA FiltezType ==
    ASSUME NEW d \in [0 .. 6 -> Int], NEW b \in [0 .. 6 -> Int]
    PROVE  Filtez(d, b) \in Int
<1> DEFINE term == [i \in 1 .. 6 |-> ScaledMult(Doubled(d[7 - i]), b[7 - i])]
           szl == CHOOSE f : f = [i \in 0 .. 6 |->
                                    IF i = 0 THEN 0 ELSE SaturateAddShort(f[i - 1], term[i])]
<1>1. term \in [1 .. 6 -> Int]
  <2>1. ASSUME NEW i \in 1 .. 6
        PROVE  ScaledMult(Doubled(d[7 - i]), b[7 - i]) \in Int
    <3>1. d[7 - i] \in Int /\ b[7 - i] \in Int
      OBVIOUS
    <3>2. Doubled(d[7 - i]) \in Int
      BY <3>1, SaturateAddShortType, Zenon DEF Doubled
    <3> QED
      BY <3>1, <3>2, ScaledMultType
  <2> QED
    BY <2>1
<1>2. Filtez(d, b) = szl[6]
  BY Zenon DEF Filtez
<1> HIDE DEF term
<1>3. PICK f : ShortSums(f, term, 6)
  BY ShortSumsExist
<1>4. ShortSums(szl, term, 6)
  BY <1>3, Zenon DEF ShortSums
<1> HIDE DEF szl
<1>5. \A i \in 0 .. 6 : szl[i] \in Int
  BY <1>1, <1>4, ShortSumsType
<1> QED
  BY <1>2, <1>5

LEMMA AccumulatedType ==
    ASSUME NEW line \in Seq(Int), Len(line) = 24, NEW first \in {0, 1}
    PROVE  Accumulated(line, first) \in Int
<1> DEFINE term == [i \in 1 .. 12 |-> coef_qmf[2 * i - first] * line[2 * i - first]]
           accum == CHOOSE f : f = [i \in 0 .. 12 |->
                                      IF i = 0 THEN 0 ELSE SaturateAdd(f[i - 1], term[i])]
<1>1. term \in [1 .. 12 -> Int]
  <2>1. ASSUME NEW i \in 1 .. 12
        PROVE  coef_qmf[2 * i - first] * line[2 * i - first] \in Int
    <3>1. PICK k \in 1 .. Len(line) : k = 2 * i - first /\ k \in 1 .. Len(coef_qmf)
      BY CoefficientsOfQmf
    <3>2. PICK x \in Int : x = coef_qmf[k]
      <4>1. coef_qmf[k] \in Int
        BY <3>1, CoefficientsOfQmf, ElementOfSeq
      <4> QED
        BY <4>1
    <3>3. PICK y \in Int : y = line[k]
      BY <3>1, ElementOfSeq
    <3>4. x * y \in Int
      BY Z3
    <3> QED
      BY <3>1, <3>2, <3>3, <3>4
  <2> QED
    BY <2>1
<1>2. Accumulated(line, first) = accum[12]
  BY Zenon DEF Accumulated
<1> HIDE DEF term
<1>3. PICK f : IntSums(f, term, 12)
  BY IntSumsExist
<1>4. IntSums(accum, term, 12)
  BY <1>3, Zenon DEF IntSums
<1> HIDE DEF accum
<1>5. \A i \in 0 .. 12 : accum[i] \in Int
  BY <1>1, <1>4, IntSumsType
<1> QED
  BY <1>2, <1>5

-----------------------------------------------------------------------------
(* The predictor *)

Coefficients(n) == [0 .. n -> Int]

(* The poles are stable after every adaptation, whatever they were before. *)
LEMMA SecondPole ==
    ASSUME NEW a \in Coefficients(2), NEW p
    PROVE  /\ Uppol2(a, p) \in Coefficients(2)
           /\ -12288 <= Uppol2(a, p)[2] /\ Uppol2(a, p)[2] <= 12288
<1> DEFINE wd1 == ShiftLeftShort(a[1], 2)
           wd2 == IF SameSign(p[0], p[1]) THEN SaturateSubtractShort(0, wd1) ELSE wd1
           wd4 == SaturateAddShort(ShiftRightShort(wd2, 7),
                                   IF SameSign(p[0], p[2]) THEN 128 ELSE -128)
           apl2 == SaturateAddShort(wd4, ScaledMult(a[2], 32512))
           pole == IF apl2 > 12288 THEN 12288 ELSE IF apl2 < -12288 THEN -12288 ELSE apl2
<1>1. a[1] \in Int /\ a[2] \in Int
  BY DEF Coefficients
<1>2. wd1 \in Int
  BY <1>1, ShiftTypes
<1> HIDE DEF wd1
<1>3. wd2 \in Int
  BY <1>2, SaturateSubtractShortType
<1> HIDE DEF wd2
<1>4. wd4 \in Int
  <2>1. ShiftRightShort(wd2, 7) \in Int
    BY <1>3, ShiftRightType
  <2>2. PICK n \in Int : n = IF SameSign(p[0], p[2]) THEN 128 ELSE -128
    OBVIOUS
  <2>3. SaturateAddShort(ShiftRightShort(wd2, 7), n) \in Int
    BY <2>1, SaturateAddShortType
  <2> QED
    BY <2>2, <2>3
<1> HIDE DEF wd4
<1>5. apl2 \in Int
  <2>1. ScaledMult(a[2], 32512) \in Int
    BY <1>1, FactorTypes
  <2> QED
    BY <1>4, <2>1, SaturateAddShortType
<1>6. Uppol2(a, p) = [a EXCEPT ![2] = pole]
  BY DEF Uppol2, wd1, wd2, wd4
<1> HIDE DEF apl2
<1>7. pole \in Int /\ -12288 <= pole /\ pole <= 12288
  BY <1>5
<1> HIDE DEF pole
<1> QED
  BY <1>6, <1>7 DEF Coefficients

LEMMA FirstPole ==
    ASSUME NEW a \in Coefficients(2), NEW p, -12288 <= a[2], a[2] <= 12288
    PROVE  Uppol1(a, p) \in Coefficients(2) /\ Stable(Uppol1(a, p))
<1> DEFINE apl1 == SaturateAddShort(IF SameSign(p[0], p[1]) THEN 192 ELSE -192,
                                    ScaledMult(a[1], 32640))
           wd3 == SaturateSubtractShort(15360, a[2])
           pole == CASE apl1 > wd3 -> wd3
                     [] apl1 <= wd3 /\ SaturateAddShort(apl1, wd3) < 0 -> -wd3
                     [] OTHER -> apl1
<1>1. a[1] \in Int /\ a[2] \in Int
  BY DEF Coefficients
<1>2. Uppol1(a, p) = [a EXCEPT ![1] = pole]
  BY DEF Uppol1
<1>3. apl1 \in Int
  <2>1. ScaledMult(a[1], 32640) \in Int
    BY <1>1, FactorTypes
  <2>2. PICK n \in Int : n = IF SameSign(p[0], p[1]) THEN 192 ELSE -192
    OBVIOUS
  <2>3. SaturateAddShort(n, ScaledMult(a[1], 32640)) \in Int
    BY <2>1, SaturateAddShortType
  <2> QED
    BY <2>2, <2>3
<1> HIDE DEF apl1
<1>4. wd3 = 15360 - a[2] /\ wd3 \in Int /\ wd3 >= 0
  BY <1>1 DEF SaturateSubtractShort, Saturate
<1> HIDE DEF wd3
<1>5. SaturateAddShort(apl1, wd3) < 0 <=> apl1 + wd3 < 0
  BY <1>3, <1>4 DEF SaturateAddShort, Saturate
<1>6. pole \in Int /\ -wd3 <= pole /\ pole <= wd3
  <2>1. CASE apl1 > wd3
    BY <1>3, <1>4, <2>1
  <2>2. CASE ~ (apl1 > wd3) /\ apl1 + wd3 < 0
    BY <1>3, <1>4, <1>5, <2>2
  <2>3. CASE ~ (apl1 > wd3) /\ ~ (apl1 + wd3 < 0)
    BY <1>3, <1>4, <1>5, <2>3
  <2> QED
    BY <2>1, <2>2, <2>3
<1> HIDE DEF pole
<1>7. Uppol1(a, p) \in Coefficients(2)
  BY <1>2, <1>6 DEF Coefficients
<1>8. Uppol1(a, p)[1] = pole /\ Uppol1(a, p)[2] = a[2]
  BY <1>2 DEF Coefficients
<1> QED
  BY <1>1, <1>4, <1>6, <1>7, <1>8 DEF Stable

LEMMA PolesStable ==
    ASSUME NEW a \in Coefficients(2), NEW p
    PROVE  Poles(a, p) \in Coefficients(2) /\ Stable(Poles(a, p))
<1>1. PICK second : second = Uppol2(a, p)
  OBVIOUS
<1>2. /\ second \in Coefficients(2)
      /\ -12288 <= second[2] /\ second[2] <= 12288
  BY <1>1, SecondPole
<1>3. Poles(a, p) = Uppol1(second, p)
  BY <1>1 DEF Poles
<1> QED
  BY <1>2, <1>3, FirstPole

LEMMA UpzeroType ==
    ASSUME NEW d, NEW b \in Coefficients(6)
    PROVE  Upzero(d, b) \in Coefficients(6)
<1> DEFINE wd1 == IF d[0] = 0 THEN 0 ELSE 128
           zero(i) == SaturateAddShort(IF SameSign(d[0], d[i]) THEN wd1 ELSE -wd1,
                                       ScaledMult(b[i], 32640))
<1>1. Upzero(d, b) = [i \in 0 .. 6 |-> IF i = 0 THEN b[0] ELSE zero(i)]
  BY DEF Upzero
<1>2. ASSUME NEW i \in 0 .. 6
      PROVE  b[i] \in Int /\ zero(i) \in Int
  <2>1. b[i] \in Int
    BY DEF Coefficients
  <2>2. ScaledMult(b[i], 32640) \in Int
    BY <2>1, FactorTypes
  <2>3. PICK n \in Int : n = IF SameSign(d[0], d[i]) THEN wd1 ELSE -wd1
    OBVIOUS
  <2>4. SaturateAddShort(n, ScaledMult(b[i], 32640)) \in Int
    BY <2>2, SaturateAddShortType
  <2> QED
    BY <2>1, <2>3, <2>4
<1> HIDE DEF zero
<1> QED
  BY <1>1, <1>2 DEF Coefficients

LEMMA FiltepType ==
    ASSUME NEW r \in Coefficients(2), NEW a \in Coefficients(2)
    PROVE  Filtep(r, a) \in Int
<1>1. r[1] \in Int /\ r[2] \in Int /\ a[1] \in Int /\ a[2] \in Int
  BY DEF Coefficients
<1>2. Doubled(r[1]) \in Int /\ Doubled(r[2]) \in Int
  BY <1>1, SaturateAddShortType DEF Doubled
<1>3. ScaledMult(a[1], Doubled(r[1])) \in Int /\ ScaledMult(a[2], Doubled(r[2])) \in Int
  BY <1>1, <1>2, ScaledMultType
<1> QED
  BY <1>3, SaturateAddShortType DEF Filtep

LEMMA ShiftedType ==
    ASSUME NEW n \in Nat, NEW past \in Coefficients(n)
    PROVE  Shifted(past, n) \in Coefficients(n)
<1>1. ASSUME NEW i \in 0 .. n
      PROVE  (IF i = 0 THEN past[0] ELSE past[i - 1]) \in Int
  BY DEF Coefficients
<1> QED
  BY <1>1 DEF Shifted, Coefficients

-----------------------------------------------------------------------------
(* The quantizers *)

LEMMA OffType ==
    ASSUME NEW el \in Int
    PROVE  /\ Off(el) \in Nat
           /\ el >= 0 => Off(el) = el
           /\ el < 0 => Off(el) = -el - 1
  BY DEF Off

(* The value that level "mil" stands for. *)
Threshold(mil, det) == ScaledMult(ShiftLeftShort(q6[mil + 1], 3), det)

LEMMA ThresholdType ==
    ASSUME NEW det \in Int, NEW mil \in 0 .. 30
    PROVE  Threshold(mil, det) \in Int
<1>1. q6[mil + 1] \in Int
  <2>1. mil + 1 \in 1 .. 31
    OBVIOUS
  <2>2. q6[mil + 1] \in Nat
    BY <2>1, QuantizerTables
  <2> QED
    BY <2>2
<1>2. ShiftLeftShort(q6[mil + 1], 3) \in Int
  BY <1>1, ShiftTypes
<1> QED
  BY <1>2, ScaledMultType DEF Threshold

LEMMA ThresholdZero ==
    ASSUME NEW det \in Int
    PROVE  Threshold(0, det) = 0
<1>1. q6[0 + 1] = 0
  BY DEF q6
<1>2. ShiftLeftShort(0, 3) = 0
  <2>1. ShiftLeftShort(0, 3) = Saturate(8 * 0)
    BY ShiftsAreScalings
  <2> QED
    BY <2>1 DEF Saturate
<1>3. 0 * det = 0 /\ 0 \div 32768 = 0
  BY Z3
<1>4. ScaledMult(0, det) = 0
  BY <1>3 DEF ScaledMult
<1> QED
  BY <1>1, <1>2, <1>4 DEF Threshold

(* The level of a magnitude is the first one above it, if there is one. *)
LEMMA LevelIsLeast ==
    ASSUME NEW wd \in Nat, NEW det \in Int
    PROVE  /\ Level(wd, det) \in 1 .. 30
           /\ Level(wd, det) < 30 => Threshold(Level(wd, det), det) > wd
           /\ \A mil \in 0 .. 30 : mil < Level(wd, det) => ~ (Threshold(mil, det) > wd)
<1> DEFINE above == {mil \in 0 .. 30 : Threshold(mil, det) > wd}
<1>1. Level(wd, det) = IF above = {} THEN 30
                       ELSE CHOOSE mil \in above : \A other \in above : mil <= other
  BY DEF Level, Threshold
<1>2. 0 \notin above
  BY ThresholdZero
<1>3. above \in SUBSET Nat /\ above \subseteq 0 .. 30
  OBVIOUS
<1>4. CASE above = {}
  BY <1>1, <1>4
<1>5. CASE above # {}
  <2> DEFINE least == CHOOSE mil \in above : \A other \in above : mil <= other
  <2> HIDE DEF above
  <2>1. \E mil \in above : \A other \in above : mil <= other
    BY <1>3, <1>5, LeastNumber
  <2>2. least \in above /\ \A other \in above : least <= other
    BY <2>1, Zenon
  <2>3. Level(wd, det) = least
    BY <1>1, <1>5
  <2> HIDE DEF least
  <2>4. least \in 0 .. 30 /\ least # 0
    BY <1>2, <1>3, <2>2
  <2>5. Threshold(least, det) > wd
    BY <2>2 DEF above
  <2>6. \A mil \in 0 .. 30 : mil < least => ~ (Threshold(mil, det) > wd)
    BY <2>2, <2>4 DEF above
  <2> QED
    BY <2>3, <2>4, <2>5, <2>6
<1> QED
  BY <1>4, <1>5

(* A larger magnitude has no lower level. *)
LEMMA LevelMonotone ==
    ASSUME NEW det \in Int, NEW small \in Nat, NEW large \in Nat, small <= large
    PROVE  Level(small, det) <= Level(large, det)
<1>1. PICK l \in 1 .. 30 : l = Level(small, det)
  BY LevelIsLeast
<1>2. PICK k \in 1 .. 30 : k = Level(large, det)
  BY LevelIsLeast
<1>3. k < 30 => Threshold(k, det) > large
  BY <1>2, LevelIsLeast
<1>4. k < l => ~ (Threshold(k, det) > small)
  BY <1>1, LevelIsLeast
<1>5. k \in 0 .. 30
  OBVIOUS
<1>6. Threshold(k, det) \in Int
  BY <1>5, ThresholdType
<1> QED
  BY <1>1, <1>2, <1>3, <1>4, <1>6

(* The code of a difference, by the level of its magnitude and its sign. *)
LEMMA QuantlCode ==
    ASSUME NEW el \in Int, NEW det \in Int
    PROVE  LET mil == Level(Off(el), det)
           IN  /\ mil \in 1 .. 30
               /\ el >= 0 => Quantl(el, det) = 62 - mil
               /\ el < 0 /\ mil <= 2 => Quantl(el, det) = 64 - mil
               /\ el < 0 /\ mil > 2 => Quantl(el, det) = 34 - mil
<1>1. PICK mil \in 1 .. 30 : mil = Level(Off(el), det)
  BY OffType, LevelIsLeast
<1>2. Quantl(el, det) = CASE mil = 0             -> 0
                          [] mil > 0 /\ el >= 0  -> 62 - mil
                          [] mil \in 1 .. 2 /\ el < 0 -> 64 - mil
                          [] mil > 2 /\ el < 0   -> 34 - mil
  BY <1>1, Zenon DEF Quantl
<1>3. CASE el >= 0
  BY <1>1, <1>2, <1>3
<1>4. CASE el < 0 /\ mil <= 2
  BY <1>1, <1>2, <1>4
<1>5. CASE el < 0 /\ mil > 2
  BY <1>1, <1>2, <1>5
<1> QED
  BY <1>3, <1>4, <1>5

LEMMA QuantlType ==
    ASSUME NEW el \in Int, NEW det \in Int
    PROVE  Quantl(el, det) \in 4 .. 63
<1>1. PICK mil \in 1 .. 30 : mil = Level(Off(el), det)
  BY QuantlCode
<1>2. /\ el >= 0 => Quantl(el, det) = 62 - mil
      /\ el < 0 /\ mil <= 2 => Quantl(el, det) = 64 - mil
      /\ el < 0 /\ mil > 2 => Quantl(el, det) = 34 - mil
  BY <1>1, QuantlCode
<1> QED
  BY <1>2

LEMMA QuanthCode ==
    ASSUME NEW eh, NEW det
    PROVE  \E mih \in {1, 2} :
              /\ mih = 2 <=> Off(eh) >= ScaledMult(ShiftLeftShort(564, 3), det)
              /\ Quanth(eh, det) = (IF eh < 0 THEN 2 ELSE 4) - mih
  BY DEF Quanth

LEMMA QuanthType ==
    ASSUME NEW eh, NEW det
    PROVE  Quanth(eh, det) \in 0 .. 3
  BY QuanthCode

(* A scale keeps the order of what it scales. *)
LEMMA ScaledMultMonotone ==
    ASSUME NEW det \in Nat, det <= 32767,
           NEW m \in Int, NEW n \in Int, m <= n, n <= 32767
    PROVE  ScaledMult(det, m) <= ScaledMult(det, n)
<1>1. PICK p \in Int : p = det * m
  BY Z3
<1>2. PICK q \in Int : q = det * n
  BY Z3
<1>3. p <= q
  BY <1>1, <1>2, Z3
<1>4. q <= 32767 * det
  BY <1>2, Z3
<1>5. q < 32768 * 32768
  BY <1>4, Z3
<1>6. p \div 32768 <= q \div 32768 /\ q \div 32768 < 32768
  BY <1>3, <1>5, Z3
<1>7. p \div 32768 \in Int /\ q \div 32768 \in Int
  BY Z3
<1> QED
  BY <1>1, <1>2, <1>6, <1>7 DEF ScaledMult

(* ... and of its other factor. *)
LEMMA ScaledMultCommutes ==
    ASSUME NEW m \in Int, NEW n \in Int
    PROVE  ScaledMult(m, n) = ScaledMult(n, m)
<1>1. m * n = n * m
  BY Z3
<1> QED
  BY <1>1 DEF ScaledMult

(* The codes of a group of four levels stand for one value of the table. *)
LEMMA TableOfCodes ==
    /\ \A k \in 8 .. 15 : ril4[k + 1] = 15 - k
    /\ \A k \in 1 .. 7 : ril4[k + 1] = 8 - k
  BY DEF ril4

LEMMA ValuesGrow ==
    \A m, n \in 0 .. 7 : m <= n => oq4[m + 1] <= oq4[n + 1]
  BY DEF oq4

LEMMA ValueType ==
    ASSUME NEW k \in 0 .. 7
    PROVE  /\ oq4[k + 1] \in Nat /\ 8 * oq4[k + 1] <= 32767
           /\ ShiftLeftShort(oq4[k + 1], 3) = 8 * oq4[k + 1]
<1>1. oq4[k + 1] \in Nat /\ oq4[k + 1] <= 2557
  BY QuantizerTables
<1>2. PICK v \in Nat : v = oq4[k + 1] /\ v <= 2557
  BY <1>1
<1>3. Saturate(8 * v) = 8 * v
  BY <1>2 DEF Saturate
<1>4. ShiftLeftShort(v, 3) = 8 * v
  BY <1>3, ShiftsAreScalings
<1> QED
  BY <1>2, <1>4

(* The signed value of the table that a difference is taken for. *)
LEMMA ValueOfCode ==
    ASSUME NEW il \in Int, NEW det \in Int, NEW ril \in Int, NEW k \in 0 .. 7,
           ril = il \div 4, ril4[ril + 1] = k
    PROVE  Invqal(il, det) = ScaledMult(det, IF ril \in 1 .. 7 THEN -(8 * oq4[k + 1])
                                                              ELSE 8 * oq4[k + 1])
<1>1. ShiftRightShort(il, 2) = ril
  BY ShiftsAreScalings
<1>2. ShiftLeftShort(oq4[k + 1], 3) = 8 * oq4[k + 1]
  BY ValueType
<1>3. PICK wd1 \in Int : wd1 = 8 * oq4[k + 1] /\ wd1 = ShiftLeftShort(oq4[k + 1], 3)
  BY <1>2, ValueType
<1>4. Invqal(il, det) = ScaledMult(det, IF ril \in 1 .. 7 THEN -wd1 ELSE wd1)
  BY <1>1, <1>3, Zenon DEF Invqal
<1> QED
  BY <1>3, <1>4

LEMMA TakenValue ==
    ASSUME NEW el \in Int, NEW det \in Int, NEW mil \in Int, NEW k \in Int,
           mil = Level(Off(el), det), k = (mil + 1) \div 4
    PROVE  /\ k \in 0 .. 7
           /\ el >= 0 => Invqal(Quantl(el, det), det) = ScaledMult(det, 8 * oq4[k + 1])
           /\ el < 0 => Invqal(Quantl(el, det), det) = ScaledMult(det, -(8 * oq4[k + 1]))
<1>1. /\ mil \in 1 .. 30
      /\ el >= 0 => Quantl(el, det) = 62 - mil
      /\ el < 0 /\ mil <= 2 => Quantl(el, det) = 64 - mil
      /\ el < 0 /\ mil > 2 => Quantl(el, det) = 34 - mil
  BY QuantlCode
<1>2. k \in 0 .. 7
  BY <1>1, Z3
<1>3. CASE el >= 0
  <2>1. PICK il \in Int : il = Quantl(el, det) /\ il = 62 - mil
    BY <1>1, <1>3
  <2>2. PICK ril \in Int : ril = il \div 4
    BY Z3
  <2>3. ril \in 8 .. 15 /\ k = 15 - ril
    BY <1>1, <2>1, <2>2, Z3
  <2>4. ril4[ril + 1] = k
    BY <2>3, TableOfCodes
  <2>5. ril \notin 1 .. 7
    BY <2>3
  <2>6. Invqal(il, det) = ScaledMult(det, 8 * oq4[k + 1])
    BY <1>2, <2>2, <2>4, <2>5, ValueOfCode
  <2> QED
    BY <1>2, <1>3, <2>1, <2>6
<1>4. CASE el < 0 /\ mil <= 2
  <2>1. PICK il \in Int : il = Quantl(el, det) /\ il = 64 - mil
    BY <1>1, <1>4
  <2>2. PICK ril \in Int : ril = il \div 4
    BY Z3
  <2>3. ril = 15 /\ k = 0
    BY <1>1, <1>4, <2>1, <2>2, Z3
  <2>4. ril4[ril + 1] = k
    BY <2>3, TableOfCodes
  <2>5. ril \notin 1 .. 7
    BY <2>3
  <2>6. Invqal(il, det) = ScaledMult(det, 8 * oq4[k + 1])
    BY <1>2, <2>2, <2>4, <2>5, ValueOfCode
  <2>7. oq4[0 + 1] = 0
    BY DEF oq4
  <2>8. 8 * oq4[k + 1] = -(8 * oq4[k + 1])
    BY <2>3, <2>7
  <2> QED
    BY <1>2, <1>4, <2>1, <2>6, <2>8
<1>5. CASE el < 0 /\ mil > 2
  <2>1. PICK il \in Int : il = Quantl(el, det) /\ il = 34 - mil
    BY <1>1, <1>5
  <2>2. PICK ril \in Int : ril = il \div 4
    BY Z3
  <2>3. ril \in 1 .. 7 /\ k = 8 - ril
    BY <1>1, <1>5, <2>1, <2>2, Z3
  <2>4. ril4[ril + 1] = k
    BY <2>3, TableOfCodes
  <2>5. Invqal(il, det) = ScaledMult(det, -(8 * oq4[k + 1]))
    BY <1>2, <2>2, <2>3, <2>4, ValueOfCode
  <2> QED
    BY <1>2, <1>5, <2>1, <2>5
<1> QED
  BY <1>1, <1>2, <1>3, <1>4, <1>5

(* A larger difference of the lower band is never taken for a smaller one. *)
LEMMA LowQuantizerMonotone ==
    ASSUME NEW det \in Nat, det <= 32767, NEW small \in Int, NEW large \in Int, small <= large
    PROVE  Invqal(Quantl(small, det), det) <= Invqal(Quantl(large, det), det)
<1> DEFINE Index(el) == (Level(Off(el), det) + 1) \div 4
<1>1. det \in Int
  OBVIOUS
<1>2. ASSUME NEW el \in Int
      PROVE  /\ Index(el) \in 0 .. 7
             /\ el >= 0 => Invqal(Quantl(el, det), det) = ScaledMult(det, 8 * oq4[Index(el) + 1])
             /\ el < 0 => Invqal(Quantl(el, det), det) = ScaledMult(det, -(8 * oq4[Index(el) + 1]))
  <2>1. PICK mil \in 1 .. 30 : mil = Level(Off(el), det)
    BY <1>1, QuantlCode
  <2>2. PICK k \in Int : k = (mil + 1) \div 4
    BY Z3
  <2> QED
    BY <1>1, <2>1, <2>2, TakenValue
<1>3. ASSUME NEW near \in Int, NEW far \in Int, Off(near) <= Off(far)
      PROVE  Index(near) <= Index(far)
  <2>1. PICK l \in 1 .. 30 : l = Level(Off(near), det)
    BY <1>1, QuantlCode
  <2>2. PICK k \in 1 .. 30 : k = Level(Off(far), det)
    BY <1>1, QuantlCode
  <2>3. Off(near) \in Nat /\ Off(far) \in Nat
    BY OffType
  <2>4. l <= k
    BY <1>1, <1>3, <2>1, <2>2, <2>3, LevelMonotone
  <2>5. (l + 1) \div 4 <= (k + 1) \div 4
    BY <2>4, Z3
  <2> QED
    BY <2>1, <2>2, <2>5
<1> HIDE DEF Index
<1>4. PICK i \in 0 .. 7 : i = Index(small)
  BY <1>2
<1>5. PICK j \in 0 .. 7 : j = Index(large)
  BY <1>2
<1>6. PICK v \in Nat : v = oq4[i + 1] /\ 8 * v <= 32767
  BY ValueType
<1>7. PICK w \in Nat : w = oq4[j + 1] /\ 8 * w <= 32767
  BY ValueType
<1>8. CASE small >= 0
  <2>1. large >= 0 /\ Off(small) <= Off(large)
    BY <1>8, OffType
  <2>2. v <= w
    BY <1>3, <1>4, <1>5, <1>6, <1>7, <2>1, ValuesGrow
  <2>3. 8 * v \in Int /\ 8 * w \in Int /\ 8 * v <= 8 * w
    BY <2>2
  <2>4. ScaledMult(det, 8 * v) <= ScaledMult(det, 8 * w)
    BY <1>7, <2>3, ScaledMultMonotone
  <2> QED
    BY <1>2, <1>4, <1>5, <1>6, <1>7, <1>8, <2>1, <2>4
<1>9. CASE large < 0
  <2>1. small < 0 /\ Off(large) <= Off(small)
    BY <1>9, OffType
  <2>2. w <= v
    BY <1>3, <1>4, <1>5, <1>6, <1>7, <2>1, ValuesGrow
  <2>3. -(8 * v) \in Int /\ -(8 * w) \in Int /\ -(8 * v) <= -(8 * w) /\ -(8 * w) <= 32767
    BY <2>2
  <2>4. ScaledMult(det, -(8 * v)) <= ScaledMult(det, -(8 * w))
    BY <2>3, ScaledMultMonotone
  <2> QED
    BY <1>2, <1>4, <1>5, <1>6, <1>7, <1>9, <2>1, <2>4
<1>10. CASE small < 0 /\ large >= 0
  <2>1. -(8 * v) \in Int /\ 8 * w \in Int /\ -(8 * v) <= 8 * w
    OBVIOUS
  <2>2. ScaledMult(det, -(8 * v)) <= ScaledMult(det, 8 * w)
    BY <1>7, <2>1, ScaledMultMonotone
  <2> QED
    BY <1>2, <1>4, <1>5, <1>6, <1>7, <1>10, <2>2
<1> QED
  BY <1>8, <1>9, <1>10

(* The same for the higher band. *)
LEMMA HighValues ==
    ASSUME NEW ih \in 0 .. 3, NEW det \in Int
    PROVE  Invqah(ih, det) = ScaledMult(det, IF ih = 0 THEN -7408 ELSE IF ih = 1 THEN -1616
                                             ELSE IF ih = 2 THEN 7408 ELSE 1616)
<1>1. /\ oq2[ih2[0 + 1] + 1] = 926 /\ oq2[ih2[1 + 1] + 1] = 202
      /\ oq2[ih2[2 + 1] + 1] = 926 /\ oq2[ih2[3 + 1] + 1] = 202
  BY DEF oq2, ih2
<1>2. ShiftLeftShort(926, 3) = 7408 /\ ShiftLeftShort(202, 3) = 1616
  <2>1. ShiftLeftShort(926, 3) = Saturate(8 * 926) /\ ShiftLeftShort(202, 3) = Saturate(8 * 202)
    BY ShiftsAreScalings
  <2> QED
    BY <2>1 DEF Saturate
<1> DEFINE wd1 == ShiftLeftShort(oq2[ih2[ih + 1] + 1], 3)
<1>3. wd1 = IF ih \in {0, 2} THEN 7408 ELSE 1616
  BY <1>1, <1>2
<1>4. Invqah(ih, det) = ScaledMult(IF ih \in 0 .. 1 THEN -wd1 ELSE wd1, det)
  BY DEF Invqah
<1> HIDE DEF wd1
<1>5. PICK m \in Int : m = IF ih \in 0 .. 1 THEN -wd1 ELSE wd1
  BY <1>3
<1>6. m = IF ih = 0 THEN -7408 ELSE IF ih = 1 THEN -1616 ELSE IF ih = 2 THEN 7408 ELSE 1616
  BY <1>3, <1>5
<1>7. Invqah(ih, det) = ScaledMult(det, m)
  BY <1>4, <1>5, ScaledMultCommutes
<1> QED
  BY <1>6, <1>7

LEMMA HighQuantizerMonotone ==
    ASSUME NEW det \in Nat, det <= 32767, NEW small \in Int, NEW large \in Int, small <= large
    PROVE  Invqah(Quanth(small, det), det) <= Invqah(Quanth(large, det), det)
<1> DEFINE bound == ScaledMult(ShiftLeftShort(564, 3), det)
           Value(ih) == IF ih = 0 THEN -7408 ELSE IF ih = 1 THEN -1616
                        ELSE IF ih = 2 THEN 7408 ELSE 1616
<1>1. bound \in Int
  <2>1. ShiftLeftShort(564, 3) \in Int
    BY ShiftTypes
  <2> QED
    BY <2>1, ScaledMultType
<1>2. PICK mih \in {1, 2} : /\ mih = 2 <=> Off(small) >= bound
                            /\ Quanth(small, det) = (IF small < 0 THEN 2 ELSE 4) - mih
  BY QuanthCode
<1>3. PICK nih \in {1, 2} : /\ nih = 2 <=> Off(large) >= bound
                            /\ Quanth(large, det) = (IF large < 0 THEN 2 ELSE 4) - nih
  BY QuanthCode
<1> HIDE DEF bound
<1>4. PICK k \in 0 .. 3 : k = Quanth(small, det)
  BY QuanthType
<1>5. PICK l \in 0 .. 3 : l = Quanth(large, det)
  BY QuanthType
<1>6. Value(k) \in Int /\ Value(l) \in Int /\ Value(l) <= 32767
  OBVIOUS
<1>7. Value(k) <= Value(l)
  <2>1. CASE small >= 0
    <3>1. large >= 0 /\ Off(small) = small /\ Off(large) = large
      BY <2>1, OffType
    <3> QED
      BY <1>1, <1>2, <1>3, <1>4, <1>5, <2>1, <3>1
  <2>2. CASE large < 0
    <3>1. small < 0 /\ Off(small) = -small - 1 /\ Off(large) = -large - 1
      BY <2>2, OffType
    <3> QED
      BY <1>1, <1>2, <1>3, <1>4, <1>5, <2>2, <3>1
  <2>3. CASE small < 0 /\ large >= 0
    BY <1>2, <1>3, <1>4, <1>5, <2>3
  <2> QED
    BY <2>1, <2>2, <2>3
<1>8. ScaledMult(det, Value(k)) <= ScaledMult(det, Value(l))
  BY <1>6, <1>7, ScaledMultMonotone
<1>9. Invqah(k, det) = ScaledMult(det, Value(k)) /\ Invqah(l, det) = ScaledMult(det, Value(l))
  BY HighValues
<1> QED
  BY <1>4, <1>5, <1>8, <1>9

-----------------------------------------------------------------------------
(* The scales *)

LEMMA LimitedType ==
    ASSUME NEW nb \in Int, NEW limit \in Nat
    PROVE  Limited(nb, limit) \in Nat /\ Limited(nb, limit) <= limit
  BY DEF Limited

LowLimit == 18432
HighLimit == 22528

LEMMA LimitTypes == LowLimit \in Nat /\ HighLimit \in Nat
  BY DEF LowLimit, HighLimit

LEMMA LogsclType ==
    ASSUME NEW il \in 0 .. 63, NEW nb \in Int
    PROVE  Logscl(il, nb) \in Nat /\ Logscl(il, nb) <= LowLimit
<1>1. PICK wd \in Int : wd = ScaledMult(nb, 32512)
  BY FactorTypes
<1>2. PICK ril \in 0 .. 15 : ril = ShiftRightShort(il, 2)
  <2>1. PICK ril \in 0 .. 15 : ril = il \div 4
    BY Z3
  <2>2. ShiftRightShort(il, 2) = il \div 4
    BY ShiftsAreScalings
  <2> QED
    BY <2>1, <2>2
<1>3. ril4[ril + 1] \in 0 .. 7
  BY <1>2, QuantizerTables
<1>4. PICK w \in Int : w = wl[ril4[ril + 1] + 1]
  BY <1>3, QuantizerTables
<1>5. PICK nbl \in Int : nbl = SaturateAddShort(wd, w)
  BY SaturateAddShortType
<1>6. Logscl(il, nb) = Limited(nbl, LowLimit)
  BY <1>1, <1>2, <1>4, <1>5 DEF Logscl, LowLimit
<1> QED
  BY <1>6, LimitTypes, LimitedType

LEMMA LogschType ==
    ASSUME NEW ih \in 0 .. 3, NEW nb \in Int
    PROVE  Logsch(ih, nb) \in Nat /\ Logsch(ih, nb) <= HighLimit
<1>1. PICK wd \in Int : wd = ScaledMult(nb, 32512)
  BY FactorTypes
<1>2. ih2[ih + 1] \in 1 .. 2
  BY QuantizerTables
<1>3. PICK w \in Int : w = wh[ih2[ih + 1] + 1]
  BY <1>2, QuantizerTables
<1>4. PICK nbh \in Int : nbh = SaturateAddShort(wd, w)
  BY SaturateAddShortType
<1>5. Logsch(ih, nb) = Limited(nbh, HighLimit)
  BY <1>1, <1>3, <1>4 DEF Logsch, HighLimit
<1> QED
  BY <1>5, LimitTypes, LimitedType

(* The limits of the logarithms are those of the table. *)
LEMMA ScaleIndexlType ==
    ASSUME NEW nb \in Nat, nb <= LowLimit
    PROVE  ScaleIndexl(nb) \in Int /\ 0 <= ScaleIndexl(nb) /\ ScaleIndexl(nb) < Len(ila)
<1>1. PICK wd \in Int : wd = nb \div 64
  BY Z3
<1>2. 0 <= wd /\ wd <= 288
  BY <1>1, Z3 DEF LowLimit
<1>3. wd % 512 = wd
  BY <1>2, Z3
<1>4. ShiftRightShort(nb, 6) = wd
  BY <1>1, ShiftsAreScalings
<1>5. ScaleIndexl(nb) = Saturate(wd + 64)
  BY <1>3, <1>4 DEF ScaleIndexl, SaturateAddShort
<1> QED
  BY <1>2, <1>5, SizeOfIla DEF Saturate

LEMMA ScaleIndexhType ==
    ASSUME NEW nb \in Nat, nb <= HighLimit
    PROVE  ScaleIndexh(nb) \in Int /\ 0 <= ScaleIndexh(nb) /\ ScaleIndexh(nb) < Len(ila)
<1>1. PICK wd \in Int : wd = nb \div 64
  BY Z3
<1>2. 0 <= wd /\ wd <= 352
  BY <1>1, Z3 DEF HighLimit
<1>3. wd % 512 = wd
  BY <1>2, Z3
<1>4. ShiftRightShort(nb, 6) = wd
  BY <1>1, ShiftsAreScalings
<1> QED
  BY <1>2, <1>3, <1>4, SizeOfIla DEF ScaleIndexh

LEMMA ScaledType ==
    ASSUME NEW index \in Int, 0 <= index, index < Len(ila)
    PROVE  Scaled(index) \in Nat /\ Scaled(index) <= 32767
<1>1. PICK k \in 1 .. Len(ila) : k = index + 1
  BY SizeOfIla
<1>2. PICK x \in Nat : x = ila[k]
  <2>1. ila \in Seq(Nat)
    BY ScalesOfIla
  <2>2. ila[k] \in Nat
    BY <2>1, ElementOfSeq
  <2> QED
    BY <2>2
<1>3. PICK y \in Nat : y = SaturateAddShort(x, 1)
  BY DEF SaturateAddShort, Saturate
<1>4. Scaled(index) = ShiftLeftShort(y, 2)
  BY <1>1, <1>2, <1>3 DEF Scaled
<1>5. Scaled(index) = Saturate(4 * y)
  BY <1>4, ShiftsAreScalings
<1> QED
  BY <1>5 DEF Saturate

LEMMA InvqalType ==
    ASSUME NEW il \in 0 .. 63, NEW det \in Int
    PROVE  Invqal(il, det) \in Int
<1>1. PICK ril \in 0 .. 15 : ril = il \div 4
  <2>1. il \div 4 \in 0 .. 15
    BY Z3
  <2> QED
    BY <2>1
<1>2. PICK k \in 0 .. 7 : k = ril4[ril + 1]
  BY QuantizerTables
<1>3. PICK wd1 \in Int : wd1 = 8 * oq4[k + 1]
  BY ValueType
<1>4. PICK wd2 \in Int : wd2 = IF ril \in 1 .. 7 THEN -wd1 ELSE wd1
  OBVIOUS
<1>5. Invqal(il, det) = ScaledMult(det, wd2)
  BY <1>1, <1>2, <1>3, <1>4, ValueOfCode
<1> QED
  BY <1>5, ScaledMultType

LEMMA InvqahType ==
    ASSUME NEW ih \in 0 .. 3, NEW det \in Int
    PROVE  Invqah(ih, det) \in Int
<1>1. PICK m \in Int : m = IF ih = 0 THEN -7408 ELSE IF ih = 1 THEN -1616
                           ELSE IF ih = 2 THEN 7408 ELSE 1616
  OBVIOUS
<1>2. Invqah(ih, det) = ScaledMult(det, m)
  BY <1>1, HighValues
<1> QED
  BY <1>2, ScaledMultType

-----------------------------------------------------------------------------
(* The bands *)

BandType(band, limit) ==
    /\ band.det \in Nat /\ band.det <= 32767
    /\ band.nb \in Nat /\ band.nb <= limit
    /\ band.s \in Int /\ band.sp \in Int /\ band.sz \in Int
    /\ band.d \in Coefficients(6) /\ band.b \in Coefficients(6)
    /\ band.a \in Coefficients(2) /\ band.p \in Coefficients(2) /\ band.r \in Coefficients(2)

(* An adapted band is one, and its predictor is stable. *)
LEMMA AdaptedType ==
    ASSUME NEW limit \in Nat, NEW band, BandType(band, limit), NEW d0 \in Int,
           NEW nb \in Nat, nb <= limit, NEW index \in Int, 0 <= index, index < Len(ila)
    PROVE  BandType(Adapted(band, d0, nb, index), limit) /\ Stable(Adapted(band, d0, nb, index).a)
<1>1. PICK d : d = [band.d EXCEPT ![0] = d0]
  OBVIOUS
<1>2. PICK p0 \in Int : p0 = SaturateAddShort(d0, band.sz)
  <2>1. PICK x \in Int : x = band.sz
    BY DEF BandType
  <2> QED
    BY <2>1, SaturateAddShortType
<1>3. PICK r1 \in Int : r1 = SaturateAddShort(band.s, d0)
  <2>1. PICK x \in Int : x = band.s
    BY DEF BandType
  <2> QED
    BY <2>1, SaturateAddShortType
<1>20. PICK p : p = [band.p EXCEPT ![0] = p0]
  OBVIOUS
<1>21. PICK r0 : r0 = [band.r EXCEPT ![0] = r1]
  OBVIOUS
<1>4. PICK r : r = Shifted(r0, 2)
  OBVIOUS
<1>5. PICK b : b = Upzero(d, band.b)
  OBVIOUS
<1>6. PICK a : a = Poles(band.a, p)
  OBVIOUS
<1>7. PICK sz : sz = Filtez(Shifted(d, 6), b)
  OBVIOUS
<1>8. PICK sp : sp = Filtep(r, a)
  OBVIOUS
<1>9. Adapted(band, d0, nb, index) =
        [det |-> Scaled(index), nb |-> nb, s |-> SaturateAddShort(sp, sz), sp |-> sp, sz |-> sz,
         d |-> Shifted(d, 6), b |-> b, a |-> a, p |-> Shifted(p, 2), r |-> r]
  BY <1>1, <1>2, <1>3, <1>4, <1>5, <1>6, <1>7, <1>8, <1>20, <1>21, Zenon
  DEF Adapted
<1>10. band.d \in Coefficients(6) /\ band.p \in Coefficients(2) /\ band.r \in Coefficients(2)
  BY DEF BandType
<1>11. d \in Coefficients(6)
  BY <1>1, <1>10 DEF Coefficients
<1>12. p \in Coefficients(2) /\ r0 \in Coefficients(2)
  BY <1>10, <1>20, <1>21 DEF Coefficients
<1>13. Shifted(d, 6) \in Coefficients(6) /\ Shifted(p, 2) \in Coefficients(2)
       /\ r \in Coefficients(2)
  BY <1>4, <1>11, <1>12, ShiftedType
<1>14. b \in Coefficients(6)
  BY <1>5, UpzeroType DEF BandType
<1>15. a \in Coefficients(2) /\ Stable(a)
  BY <1>6, PolesStable DEF BandType
<1>16. sz \in Int
  BY <1>7, <1>13, <1>14, FiltezType DEF Coefficients
<1>17. sp \in Int
  BY <1>8, <1>13, <1>15, FiltepType
<1>18. SaturateAddShort(sp, sz) \in Int
  BY <1>16, <1>17, SaturateAddShortType
<1>19. Scaled(index) \in Nat /\ Scaled(index) <= 32767
  BY ScaledType
<1> QED
  BY <1>9, <1>13, <1>14, <1>15, <1>16, <1>17, <1>18, <1>19 DEF BandType

LEMMA ResetType ==
    ASSUME NEW limit \in Nat, NEW det \in Nat, det <= 32767,
           NEW left, left.a \in Int, left.p \in Int
    PROVE  /\ BandType(Reset(det, left), limit)
           /\ Reset(det, left).nb = 0
           /\ Reset(det, left).a[1] = 0 /\ Reset(det, left).a[2] = left.a
  BY DEF Reset, BandType, Coefficients

LEMMA LowTypes ==
    ASSUME BandType(low, LowLimit), NEW xl \in Int, NEW il \in 0 .. 63
    PROVE  /\ LsbCode(xl) \in 4 .. 63
           /\ BandType(LsbCod(il), LowLimit) /\ Stable(LsbCod(il).a)
<1>1. PICK s \in Int, det \in Int, nb \in Int : s = low.s /\ det = low.det /\ nb = low.nb
  BY DEF BandType
<1>2. PICK el \in Int : el = SaturateSubtractShort(xl, s)
  BY SaturateSubtractShortType
<1>3. LsbCode(xl) \in 4 .. 63
  BY <1>1, <1>2, QuantlType DEF LsbCode
<1>4. PICK nbpl \in Nat : nbpl = Logscl(il, nb) /\ nbpl <= LowLimit
  BY LogsclType
<1>5. PICK index \in Int : index = ScaleIndexl(nbpl) /\ 0 <= index /\ index < Len(ila)
  BY <1>4, ScaleIndexlType
<1>6. PICK d0 \in Int : d0 = Invqal(il, det)
  BY InvqalType
<1>7. BandType(Adapted(low, d0, nbpl, index), LowLimit) /\ Stable(Adapted(low, d0, nbpl, index).a)
  BY <1>4, <1>5, LimitTypes, AdaptedType
<1>8. LsbCod(il) = Adapted(low, d0, nbpl, index)
  BY <1>1, <1>4, <1>5, <1>6, Zenon DEF LsbCod
<1> QED
  BY <1>3, <1>7, <1>8

LEMMA HighTypes ==
    ASSUME BandType(high, HighLimit), NEW xh \in Int, NEW ih \in 0 .. 3
    PROVE  /\ HsbCode(xh) \in 0 .. 3
           /\ BandType(HsbCod(ih), HighLimit) /\ Stable(HsbCod(ih).a)
<1>1. PICK det \in Int, nb \in Int : det = high.det /\ nb = high.nb
  BY DEF BandType
<1>2. HsbCode(xh) \in 0 .. 3
  BY QuanthType DEF HsbCode
<1>3. PICK nbph \in Nat : nbph = Logsch(ih, nb) /\ nbph <= HighLimit
  BY LogschType
<1>4. PICK index \in Int : index = ScaleIndexh(nbph) /\ 0 <= index /\ index < Len(ila)
  BY <1>3, ScaleIndexhType
<1>5. PICK d0 \in Int : d0 = Invqah(ih, det)
  BY InvqahType
<1>6. /\ BandType(Adapted(high, d0, nbph, index), HighLimit)
      /\ Stable(Adapted(high, d0, nbph, index).a)
  BY <1>3, <1>4, LimitTypes, AdaptedType
<1>7. HsbCod(ih) = Adapted(high, d0, nbph, index)
  BY <1>1, <1>3, <1>4, <1>5, Zenon DEF HsbCod
<1> QED
  BY <1>2, <1>6, <1>7

-----------------------------------------------------------------------------
(* The encoder *)

G722TypeOK ==
    /\ signal \in Signals
    /\ BandType(low, LowLimit) /\ BandType(high, HighLimit)
    /\ delay \in Seq(Int) /\ Len(delay) = 24
    /\ code.il \in 0 .. 63 /\ code.ih \in 0 .. 3
    /\ pairs \in Nat /\ resets \in Nat

(* What is encoded once keeps its marks: a code of the low band is never of   *)
(* the four that are not sent, and the poles are stable.                      *)
G722Inv ==
    /\ G722TypeOK
    /\ pairs > 0 => code.il \in 4 .. 63
    /\ PredictorStable

LEMMA InitInv == InitG722 => G722Inv
<1> SUFFICES ASSUME InitG722
             PROVE  G722Inv
  OBVIOUS
<1>1. PICK left \in [a : Garbage, p : Garbage] : low = Reset(32, left)
  BY DEF InitG722
<1>2. PICK other \in [a : Garbage, p : Garbage] : high = Reset(8, other)
  BY DEF InitG722
<1>3. left.a \in Int /\ left.p \in Int /\ other.a \in Int /\ other.p \in Int
  BY G722Assumption, ShortIsInt
<1>4. BandType(low, LowLimit) /\ BandType(high, HighLimit)
  <2>1. 32 \in Nat /\ 32 <= 32767 /\ 8 \in Nat /\ 8 <= 32767
    OBVIOUS
  <2> QED
    BY <1>1, <1>2, <1>3, <2>1, LimitTypes, ResetType
<1>5. delay \in Seq(Int) /\ Len(delay) = 24
  BY DEF InitG722
<1>6. /\ signal \in Signals /\ pairs = 0 /\ resets = 0
      /\ code.il = 0 /\ code.ih = 0
  BY DEF InitG722
<1> QED
  BY <1>4, <1>5, <1>6 DEF G722Inv, G722TypeOK, PredictorStable

(* The delay line with the two samples of a pair before it, and what is kept *)
(* of it.                                                                     *)
Lengthened(older, x, y) == << x, y >> \o SubSeq(older, 3, 24)

Kept(line) == SubSeq(line, 1, 2) \o SubSeq(line, 1, 22)

LEMMA ElementsOfLine ==
    ASSUME NEW line \in Seq(Int), Len(line) = 24, NEW i \in Int, 1 <= i, i <= 24
    PROVE  line[i] \in Int
<1>1. i \in 1 .. Len(line)
  OBVIOUS
<1> QED
  BY <1>1, ElementOfSeq

LEMMA LengthenedType ==
    ASSUME NEW older \in Seq(Int), Len(older) = 24, NEW x \in Int, NEW y \in Int
    PROVE  Lengthened(older, x, y) \in Seq(Int) /\ Len(Lengthened(older, x, y)) = 24
<1>1. << x, y >> \in Seq(Int) /\ Len(<< x, y >>) = 2
  OBVIOUS
<1>2. ASSUME NEW i \in 3 .. 24
      PROVE  older[i] \in Int
  <2>1. i \in Int /\ 1 <= i /\ i <= 24
    OBVIOUS
  <2> QED
    BY <2>1, ElementsOfLine
<1>3. SubSeq(older, 3, 24) \in Seq(Int) /\ Len(SubSeq(older, 3, 24)) = 22
  BY <1>2, SubSeqProperties
<1> QED
  BY <1>1, <1>3, ConcatProperties DEF Lengthened

LEMMA KeptType ==
    ASSUME NEW line \in Seq(Int), Len(line) = 24
    PROVE  Kept(line) \in Seq(Int) /\ Len(Kept(line)) = 24
<1>1. ASSUME NEW i \in 1 .. 22
      PROVE  line[i] \in Int
  <2>1. i \in Int /\ 1 <= i /\ i <= 24
    OBVIOUS
  <2> QED
    BY <2>1, ElementsOfLine
<1>2. /\ SubSeq(line, 1, 2) \in Seq(Int) /\ Len(SubSeq(line, 1, 2)) = 2
      /\ SubSeq(line, 1, 22) \in Seq(Int) /\ Len(SubSeq(line, 1, 22)) = 22
  BY <1>1, SubSeqProperties
<1> QED
  BY <1>2, ConcatProperties DEF Kept

LEMMA HalfType ==
    ASSUME NEW sum \in Int
    PROVE  Half(sum) \in Int
<1>1. PICK n \in Int : n = SaturateAdd(sum, sum)
  BY SaturateAddType
<1>2. PICK half \in Int : half = n \div 65536
  BY Z3
<1>3. Clamp15ToBits(half) \in Int
  BY DEF Clamp15ToBits
<1> QED
  BY <1>1, <1>2, <1>3 DEF Half

LEMMA PairType ==
    ASSUME G722TypeOK
    PROVE  LET pair == signal[(pairs % Len(signal)) + 1]
           IN  pair[1] \in Int /\ pair[2] \in Int
<1>1. signal \in Seq(Short \X Short) /\ signal # << >>
  BY G722Assumption DEF G722TypeOK
<1>2. PICK size \in Nat : size = Len(signal) /\ size > 0
  BY <1>1, EmptySeq, LenProperties
<1>3. PICK n \in Nat : n = pairs
  BY DEF G722TypeOK
<1>4. PICK k \in 1 .. size : k = (n % size) + 1
  BY <1>2, Z3
<1>5. signal[k] \in Short \X Short
  BY <1>1, <1>2, <1>4, ElementOfSeq
<1>6. signal[k][1] \in Int /\ signal[k][2] \in Int
  BY <1>5, ShortIsInt
<1> QED
  BY <1>2, <1>3, <1>4, <1>6

LEMMA EncodePairInv == G722Inv /\ EncodePair => G722Inv'
<1> SUFFICES ASSUME G722Inv, EncodePair
             PROVE  G722Inv'
  OBVIOUS
<1> DEFINE pair == signal[(pairs % Len(signal)) + 1]
           line == Lengthened(delay, pair[2], pair[1])
           accuma == Accumulated(line, 1)
           accumb == Accumulated(line, 0)
           xl == Half(SaturateAdd(accuma, accumb))
           xh == Half(SaturateAdd(accuma, -accumb))
           il == LsbCode(xl)
           ih == HsbCode(xh)
<1>1. /\ pairs' = pairs + 1
      /\ delay' = Kept(line)
      /\ low' = LsbCod(il)
      /\ high' = HsbCod(ih)
      /\ code' = [il |-> il, ih |-> ih]
      /\ signal' = signal /\ resets' = resets
  BY Zenon DEF EncodePair, Lengthened, Kept
<1>2. pair[1] \in Int /\ pair[2] \in Int
  BY PairType DEF G722Inv
<1> HIDE DEF pair
<1>3. delay \in Seq(Int) /\ Len(delay) = 24
  BY DEF G722Inv, G722TypeOK
<1>4. /\ line \in Seq(Int) /\ Len(line) = 24
      /\ delay' \in Seq(Int) /\ Len(delay') = 24
  BY <1>1, <1>2, <1>3, LengthenedType, KeptType
<1> HIDE DEF line
<1>5. accuma \in Int /\ accumb \in Int
  BY <1>4, AccumulatedType
<1> HIDE DEF accuma, accumb
<1>7. xl \in Int /\ xh \in Int
  <2>1. PICK minus \in Int : minus = -accumb
    BY <1>5
  <2>2. SaturateAdd(accuma, accumb) \in Int /\ SaturateAdd(accuma, minus) \in Int
    BY <1>5, SaturateAddType
  <2> QED
    BY <2>1, <2>2, HalfType
<1> HIDE DEF xl, xh
<1>8. BandType(low, LowLimit) /\ BandType(high, HighLimit)
  BY DEF G722Inv, G722TypeOK
<1>9. il \in 4 .. 63 /\ ih \in 0 .. 3
  BY <1>7, <1>8, LowTypes, HighTypes
<1> HIDE DEF il, ih
<1>10. BandType(low', LowLimit) /\ Stable(low'.a)
  BY <1>1, <1>7, <1>8, <1>9, LowTypes
<1>11. BandType(high', HighLimit) /\ Stable(high'.a)
  BY <1>1, <1>7, <1>8, <1>9, HighTypes
<1>12. code'.il \in 4 .. 63 /\ code'.ih \in 0 .. 3
  BY <1>1, <1>9
<1>13. signal' \in Signals /\ pairs' \in Nat /\ resets' \in Nat
  BY <1>1 DEF G722Inv, G722TypeOK
<1>14. G722TypeOK'
  <2>1. code'.il \in 0 .. 63
    BY <1>12
  <2> QED
    BY <1>4, <1>10, <1>11, <1>12, <1>13, <2>1, Zenon DEF G722TypeOK
<1>15. PredictorStable'
  BY <1>10, <1>11, Zenon DEF PredictorStable
<1> QED
  BY <1>12, <1>14, <1>15, Zenon DEF G722Inv

LEMMA ResetBandInv == G722Inv /\ ResetBand => G722Inv'
<1> SUFFICES ASSUME G722Inv, ResetBand
             PROVE  G722Inv'
  OBVIOUS
<1> DEFINE left == [a |-> low.a[2], p |-> low.p[2]]
           other == [a |-> high.a[2], p |-> high.p[2]]
<1>1. low' = Reset(32, left) /\ high' = Reset(8, other)
  BY DEF ResetBand
<1>2. /\ signal' = signal /\ code' = code /\ pairs' = pairs
      /\ resets' = resets + 1 /\ delay' = [i \in 1 .. 24 |-> 0]
  BY DEF ResetBand
<1>3. BandType(low, LowLimit) /\ BandType(high, HighLimit)
  BY DEF G722Inv, G722TypeOK
<1>4. left.a \in Int /\ left.p \in Int /\ other.a \in Int /\ other.p \in Int
  BY <1>3 DEF BandType, Coefficients
<1>5. left.a = low.a[2] /\ other.a = high.a[2]
  OBVIOUS
<1> HIDE DEF left, other
<1>6. /\ BandType(low', LowLimit) /\ low'.a[1] = 0 /\ low'.a[2] = left.a
      /\ BandType(high', HighLimit) /\ high'.a[1] = 0 /\ high'.a[2] = other.a
  <2>1. 32 \in Nat /\ 32 <= 32767 /\ 8 \in Nat /\ 8 <= 32767
    OBVIOUS
  <2> QED
    BY <1>1, <1>4, <2>1, LimitTypes, ResetType
<1>7. delay' \in Seq(Int) /\ Len(delay') = 24
  BY <1>2
<1>8. G722TypeOK'
  <2>1. /\ signal' \in Signals /\ code'.il \in 0 .. 63 /\ code'.ih \in 0 .. 3
        /\ pairs' \in Nat /\ resets' \in Nat
    BY <1>2 DEF G722Inv, G722TypeOK
  <2> QED
    BY <1>6, <1>7, <2>1, Zenon DEF G722TypeOK
<1>9. PredictorStable'
  <2> SUFFICES ASSUME pairs' > 0
               PROVE  Stable(low'.a) /\ Stable(high'.a)
    BY Zenon DEF PredictorStable
  <2>1. Stable(low.a) /\ Stable(high.a)
    BY <1>2 DEF G722Inv, PredictorStable
  <2> QED
    BY <1>4, <1>5, <1>6, <2>1 DEF Stable
<1>10. pairs' > 0 => code'.il \in 4 .. 63
  BY <1>2 DEF G722Inv
<1> QED
  BY <1>8, <1>9, <1>10, Zenon DEF G722Inv

LEMMA StutterInv == G722Inv /\ UNCHANGED g722Vars => G722Inv'
<1> SUFFICES ASSUME G722Inv, UNCHANGED g722Vars
             PROVE  G722Inv'
  OBVIOUS
<1>1. /\ signal' = signal /\ low' = low /\ high' = high /\ delay' = delay
      /\ code' = code /\ pairs' = pairs /\ resets' = resets
  BY Zenon DEF g722Vars
<1>2. G722TypeOK' /\ PredictorStable'
  BY <1>1, Zenon DEF G722Inv, G722TypeOK, PredictorStable
<1>3. pairs' > 0 => code'.il \in 4 .. 63
  BY <1>1 DEF G722Inv
<1> QED
  BY <1>2, <1>3, Zenon DEF G722Inv

LEMMA StepInv == G722Inv /\ [NextG722]_g722Vars => G722Inv'
  BY EncodePairInv, ResetBandInv, StutterInv, Zenon DEF NextG722, Encoded

(* Both bands keep to integers, whatever the audio and the memory before it:  *)
(* nothing in the arithmetic of EncodePair goes wrong (LsbCod, HsbCod).       *)
THEOREM G722TypeCorrect == SpecG722 => []G722TypeOK
<1>1. G722Inv => G722TypeOK
  BY Zenon DEF G722Inv
<1> QED
  BY <1>1, InitInv, StepInv, PTL DEF SpecG722

LEMMA InvHolds == SpecG722 => []G722Inv
  BY InitInv, StepInv, PTL DEF SpecG722

(* The scales keep to the table and the codes to their bits (WithinTables):   *)
(* Limited bounds the logarithm, of which the index is a 64th, and Quantl and *)
(* Quanth bound the codes.                                                    *)
THEOREM TablesHold == SpecG722 => []WithinTables
<1>1. G722Inv => WithinTables
  <2> SUFFICES ASSUME G722Inv
               PROVE  WithinTables
    OBVIOUS
  <2>1. PICK nbl \in Nat, nbh \in Nat : nbl = low.nb /\ nbh = high.nb
                                        /\ nbl <= LowLimit /\ nbh <= HighLimit
    BY DEF G722Inv, G722TypeOK, BandType
  <2>2. ScaleIndexl(nbl) < Len(ila) /\ ScaleIndexh(nbh) < Len(ila)
    BY <2>1, ScaleIndexlType, ScaleIndexhType
  <2>3. (pairs > 0 => code.il \in 4 .. 63) /\ code.ih \in 0 .. 3
    BY DEF G722Inv, G722TypeOK
  <2> QED
    BY <2>1, <2>2, <2>3, Zenon DEF WithinTables
<1> QED
  BY <1>1, InvHolds, PTL

(* The poles are in the triangle of stability (PredictorStable): Uppol2       *)
(* clamps the second one and Uppol1 then bounds the first one by it, and      *)
(* ResetBand, which does not write the second pole, zeroes the first one.     *)
THEOREM PolesKeepStable == SpecG722 => []PredictorStable
<1>1. G722Inv => PredictorStable
  BY Zenon DEF G722Inv
<1> QED
  BY <1>1, InvHolds, PTL

(* Of two differences the larger one is never taken for the smaller one. *)
QuantizersKeepOrder ==
    \A small, large \in Int :
        small <= large =>
            TakenForLow(small) <= TakenForLow(large) /\ TakenForHigh(small) <= TakenForHigh(large)

(* Both quantizers are monotone, for any two differences and at every scale   *)
(* that is reached: the tables of the codes agree with those of their values. *)
THEOREM OrderIsKept == SpecG722 => []QuantizersKeepOrder
<1>1. G722Inv => QuantizersKeepOrder
  <2> SUFFICES ASSUME G722Inv, NEW small \in Int, NEW large \in Int, small <= large
               PROVE  /\ TakenForLow(small) <= TakenForLow(large)
                      /\ TakenForHigh(small) <= TakenForHigh(large)
    BY DEF QuantizersKeepOrder
  <2>1. PICK detl \in Nat, deth \in Nat : detl = low.det /\ deth = high.det
                                          /\ detl <= 32767 /\ deth <= 32767
    BY DEF G722Inv, G722TypeOK, BandType
  <2>2. Invqal(Quantl(small, detl), detl) <= Invqal(Quantl(large, detl), detl)
    BY <2>1, LowQuantizerMonotone
  <2>3. Invqah(Quanth(small, deth), deth) <= Invqah(Quanth(large, deth), deth)
    BY <2>1, HighQuantizerMonotone
  <2> QED
    BY <2>1, <2>2, <2>3 DEF TakenForLow, TakenForHigh
<1> QED
  BY <1>1, InvHolds, PTL

(* So the quantizers are monotone between the differences that the run looks  *)
(* at (QuantizersMonotone; Quantl with Invqal, Quanth with Invqah).           *)
THEOREM SampledOrderIsKept == SpecG722 => []QuantizersMonotone
<1>1. QuantizersKeepOrder => QuantizersMonotone
  <2> SUFFICES ASSUME QuantizersKeepOrder, NEW n \in -40 .. 39
               PROVE  /\ TakenForLow(819 * n) <= TakenForLow(819 * (n + 1))
                      /\ TakenForHigh(819 * n) <= TakenForHigh(819 * (n + 1))
    BY DEF QuantizersMonotone
  <2>1. PICK small \in Int, large \in Int : small = 819 * n /\ large = 819 * (n + 1)
    OBVIOUS
  <2>2. small <= large
    BY <2>1
  <2> QED
    BY <2>1, <2>2 DEF QuantizersKeepOrder
<1> QED
  BY <1>1, OrderIsKept, PTL

-----------------------------------------------------------------------------
(* G.711: halving *)

LEMMA HalfIsLess ==
    ASSUME NEW n \in Nat
    PROVE  n \div 2 \in Nat /\ n \div 2 <= n /\ (n > 0 => n \div 2 < n)
  BY Z3

HalvingsUpTo(f, n) ==
    f = [value \in 0 .. n |-> IF value = 0 THEN 0 ELSE 1 + f[value \div 2]]

NormalisedUpTo(f, n) ==
    f = [value \in 0 .. n |->
            IF IsNormal(value)
              THEN [value |-> value, segment |-> 1]
              ELSE LET half == f[value \div 2]
                   IN  [half EXCEPT !.segment = @ + 1]]

LEMMA HalvingsExist ==
    ASSUME NEW n \in Nat
    PROVE  \E f : HalvingsUpTo(f, n)
<1> DEFINE Missing == {m \in Nat : ~ \E f : HalvingsUpTo(f, m)}
<1>1. SUFFICES ASSUME Missing # {} PROVE FALSE
  OBVIOUS
<1>2. PICK m \in Missing : \A y \in Missing : m <= y
  BY <1>1, LeastNumber
<1>3. m # 0
  <2>1. HalvingsUpTo([value \in 0 .. 0 |-> 0], 0)
    BY DEF HalvingsUpTo
  <2> QED
    BY <2>1
<1>4. m - 1 \in Nat /\ m - 1 \notin Missing /\ m \in Nat
  BY <1>2, <1>3
<1>5. PICK f : HalvingsUpTo(f, m - 1)
  BY <1>4
<1> DEFINE g == [value \in 0 .. m |-> IF value = m THEN 1 + f[m \div 2] ELSE f[value]]
<1>6. ASSUME NEW value \in 0 .. m
      PROVE  g[value] = IF value = 0 THEN 0 ELSE 1 + g[value \div 2]
  <2>1. PICK half \in Nat : half = value \div 2 /\ half <= value /\ (value > 0 => half < value)
    BY <1>4, HalfIsLess
  <2>2. CASE value = m
    <3>1. value # 0 /\ g[half] = f[half] /\ g[value] = 1 + f[half]
      BY <1>3, <1>4, <2>1, <2>2
    <3> QED
      BY <2>1, <3>1, Zenon
  <2>3. CASE value # m
    <3>1. value \in 0 .. m - 1 /\ g[value] = f[value] /\ g[half] = f[half]
      BY <1>4, <2>1, <2>3
    <3>2. f[value] = IF value = 0 THEN 0 ELSE 1 + f[value \div 2]
      BY <1>5, <3>1, Zenon DEF HalvingsUpTo
    <3> QED
      BY <2>1, <3>1, <3>2, Zenon
  <2> QED
    BY <2>2, <2>3
<1>7. g = [value \in 0 .. m |-> IF value = 0 THEN 0 ELSE 1 + g[value \div 2]]
  <2>1. g = [value \in 0 .. m |-> g[value]]
    OBVIOUS
  <2> HIDE DEF g
  <2> QED
    BY <1>6, <2>1, Zenon
<1>8. HalvingsUpTo(g, m)
  <2> HIDE DEF g
  <2> QED
    BY <1>7, Zenon DEF HalvingsUpTo
<1> HIDE DEF g
<1> QED
  BY <1>2, <1>8

LEMMA NormalisedExist ==
    ASSUME NEW n \in Nat
    PROVE  \E f : NormalisedUpTo(f, n)
<1> DEFINE Missing == {m \in Nat : ~ \E f : NormalisedUpTo(f, m)}
           Of(value, half) == IF IsNormal(value)
                                THEN [value |-> value, segment |-> 1]
                                ELSE [half EXCEPT !.segment = @ + 1]
<1>1. SUFFICES ASSUME Missing # {} PROVE FALSE
  OBVIOUS
<1>2. PICK m \in Missing : \A y \in Missing : m <= y
  BY <1>1, LeastNumber
<1>3. m # 0
  <2>1. IsNormal(0)
    BY DEF IsNormal
  <2>2. NormalisedUpTo([value \in 0 .. 0 |-> [value |-> value, segment |-> 1]], 0)
    BY <2>1 DEF NormalisedUpTo
  <2> QED
    BY <2>2
<1>4. m - 1 \in Nat /\ m - 1 \notin Missing /\ m \in Nat
  BY <1>2, <1>3
<1>5. PICK f : NormalisedUpTo(f, m - 1)
  BY <1>4
<1> DEFINE g == [value \in 0 .. m |-> IF value = m THEN Of(m, f[m \div 2]) ELSE f[value]]
<1>6. ASSUME NEW value \in 0 .. m
      PROVE  g[value] = Of(value, g[value \div 2])
  <2>1. PICK half \in Nat : half = value \div 2 /\ half <= value /\ (value > 0 => half < value)
    BY <1>4, HalfIsLess
  <2>2. CASE value = m
    <3> HIDE DEF Of
    <3>1. g[half] = f[half] /\ g[value] = Of(m, f[half])
      BY <1>3, <1>4, <2>1, <2>2
    <3> QED
      BY <2>1, <2>2, <3>1, Zenon
  <2>3. CASE value # m
    <3>1. value \in 0 .. m - 1 /\ g[value] = f[value] /\ g[half] = f[half]
      <4> HIDE DEF Of
      <4> QED
        BY <1>4, <2>1, <2>3
    <3>2. f[value] = Of(value, f[value \div 2])
      BY <1>5, <3>1, Zenon DEF NormalisedUpTo
    <3> HIDE DEF Of
    <3> QED
      BY <2>1, <3>1, <3>2, Zenon
  <2> QED
    BY <2>2, <2>3
<1>7. g = [value \in 0 .. m |-> Of(value, g[value \div 2])]
  <2>1. g = [value \in 0 .. m |-> g[value]]
    OBVIOUS
  <2> HIDE DEF g, Of
  <2> QED
    BY <1>6, <2>1, Zenon
<1>8. NormalisedUpTo(g, m)
  <2> HIDE DEF g
  <2> QED
    BY <1>7, Zenon DEF NormalisedUpTo
<1> HIDE DEF g
<1> QED
  BY <1>2, <1>8

LEMMA MagnitudesAreNat ==
    /\ MaxMagnitude \in Nat
    /\ \A value : value \in Magnitudes <=> value \in Nat /\ value <= MaxMagnitude
<1>1. MaxMagnitude \in Nat
  BY DEF MaxMagnitude
<1> QED
  BY <1>1 DEF Magnitudes

LEMMA HalvingsRecursion ==
    ASSUME NEW value \in Magnitudes
    PROVE  Halvings[value] = IF value = 0 THEN 0 ELSE 1 + Halvings[value \div 2]
<1> DEFINE f == CHOOSE g : g = [v \in Magnitudes |-> IF v = 0 THEN 0 ELSE 1 + g[v \div 2]]
<1>1. Halvings = f
  BY Zenon DEF Halvings
<1>2. \E g : HalvingsUpTo(g, MaxMagnitude)
  BY MagnitudesAreNat, HalvingsExist, Zenon
<1>3. HalvingsUpTo(f, MaxMagnitude)
  BY <1>2, Zenon DEF HalvingsUpTo, Magnitudes
<1> HIDE DEF f
<1>4. f[value] = IF value = 0 THEN 0 ELSE 1 + f[value \div 2]
  BY <1>3, Zenon DEF HalvingsUpTo, Magnitudes
<1> QED
  BY <1>1, <1>4, Zenon

LEMMA NormalisedRecursion ==
    ASSUME NEW value \in Magnitudes
    PROVE  Normalised[value] =
              IF IsNormal(value)
                THEN [value |-> value, segment |-> 1]
                ELSE LET half == Normalised[value \div 2]
                     IN  [half EXCEPT !.segment = @ + 1]
<1> DEFINE f == CHOOSE g : g = [v \in Magnitudes |->
                                    IF IsNormal(v)
                                      THEN [value |-> v, segment |-> 1]
                                      ELSE LET half == g[v \div 2]
                                           IN  [half EXCEPT !.segment = @ + 1]]
<1>1. Normalised = f
  BY Zenon DEF Normalised
<1>2. \E g : NormalisedUpTo(g, MaxMagnitude)
  BY MagnitudesAreNat, NormalisedExist, Zenon
<1>3. NormalisedUpTo(f, MaxMagnitude)
  BY <1>2, Zenon DEF NormalisedUpTo, Magnitudes
<1> HIDE DEF f
<1>4. f[value] = IF IsNormal(value)
                   THEN [value |-> value, segment |-> 1]
                   ELSE LET half == f[value \div 2]
                        IN  [half EXCEPT !.segment = @ + 1]
  BY <1>3, Zenon DEF NormalisedUpTo, Magnitudes
<1> QED
  BY <1>1, <1>4, Zenon

(* A code of "segment", each of whose values stands for "step" of them. *)
Leaves(value, word, segment, step) ==
    /\ word \in [value : 16 .. 31, segment : {segment}]
    /\ word.value * step <= value /\ value < (word.value + 1) * step

LEMMA LeavesNormal ==
    ASSUME NEW value \in Nat, value <= MaxMagnitude, 16 <= value, value <= 31
    PROVE  Leaves(value, Normalised[value], 1, 1)
<1>1. value \in Magnitudes
  BY MagnitudesAreNat
<1>2. IsNormal(value)
  BY DEF IsNormal
<1>3. Normalised[value] = [value |-> value, segment |-> 1]
  BY <1>1, <1>2, NormalisedRecursion, Zenon
<1> QED
  BY <1>3 DEF Leaves

LEMMA LeavesHalf ==
    ASSUME NEW value \in Nat, value <= MaxMagnitude, value > 31,
           NEW segment \in Nat, NEW step \in Nat,
           Leaves(value \div 2, Normalised[value \div 2], segment, step)
    PROVE  Leaves(value, Normalised[value], segment + 1, 2 * step)
<1>1. ~ IsNormal(value)
  BY DEF IsNormal
<1>2. value \in Magnitudes
  BY MagnitudesAreNat
<1>3. PICK half \in Nat : half = value \div 2
  BY HalfIsLess
<1>4. PICK word : word = Normalised[half]
  OBVIOUS
<1>5. Normalised[value] = [word EXCEPT !.segment = @ + 1]
  BY <1>1, <1>2, <1>3, <1>4, NormalisedRecursion, Zenon
<1>6. half * 2 <= value /\ value <= half * 2 + 1
  BY <1>3, Z3
<1>7. Leaves(half, word, segment, step)
  BY <1>3, <1>4
<1>8. word \in [value : 16 .. 31, segment : {segment}]
  BY <1>7 DEF Leaves
<1>9. PICK c \in Int : c = word.value
  BY <1>8
<1>10. c * step <= half /\ half < (c + 1) * step
  BY <1>7, <1>9 DEF Leaves
<1>11. PICK p \in Int : p = c * step
  BY Z3
<1>12. (c + 1) * step = p + step /\ c * (2 * step) = 2 * p
       /\ (c + 1) * (2 * step) = 2 * p + 2 * step
  BY <1>11, Z3
<1>13. c * (2 * step) <= value /\ value < (c + 1) * (2 * step)
  BY <1>6, <1>10, <1>11, <1>12
<1>14. PICK new : new = [word EXCEPT !.segment = segment + 1]
  OBVIOUS
<1>15. new \in [value : 16 .. 31, segment : {segment + 1}] /\ new.value = c
  BY <1>8, <1>9, <1>14
<1>16. Leaves(value, new, segment + 1, 2 * step)
  BY <1>13, <1>15 DEF Leaves
<1>17. Normalised[value] = new
  BY <1>5, <1>8, <1>14
<1> QED
  BY <1>16, <1>17

(* So the loop of the A-law encoder leaves a segment of three bits. *)
LEMMA NormalisedLeaves ==
    ASSUME NEW value \in Nat, value <= MaxMagnitude, 16 <= value, value <= 2047
    PROVE  \/ Leaves(value, Normalised[value], 1, 1)
           \/ Leaves(value, Normalised[value], 2, 2)
           \/ Leaves(value, Normalised[value], 3, 4)
           \/ Leaves(value, Normalised[value], 4, 8)
           \/ Leaves(value, Normalised[value], 5, 16)
           \/ Leaves(value, Normalised[value], 6, 32)
           \/ Leaves(value, Normalised[value], 7, 64)
<1> DEFINE In(low0, segment, step) ==
               \A v \in Nat : v <= MaxMagnitude /\ low0 <= v /\ v < 2 * low0 =>
                                  Leaves(v, Normalised[v], segment, step)
<1>1. In(16, 1, 1)
  BY LeavesNormal
<1>2. ASSUME NEW low0 \in Nat, low0 >= 16, NEW segment \in Nat, NEW step \in Nat,
             In(low0, segment, step)
      PROVE  In(2 * low0, segment + 1, 2 * step)
  <2> SUFFICES ASSUME NEW v \in Nat, v <= MaxMagnitude, 2 * low0 <= v, v < 2 * (2 * low0)
               PROVE  Leaves(v, Normalised[v], segment + 1, 2 * step)
    OBVIOUS
  <2>1. PICK half \in Nat : half = v \div 2
    BY HalfIsLess
  <2>2. low0 <= half /\ half < 2 * low0 /\ half <= v
    BY <2>1, Z3
  <2>3. half <= MaxMagnitude
    BY <2>2, MagnitudesAreNat
  <2>4. Leaves(half, Normalised[half], segment, step)
    BY <1>2, <2>2, <2>3
  <2> QED
    BY <1>2, <2>1, <2>4, LeavesHalf
<1> HIDE DEF In
<1>3. In(32, 2, 2)
  BY <1>1, <1>2
<1>4. In(64, 3, 4)
  BY <1>2, <1>3
<1>5. In(128, 4, 8)
  BY <1>2, <1>4
<1>6. In(256, 5, 16)
  BY <1>2, <1>5
<1>7. In(512, 6, 32)
  BY <1>2, <1>6
<1>8. In(1024, 7, 64)
  BY <1>2, <1>7
<1>9. CASE value < 32
  BY <1>1, <1>9 DEF In
<1>10. CASE 32 <= value /\ value < 64
  BY <1>3, <1>10 DEF In
<1>11. CASE 64 <= value /\ value < 128
  BY <1>4, <1>11 DEF In
<1>12. CASE 128 <= value /\ value < 256
  BY <1>5, <1>12 DEF In
<1>13. CASE 256 <= value /\ value < 512
  BY <1>6, <1>13 DEF In
<1>14. CASE 512 <= value /\ value < 1024
  BY <1>7, <1>14 DEF In
<1>15. CASE 1024 <= value
  BY <1>8, <1>15 DEF In
<1> QED
  BY <1>9, <1>10, <1>11, <1>12, <1>13, <1>14, <1>15

LEMMA PowersOfTwo ==
    /\ 2 ^ 0 = 1 /\ 2 ^ 1 = 2 /\ 2 ^ 2 = 4 /\ 2 ^ 3 = 8 /\ 2 ^ 4 = 16
    /\ 2 ^ 5 = 32 /\ 2 ^ 6 = 64 /\ 2 ^ 7 = 128 /\ 2 ^ 8 = 256
  OBVIOUS

IsShort(sample) == -32768 <= sample /\ sample <= 32767

LEMMA MagnitudeType ==
    ASSUME NEW sample \in Int, IsShort(sample)
    PROVE  /\ Magnitude(sample) \in Nat /\ Magnitude(sample) <= MaxMagnitude
           /\ sample >= 0 => Magnitude(sample) = sample
           /\ sample < 0 => Magnitude(sample) = -sample - 1
  BY DEF IsShort, Magnitude, MaxMagnitude

LEMMA AlawFields ==
    ASSUME NEW sample, NEW value, value = Magnitude(sample) \div 16
    PROVE  /\ Alaw(sample).positive = Positive(sample)
           /\ Alaw(sample).segment = IF value > 15 THEN Normalised[value].segment ELSE 0
           /\ Alaw(sample).mantissa = IF value > 15 THEN Normalised[value].value - 16 ELSE 0
           /\ Alaw(sample) = [positive |-> Alaw(sample).positive,
                              segment |-> Alaw(sample).segment,
                              mantissa |-> Alaw(sample).mantissa]
  BY Zenon DEF Alaw

(* What the A-law encoder makes of a loud sample: p is what is left of it,    *)
(* scaled, and "step" how much one code stands for, in 16ths.                 *)
LEMMA AlawLoud ==
    ASSUME NEW sample \in Int, IsShort(sample), Magnitude(sample) >= 256
    PROVE  \E c \in 16 .. 31, step \in Nat, p \in Int :
              /\ p = c * step
              /\ Alaw(sample).segment \in 1 .. 7
              /\ Alaw(sample).mantissa = c - 16
              /\ AlawStep(Alaw(sample)) = 16 * step
              /\ 16 * p <= Magnitude(sample)
              /\ Magnitude(sample) < 16 * p + 16 * step
<1>1. PICK magnitude \in Nat : magnitude = Magnitude(sample)
  BY MagnitudeType
<1>2. PICK value \in Nat : value = magnitude \div 16
  BY Z3
<1>3. 16 * value <= magnitude /\ magnitude < 16 * (value + 1) /\ 16 <= value /\ value <= 2047
  <2>1. magnitude <= MaxMagnitude /\ magnitude >= 256
    BY <1>1, MagnitudeType
  <2> QED
    BY <1>2, <2>1, Z3 DEF MaxMagnitude
<1>4. value <= MaxMagnitude /\ value > 15
  BY <1>3 DEF MaxMagnitude
<1>5. PICK loud : loud = Normalised[value]
  OBVIOUS
<1>6. PICK word : word = Alaw(sample)
  OBVIOUS
<1>7. word.segment = loud.segment /\ word.mantissa = loud.value - 16
  BY <1>1, <1>2, <1>4, <1>5, <1>6, AlawFields
<1>8. ASSUME NEW segment \in 1 .. 7, NEW step \in Nat, Leaves(value, loud, segment, step),
             16 * 2 ^ (segment - 1) = 16 * step
      PROVE  \E c \in 16 .. 31, s \in Nat, p \in Int :
                /\ p = c * s
                /\ word.segment \in 1 .. 7
                /\ word.mantissa = c - 16
                /\ AlawStep(word) = 16 * s
                /\ 16 * p <= magnitude
                /\ magnitude < 16 * p + 16 * s
  <2>1. PICK c \in 16 .. 31 : c = loud.value /\ loud.segment = segment
    BY <1>8 DEF Leaves
  <2>2. c * step <= value /\ value < (c + 1) * step
    BY <1>8, <2>1 DEF Leaves
  <2>3. PICK p \in Int : p = c * step
    BY Z3
  <2>4. (c + 1) * step = p + step
    BY <2>3, Z3
  <2>5. 16 * p <= magnitude /\ magnitude < 16 * p + 16 * step
    BY <1>3, <2>2, <2>3, <2>4
  <2>6. word.segment = segment /\ word.mantissa = c - 16
    BY <1>7, <2>1
  <2>7. segment # 0
    OBVIOUS
  <2>8. AlawStep(word) = 16 * step
    BY <1>8, <2>6, <2>7, Zenon DEF AlawStep
  <2> QED
    BY <2>3, <2>5, <2>6, <2>8, Zenon
<1> DEFINE Goal == \E c \in 16 .. 31, s \in Nat, p \in Int :
                      /\ p = c * s
                      /\ word.segment \in 1 .. 7
                      /\ word.mantissa = c - 16
                      /\ AlawStep(word) = 16 * s
                      /\ 16 * p <= magnitude
                      /\ magnitude < 16 * p + 16 * s
<1> HIDE DEF Goal
<1>9. ASSUME NEW segment \in 1 .. 7, NEW step \in Nat, Leaves(value, loud, segment, step),
             16 * 2 ^ (segment - 1) = 16 * step
      PROVE  Goal
  BY <1>8, <1>9, Zenon DEF Goal
<1>10. /\ 2 ^ (1 - 1) = 1 /\ 2 ^ (2 - 1) = 2 /\ 2 ^ (3 - 1) = 4 /\ 2 ^ (4 - 1) = 8
       /\ 2 ^ (5 - 1) = 16 /\ 2 ^ (6 - 1) = 32 /\ 2 ^ (7 - 1) = 64
  OBVIOUS
<1>11. Goal
  <2>1. CASE Leaves(value, loud, 1, 1)
    BY <1>9, <1>10, <2>1
  <2>2. CASE Leaves(value, loud, 2, 2)
    BY <1>9, <1>10, <2>2
  <2>3. CASE Leaves(value, loud, 3, 4)
    BY <1>9, <1>10, <2>3
  <2>4. CASE Leaves(value, loud, 4, 8)
    BY <1>9, <1>10, <2>4
  <2>5. CASE Leaves(value, loud, 5, 16)
    BY <1>9, <1>10, <2>5
  <2>6. CASE Leaves(value, loud, 6, 32)
    BY <1>9, <1>10, <2>6
  <2>7. CASE Leaves(value, loud, 7, 64)
    BY <1>9, <1>10, <2>7
  <2> QED
    BY <1>3, <1>4, <1>5, <2>1, <2>2, <2>3, <2>4, <2>5, <2>6, <2>7, NormalisedLeaves
<1> QED
  BY <1>1, <1>6, <1>11, Zenon DEF Goal

LEMMA AlawType ==
    ASSUME NEW sample \in Int, IsShort(sample)
    PROVE  Alaw(sample) \in [positive : BOOLEAN, segment : 0 .. 7, mantissa : 0 .. 15]
<1>1. Alaw(sample).segment \in 0 .. 7 /\ Alaw(sample).mantissa \in 0 .. 15
  <2>1. CASE Magnitude(sample) >= 256
    <3>1. PICK c \in 16 .. 31 : /\ Alaw(sample).segment \in 1 .. 7
                                /\ Alaw(sample).mantissa = c - 16
      BY <2>1, AlawLoud
    <3> QED
      BY <3>1
  <2>2. CASE ~ (Magnitude(sample) >= 256)
    <3>1. PICK magnitude \in Nat : magnitude = Magnitude(sample) /\ magnitude < 256
      BY <2>2, MagnitudeType
    <3>2. PICK value \in Nat : value = magnitude \div 16 /\ ~ (value > 15)
      BY <3>1, Z3
    <3> QED
      BY <3>1, <3>2, AlawFields
  <2> QED
    BY <2>1, <2>2
<1>2. Alaw(sample).positive \in BOOLEAN
  <2>1. Alaw(sample).positive = Positive(sample)
    BY AlawFields, Zenon
  <2> QED
    BY <2>1 DEF Positive
<1>3. Alaw(sample) = [positive |-> Alaw(sample).positive,
                      segment |-> Alaw(sample).segment,
                      mantissa |-> Alaw(sample).mantissa]
  BY AlawFields, Zenon
<1> QED
  BY <1>1, <1>2, <1>3, Zenon

(* An A-law code is near its sample. *)
LEMMA AlawLocates ==
    ASSUME NEW sample \in Int, IsShort(sample), Magnitude(sample) >= 256
    PROVE  32 * Distance(AlawDecoded(Alaw(sample)), sample) <= Magnitude(sample)
<1>1. PICK magnitude \in Nat : /\ magnitude = Magnitude(sample)
                               /\ sample >= 0 => magnitude = sample
                               /\ sample < 0 => magnitude = -sample - 1
  BY MagnitudeType
<1>2. PICK c \in 16 .. 31, step \in Nat, p \in Int :
          /\ p = c * step
          /\ Alaw(sample).segment \in 1 .. 7
          /\ Alaw(sample).mantissa = c - 16
          /\ AlawStep(Alaw(sample)) = 16 * step
          /\ 16 * p <= magnitude
          /\ magnitude < 16 * p + 16 * step
  BY <1>1, AlawLoud
<1>3. PICK word : word = Alaw(sample)
  OBVIOUS
<1>4. Alaw(sample).positive = Positive(sample)
  BY AlawFields, Zenon
<1>5. c * (16 * step) = 16 * p /\ 16 * step <= p
  BY <1>2, Z3
<1>6. PICK wide \in Nat : wide = 16 * step
  BY Z3
<1>7. wide \div 2 = 8 * step
  BY <1>6, Z3
<1>8. AlawMagnitude(word) = 16 * p + 8 * step
  <2>1. (word.mantissa + 16) = c
    BY <1>2, <1>3
  <2>2. AlawMagnitude(word) = (word.mantissa + 16) * AlawStep(word) + AlawStep(word) \div 2
    BY <1>2, <1>3 DEF AlawMagnitude
  <2>3. AlawMagnitude(word) = c * wide + wide \div 2
    BY <1>2, <1>3, <1>6, <2>1, <2>2
  <2> QED
    BY <1>5, <1>6, <1>7, <2>3
<1>9. PICK middle \in Int : middle = AlawMagnitude(word) /\ middle = 16 * p + 8 * step
  BY <1>8
<1>10. CASE sample >= 0
  <2>1. AlawDecoded(word) = middle
    BY <1>3, <1>4, <1>9, <1>10 DEF AlawDecoded, Positive
  <2>2. 32 * Distance(middle, sample) <= magnitude
    BY <1>1, <1>2, <1>5, <1>9, <1>10 DEF Distance
  <2> QED
    BY <1>1, <1>3, <2>1, <2>2
<1>11. CASE sample < 0
  <2>1. AlawDecoded(word) = -middle
    <3>1. Positive(sample) = FALSE
      BY <1>11 DEF Positive
    <3> QED
      BY <1>3, <1>4, <1>9, <3>1, Zenon DEF AlawDecoded
  <2>2. 32 * Distance(-middle, sample) <= magnitude
    BY <1>1, <1>2, <1>5, <1>9, <1>11 DEF Distance
  <2> QED
    BY <1>1, <1>3, <2>1, <2>2
<1> QED
  BY <1>10, <1>11

(* The loop of the u-law encoder counts the bits. *)
LEMMA HalvingsCount ==
    ASSUME NEW value \in Nat, value <= 127
    PROVE  \/ Halvings[value] = 0 /\ value = 0
           \/ Halvings[value] = 1 /\ 1 <= value /\ value < 2
           \/ Halvings[value] = 2 /\ 2 <= value /\ value < 4
           \/ Halvings[value] = 3 /\ 4 <= value /\ value < 8
           \/ Halvings[value] = 4 /\ 8 <= value /\ value < 16
           \/ Halvings[value] = 5 /\ 16 <= value /\ value < 32
           \/ Halvings[value] = 6 /\ 32 <= value /\ value < 64
           \/ Halvings[value] = 7 /\ 64 <= value /\ value < 128
<1> DEFINE In(least, count) ==
               \A v \in Nat : v <= MaxMagnitude /\ least <= v /\ v < 2 * least =>
                                  Halvings[v] = count
<1>1. 0 \in Magnitudes /\ 1 \in Magnitudes /\ value <= MaxMagnitude
  <2>1. 1 <= MaxMagnitude /\ 127 <= MaxMagnitude
    BY DEF MaxMagnitude
  <2> QED
    BY <2>1, MagnitudesAreNat
<1>2. Halvings[0] = 0
  BY <1>1, HalvingsRecursion
<1>3. In(1, 1)
  <2>1. 1 \div 2 = 0
    OBVIOUS
  <2>2. Halvings[1] = 1 + Halvings[0]
    BY <1>1, <2>1, HalvingsRecursion
  <2> QED
    BY <1>2, <2>2
<1>4. ASSUME NEW least \in Nat, least >= 1, NEW count \in Nat, In(least, count)
      PROVE  In(2 * least, 1 + count)
  <2> SUFFICES ASSUME NEW v \in Nat, v <= MaxMagnitude, 2 * least <= v, v < 2 * (2 * least)
               PROVE  Halvings[v] = 1 + count
    OBVIOUS
  <2>1. PICK half \in Nat : half = v \div 2
    BY HalfIsLess
  <2>2. least <= half /\ half < 2 * least /\ half <= v /\ v # 0
    BY <2>1, Z3
  <2>3. half <= MaxMagnitude /\ v \in Magnitudes
    BY <2>2, MagnitudesAreNat
  <2>4. Halvings[half] = count
    BY <1>4, <2>2, <2>3
  <2>5. Halvings[v] = 1 + Halvings[half]
    BY <2>1, <2>2, <2>3, HalvingsRecursion
  <2> QED
    BY <2>4, <2>5
<1> HIDE DEF In
<1>5. In(2, 2)
  BY <1>3, <1>4
<1>6. In(4, 3)
  BY <1>4, <1>5
<1>7. In(8, 4)
  BY <1>4, <1>6
<1>8. In(16, 5)
  BY <1>4, <1>7
<1>9. In(32, 6)
  BY <1>4, <1>8
<1>10. In(64, 7)
  BY <1>4, <1>9
<1>11. CASE value = 0
  BY <1>2, <1>11
<1>12. CASE 1 <= value /\ value < 2
  BY <1>1, <1>3, <1>12 DEF In
<1>13. CASE 2 <= value /\ value < 4
  BY <1>1, <1>5, <1>13 DEF In
<1>14. CASE 4 <= value /\ value < 8
  BY <1>1, <1>6, <1>14 DEF In
<1>15. CASE 8 <= value /\ value < 16
  BY <1>1, <1>7, <1>15 DEF In
<1>16. CASE 16 <= value /\ value < 32
  BY <1>1, <1>8, <1>16 DEF In
<1>17. CASE 32 <= value /\ value < 64
  BY <1>1, <1>9, <1>17 DEF In
<1>18. CASE 64 <= value
  BY <1>1, <1>10, <1>18 DEF In
<1> QED
  BY <1>11, <1>12, <1>13, <1>14, <1>15, <1>16, <1>17, <1>18

(* The segment of a u-law code is that of its value. *)
LEMMA UlawLocates ==
    ASSUME NEW sample \in Int, IsShort(sample)
    PROVE  /\ Ulaw(sample) \in [positive : BOOLEAN, segment : 1 .. 8, mantissa : 0 .. 15]
           /\ 16 * UlawStep(Ulaw(sample)) <= UlawValue(sample)
           /\ UlawValue(sample) < 32 * UlawStep(Ulaw(sample))
<1>1. PICK magnitude \in Nat : magnitude = Magnitude(sample)
  BY MagnitudeType
<1>2. PICK quarter \in Nat : quarter = magnitude \div 4
  BY Z3
<1>3. PICK value \in Nat : value = UlawValue(sample) /\ 33 <= value /\ value <= 8191
  <2>1. UlawValue(sample) = IF quarter + 33 > 8191 THEN 8191 ELSE quarter + 33
    BY <1>1, <1>2 DEF UlawValue
  <2> QED
    BY <2>1
<1>4. PICK high0 \in Nat : high0 = value \div 64
  BY Z3
<1>5. 64 * high0 <= value /\ value < 64 * (high0 + 1) /\ high0 <= 127
  BY <1>3, <1>4, Z3
<1>6. PICK halvings : halvings = Halvings[high0]
  OBVIOUS
<1>7. \/ halvings = 0 /\ high0 = 0
      \/ halvings = 1 /\ 1 <= high0 /\ high0 < 2
      \/ halvings = 2 /\ 2 <= high0 /\ high0 < 4
      \/ halvings = 3 /\ 4 <= high0 /\ high0 < 8
      \/ halvings = 4 /\ 8 <= high0 /\ high0 < 16
      \/ halvings = 5 /\ 16 <= high0 /\ high0 < 32
      \/ halvings = 6 /\ 32 <= high0 /\ high0 < 64
      \/ halvings = 7 /\ 64 <= high0 /\ high0 < 128
  BY <1>5, <1>6, HalvingsCount
<1>8. PICK segment \in 1 .. 8 : segment = 1 + halvings
  BY <1>7
<1>9. PICK step \in Nat : step = 2 ^ segment /\ 16 * step <= value /\ value < 32 * step
  <2>1. CASE halvings = 0
    <3>1. segment = 1 /\ 16 * 2 <= value /\ value < 32 * 2
      BY <1>3, <1>5, <1>7, <1>8, <2>1
    <3> QED
      BY <3>1, PowersOfTwo
  <2>2. CASE halvings = 1
    <3>1. segment = 2 /\ 16 * 4 <= value /\ value < 32 * 4
      BY <1>3, <1>5, <1>7, <1>8, <2>2
    <3> QED
      BY <3>1, PowersOfTwo
  <2>3. CASE halvings = 2
    <3>1. segment = 3 /\ 16 * 8 <= value /\ value < 32 * 8
      BY <1>3, <1>5, <1>7, <1>8, <2>3
    <3> QED
      BY <3>1, PowersOfTwo
  <2>4. CASE halvings = 3
    <3>1. segment = 4 /\ 16 * 16 <= value /\ value < 32 * 16
      BY <1>3, <1>5, <1>7, <1>8, <2>4
    <3> QED
      BY <3>1, PowersOfTwo
  <2>5. CASE halvings = 4
    <3>1. segment = 5 /\ 16 * 32 <= value /\ value < 32 * 32
      BY <1>3, <1>5, <1>7, <1>8, <2>5
    <3> QED
      BY <3>1, PowersOfTwo
  <2>6. CASE halvings = 5
    <3>1. segment = 6 /\ 16 * 64 <= value /\ value < 32 * 64
      BY <1>3, <1>5, <1>7, <1>8, <2>6
    <3> QED
      BY <3>1, PowersOfTwo
  <2>7. CASE halvings = 6
    <3>1. segment = 7 /\ 16 * 128 <= value /\ value < 32 * 128
      BY <1>3, <1>5, <1>7, <1>8, <2>7
    <3> QED
      BY <3>1, PowersOfTwo
  <2>8. CASE halvings = 7
    <3>1. segment = 8 /\ 16 * 256 <= value /\ value < 32 * 256
      BY <1>3, <1>5, <1>7, <1>8, <2>8
    <3> QED
      BY <3>1, PowersOfTwo
  <2> QED
    BY <1>7, <2>1, <2>2, <2>3, <2>4, <2>5, <2>6, <2>7, <2>8
<1>10. UlawSegment(value) = segment
  BY <1>4, <1>6, <1>8 DEF UlawSegment
<1>11. UlawMantissa(value, segment) \in 0 .. 15
  BY DEF UlawMantissa
<1>12. Ulaw(sample) = [positive |-> (sample >= 0), segment |-> segment,
                       mantissa |-> UlawMantissa(value, segment)]
  BY <1>3, <1>10 DEF Ulaw, Positive
<1>13. UlawStep(Ulaw(sample)) = step
  <2>1. Ulaw(sample).segment = segment
    BY <1>12
  <2> QED
    BY <1>9, <2>1 DEF UlawStep
<1> QED
  BY <1>3, <1>9, <1>11, <1>12, <1>13

-----------------------------------------------------------------------------
(* The codes are those of the sample. *)
G711Inv ==
    /\ pcm \in Int /\ Lowest <= pcm /\ pcm <= Highest
    /\ alaw = Alaw(pcm) /\ ulaw = Ulaw(pcm)

LEMMA SamplesAreShorts ==
    ASSUME NEW sample \in Int, Lowest <= sample, sample <= Highest
    PROVE  IsShort(sample)
  BY G711Assumption DEF IsShort

LEMMA G711InvHolds == Spec => []G711Inv
<1>1. Init => G711Inv
  BY G711Assumption DEF Init, G711Inv
<1>2. G711Inv /\ [Next]_vars => G711Inv'
  <2> SUFFICES ASSUME G711Inv, [Next]_vars
               PROVE  G711Inv'
    OBVIOUS
  <2>1. CASE Encode
    <3>1. pcm' = pcm + 1 /\ pcm < Highest /\ alaw' = Alaw(pcm') /\ ulaw' = Ulaw(pcm')
      BY <2>1, Zenon DEF Encode
    <3>2. pcm' \in Int /\ Lowest <= pcm' /\ pcm' <= Highest
      BY <3>1, G711Assumption DEF G711Inv
    <3> QED
      BY <3>1, <3>2, Zenon DEF G711Inv
  <2>2. CASE UNCHANGED vars
    <3>1. pcm' = pcm /\ alaw' = alaw /\ ulaw' = ulaw
      BY <2>2, Zenon DEF vars
    <3> QED
      BY <3>1, Zenon DEF G711Inv
  <2> QED
    BY <2>1, <2>2, Zenon DEF Next, Over
<1> QED
  BY <1>1, <1>2, PTL DEF Spec

(* The codes of G.711 keep to three bits of segment and four of mantissa: the *)
(* loops of both encoders end after at most seven halvings (encoder.cpp:25-29 *)
(* and 67).                                                                   *)
THEOREM G711TypeCorrect == Spec => []TypeOK
<1>1. G711Inv => TypeOK
  <2> SUFFICES ASSUME G711Inv
               PROVE  TypeOK
    OBVIOUS
  <2>1. PICK sample \in Int : sample = pcm /\ Lowest <= sample /\ sample <= Highest
    BY DEF G711Inv
  <2>2. IsShort(sample)
    BY <2>1, SamplesAreShorts
  <2>3. /\ Alaw(sample) \in [positive : BOOLEAN, segment : 0 .. 7, mantissa : 0 .. 15]
        /\ Ulaw(sample) \in [positive : BOOLEAN, segment : 1 .. 8, mantissa : 0 .. 15]
    BY <2>2, AlawType, UlawLocates, Zenon
  <2>4. sample \in Lowest .. Highest
    BY <2>1, G711Assumption
  <2> QED
    BY <2>1, <2>3, <2>4, Zenon DEF TypeOK, G711Inv
<1> QED
  BY <1>1, G711InvHolds, PTL

(* Every code locates its sample (CodesLocateSamples): a halving of the A-law *)
(* loop loses at most half of the step that the segment counts, and the loop  *)
(* of u-law counts the bits of the value.                                     *)
THEOREM SamplesAreLocated == Spec => []CodesLocateSamples
<1>1. G711Inv => CodesLocateSamples
  <2> SUFFICES ASSUME G711Inv
               PROVE  CodesLocateSamples
    OBVIOUS
  <2>1. PICK sample \in Int : sample = pcm /\ Lowest <= sample /\ sample <= Highest
    BY DEF G711Inv
  <2>2. IsShort(sample)
    BY <2>1, SamplesAreShorts
  <2>3. Magnitude(sample) >= 256 =>
           32 * Distance(AlawDecoded(Alaw(sample)), sample) <= Magnitude(sample)
    BY <2>2, AlawLocates
  <2>4. /\ 16 * UlawStep(Ulaw(sample)) <= UlawValue(sample)
        /\ UlawValue(sample) < 32 * UlawStep(Ulaw(sample))
    BY <2>2, UlawLocates
  <2> QED
    BY <2>1, <2>3, <2>4, Zenon DEF CodesLocateSamples, G711Inv
<1> QED
  BY <1>1, G711InvHolds, PTL

-----------------------------------------------------------------------------
(* The behaviours that the run looks at are behaviours of either encoder: what *)
(* is proved of Spec and of SpecG722 holds in them.                            *)
THEOREM EncodersRun == EncoderSpec => Spec /\ SpecG722
<1>1. EncoderInit => Init /\ InitG722
  BY DEF EncoderInit
<1>2. [EncoderNext]_<< vars, g722Vars, codec >> => [Next]_vars /\ [NextG722]_g722Vars
  BY Zenon DEF EncoderNext
<1> QED
  BY <1>1, <1>2, PTL DEF EncoderSpec, Spec, SpecG722
=============================================================================
