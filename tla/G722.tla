-------------------------------- MODULE G722 --------------------------------
(***************************************************************************)
(* The G.722 encoder (src/g722encoder.cpp): a filter splits the samples    *)
(* into two bands, each of which codes how far its prediction is off and   *)
(* adapts to what it has coded: the scale of its quantizer, two poles and  *)
(* six zeros of its predictor.                                             *)
(*                                                                         *)
(* Both bands are a record of the same fields, det to r for FullBandType's *)
(* detl or deth to rlt or rh.  Shorts are kept in range by saturation, as  *)
(* in the code; the sums of the filter are of 32 bits.                     *)
(***************************************************************************)
EXTENDS Integers, Sequences

CONSTANTS
    Signals,    \* what is encoded, over and over: sequences of pairs of samples
    Garbage,    \* what memory may hold where ResetBand does not write
    MaxPairs,   \* bound: pairs of samples encoded
    MaxResets   \* bound: calls of ResetBand on an encoder in use

SHRT_MIN == -32768
SHRT_MAX == 32767
Short == SHRT_MIN .. SHRT_MAX

ASSUME G722Assumption ==
    /\ Signals \subseteq Seq(Short \X Short) \ {<< >>}
    /\ Garbage \subseteq Short
    /\ MaxPairs \in Nat /\ MaxResets \in Nat

VARIABLES
    signal,     \* the signal that is encoded
    low, high,  \* the two bands
    delay,      \* qmf_tx_delayx
    code,       \* the codes of the last pair, one per band
    pairs,      \* pairs encoded
    resets      \* calls of ResetBand in between

g722Vars == << signal, low, high, delay, code, pairs, resets >>

-----------------------------------------------------------------------------
(* Arithmetic of shorts and ints *)

Saturate(n) == IF n > 32767 THEN 32767 ELSE IF n < -32768 THEN -32768 ELSE n

SaturateAddShort(m, n) == Saturate(m + n)

SaturateSubtractShort(m, n) == Saturate(m - n)

ShiftLeftShort(n, bits) == Saturate(n * 2 ^ bits)

ShiftRightShort(n, bits) == n \div 2 ^ bits

(* The product of the two lowest shorts does not fit. *)
ScaledMult(m, n) ==
    LET product == (m * n) \div 32768 IN IF product = 32768 THEN -32768 ELSE product

SaturateAdd(m, n) ==
    IF m >= 0 THEN IF n > 2147483647 - m THEN 2147483647 ELSE m + n
              ELSE IF n < -2147483647 - 1 - m THEN -2147483647 - 1 ELSE m + n

Clamp15ToBits(n) == IF n > 16383 THEN 16383 ELSE IF n < -16384 THEN -16384 ELSE n

SameSign(m, n) == (m < 0) = (n < 0)

-----------------------------------------------------------------------------
(* Tables, which the code indexes from 0 *)

coef_qmf == << 6, -22, -22, 106, 24, -312, 64, 724, -420, -1610, 1902, 7752,
               7752, 1902, -1610, -420, 724, 64, -312, 24, 106, -22, -22, 6 >>

q6 == << 0, 35, 72, 110, 150, 190, 233, 276, 323, 370, 422, 473, 530, 587, 650, 714, 786, 858,
         940, 1023, 1121, 1219, 1339, 1458, 1612, 1765, 1980, 2195, 2557, 2919, 3200 >>

ril4 == << 0, 7, 6, 5, 4, 3, 2, 1, 7, 6, 5, 4, 3, 2, 1, 0 >>
oq4 == << 0, 150, 323, 530, 786, 1121, 1612, 2557 >>
wl == << -60, -30, 58, 172, 334, 538, 1198, 3042 >>
ih2 == << 2, 1, 2, 1 >>
oq2 == << 0, 202, 926 >>
wh == << 0, -214, 798 >>

ila == <<
    1, 1, 1, 1, 1, 1, 1, 1, 1, 1, 1, 1, 1, 1, 1, 1, 1, 1, 1, 2, 2, 2, 2, 2, 2, 2, 2, 2, 2, 2, 2, 2,
    3, 3, 3, 3, 3, 3, 3, 3, 3, 3, 3, 4, 4, 4, 4, 4, 4, 4, 4, 5, 5, 5, 5, 5, 5, 5, 6, 6, 6, 6, 6, 6,
    7, 7, 7, 7, 7, 7, 8, 8, 8, 8, 8, 9, 9, 9, 9, 10, 10, 10, 10, 11, 11, 11, 11, 12, 12, 12, 13,
    13, 13, 13, 14, 14, 15, 15, 15, 16, 16, 16, 17, 17, 18, 18, 18, 19, 19, 20, 20, 21, 21, 22, 22,
    23, 23, 24, 24, 25, 25, 26, 27, 27, 28, 28, 29, 30, 31, 31, 32, 33, 33, 34, 35, 36, 37, 37, 38,
    39, 40, 41, 42, 43, 44, 45, 46, 47, 48, 49, 50, 51, 52, 54, 55, 56, 57, 58, 60, 61, 63, 64, 65,
    67, 68, 70, 71, 73, 75, 76, 78, 80, 82, 83, 85, 87, 89, 91, 93, 95, 97, 99, 102, 104, 106, 109,
    111, 113, 116, 118, 121, 124, 127, 129, 132, 135, 138, 141, 144, 147, 151, 154, 157, 161, 165,
    168, 172, 176, 180, 184, 188, 192, 196, 200, 205, 209, 214, 219, 223, 228, 233, 238, 244, 249,
    255, 260, 266, 272, 278, 284, 290, 296, 303, 310, 316, 323, 331, 338, 345, 353, 361, 369, 377,
    385, 393, 402, 411, 420, 429, 439, 448, 458, 468, 478, 489, 500, 511, 522, 533, 545, 557, 569,
    582, 594, 607, 621, 634, 648, 663, 677, 692, 707, 723, 739, 755, 771, 788, 806, 823, 841, 860,
    879, 898, 918, 938, 958, 979, 1001, 1023, 1045, 1068, 1092, 1115, 1140, 1165, 1190, 1216, 1243,
    1270, 1298, 1327, 1356, 1386, 1416, 1447, 1479, 1511, 1544, 1578, 1613, 1648, 1684, 1721, 1759,
    1797, 1837, 1877, 1918, 1960, 2003, 2047, 2092, 2138, 2185, 2232, 2281, 2331, 2382, 2434, 2488,
    2542, 2598, 2655, 2713, 2773, 2833, 2895, 2959, 3024, 3090, 3157, 3227, 3297, 3370, 3443, 3519,
    3596, 3675, 3755, 3837, 3921, 4007, 4095 >>

-----------------------------------------------------------------------------
(* Quantizers *)

(* The magnitude of a difference: "~" of a negative one. *)
Off(difference) == IF difference < 0 THEN -difference - 1 ELSE difference

(* The while loop of Quantl: the first of 30 levels above the magnitude. *)
Level(wd, det) ==
    LET Above(mil) == ScaledMult(ShiftLeftShort(q6[mil + 1], 3), det) > wd
        above == {mil \in 0 .. 30 : Above(mil)}
    IN  IF above = {} THEN 30 ELSE CHOOSE mil \in above : \A other \in above : mil <= other

(* misil *)
Quantl(el, detl) ==
    LET mil == Level(Off(el), detl)
    IN  CASE mil = 0             -> 0
          [] mil > 0 /\ el >= 0  -> 62 - mil
          [] mil \in 1 .. 2 /\ el < 0 -> 64 - mil
          [] mil > 2 /\ el < 0   -> 34 - mil

(* misih *)
Quanth(eh, deth) ==
    LET mih == IF Off(eh) >= ScaledMult(ShiftLeftShort(564, 3), deth) THEN 2 ELSE 1
    IN  (IF eh < 0 THEN 2 ELSE 4) - mih

(* Seeded fault: no sign. *)
InvqalUnsigned(il, detl) ==
    ScaledMult(detl, ShiftLeftShort(oq4[ril4[ShiftRightShort(il, 2) + 1] + 1], 3))

(* risil: of the sixteen codes left, 1 to 7 are of negative differences. *)
Invqal(il, detl) ==
    LET ril == ShiftRightShort(il, 2)
        wd1 == ShiftLeftShort(oq4[ril4[ril + 1] + 1], 3)
    IN  ScaledMult(detl, IF ril \in 1 .. 7 THEN -wd1 ELSE wd1)

(* sih *)
Invqah(ih, deth) ==
    LET wd1 == ShiftLeftShort(oq2[ih2[ih + 1] + 1], 3)
    IN  ScaledMult(IF ih \in 0 .. 1 THEN -wd1 ELSE wd1, deth)

(* Seeded fault: the logarithm of the scale may run over. *)
LimitedBelow(nb, limit) == IF nb < 0 THEN 0 ELSE nb

Limited(nb, limit) == IF nb < 0 THEN 0 ELSE IF nb > limit THEN limit ELSE nb

Logscl(il, nbl) ==
    LET wd == ScaledMult(nbl, 32512)
    IN  Limited(SaturateAddShort(wd, wl[ril4[ShiftRightShort(il, 2) + 1] + 1]), 18432)

Logsch(ih, nbh) == Limited(SaturateAddShort(ScaledMult(nbh, 32512), wh[ih2[ih + 1] + 1]), 22528)

ScaleIndexl(nbpl) == SaturateAddShort(ShiftRightShort(nbpl, 6) % 512, 64)
ScaleIndexh(nbph) == ShiftRightShort(nbph, 6) % 512

(* Past the table, where no index should be, a scale of 0. *)
Scaled(index) ==
    IF index < Len(ila) THEN ShiftLeftShort(SaturateAddShort(ila[index + 1], 1), 2) ELSE 0

-----------------------------------------------------------------------------
(* Predictor.  d, b, p, r and a are the arrays after index 0 was written. *)

Upzero(d, b) ==
    LET wd1 == IF d[0] = 0 THEN 0 ELSE 128
    IN  [i \in 0 .. 6 |->
            IF i = 0 THEN b[0]
            ELSE SaturateAddShort(IF SameSign(d[0], d[i]) THEN wd1 ELSE -wd1,
                                  ScaledMult(b[i], 32640))]

(* The second pole, *)
Uppol2(a, p) ==
    LET wd1 == ShiftLeftShort(a[1], 2)
        wd2 == IF SameSign(p[0], p[1]) THEN SaturateSubtractShort(0, wd1) ELSE wd1
        wd4 == SaturateAddShort(ShiftRightShort(wd2, 7),
                                IF SameSign(p[0], p[2]) THEN 128 ELSE -128)
        apl2 == SaturateAddShort(wd4, ScaledMult(a[2], 32512))
    IN  [a EXCEPT ![2] = IF apl2 > 12288 THEN 12288 ELSE IF apl2 < -12288 THEN -12288 ELSE apl2]

(* ... and the first, which the second one bounds. *)
Uppol1(a, p) ==
    LET apl1 == SaturateAddShort(IF SameSign(p[0], p[1]) THEN 192 ELSE -192,
                                 ScaledMult(a[1], 32640))
        wd3 == SaturateSubtractShort(15360, a[2])
    IN  [a EXCEPT ![1] = CASE apl1 > wd3 -> wd3
                           [] apl1 <= wd3 /\ SaturateAddShort(apl1, wd3) < 0 -> -wd3
                           [] OTHER -> apl1]

(* Seeded fault: the first pole is bounded by the old second one. *)
Uppol1First(a, p) == Uppol2(Uppol1(a, p), p)

Poles(a, p) == Uppol1(Uppol2(a, p), p)

Doubled(n) == SaturateAddShort(n, n)

(* From the oldest difference on. *)
Filtez(d, b) ==
    LET term == [i \in 1 .. 6 |-> ScaledMult(Doubled(d[7 - i]), b[7 - i])]
        szl[i \in 0 .. 6] == IF i = 0 THEN 0 ELSE SaturateAddShort(szl[i - 1], term[i])
    IN  szl[6]

Filtep(r, a) ==
    SaturateAddShort(ScaledMult(a[1], Doubled(r[1])), ScaledMult(a[2], Doubled(r[2])))

(* The arrays of n + 1 past values, one older. *)
Shifted(past, n) == [i \in 0 .. n |-> IF i = 0 THEN past[0] ELSE past[i - 1]]

(* LsbCod and HsbCod, from the difference quantized to d0 on. *)
Adapted(band, d0, nb, index) ==
    LET d == [band.d EXCEPT ![0] = d0]
        p == [band.p EXCEPT ![0] = SaturateAddShort(d0, band.sz)]
        r == Shifted([band.r EXCEPT ![0] = SaturateAddShort(band.s, d0)], 2)
        b == Upzero(d, band.b)
        a == Poles(band.a, p)
        sz == Filtez(Shifted(d, 6), b)
        sp == Filtep(r, a)
    IN  [det |-> Scaled(index), nb |-> nb, s |-> SaturateAddShort(sp, sz), sp |-> sp, sz |-> sz,
         d |-> Shifted(d, 6), b |-> b, a |-> a, p |-> Shifted(p, 2), r |-> r]

LsbCode(xl) == Quantl(SaturateSubtractShort(xl, low.s), low.det)

LsbCod(il) ==
    LET nbpl == Logscl(il, low.nb)
    IN  Adapted(low, Invqal(il, low.det), nbpl, ScaleIndexl(nbpl))

HsbCode(xh) == Quanth(SaturateSubtractShort(xh, high.s), high.det)

HsbCod(ih) ==
    LET nbph == Logsch(ih, high.nb)
    IN  Adapted(high, Invqah(ih, high.det), nbph, ScaleIndexh(nbph))

-----------------------------------------------------------------------------
(* The encoder *)

(* ResetBand does not write the memory at index 2 of three arrays, "left"; of *)
(* rlt that is written before it is read.                                     *)
Reset(det, left) ==
    [det |-> det, nb |-> 0, s |-> 0, sp |-> 0, sz |-> 0,
     d |-> [i \in 0 .. 6 |-> 0], b |-> [i \in 0 .. 6 |-> 0],
     a |-> [i \in 0 .. 2 |-> IF i = 2 THEN left.a ELSE 0],
     p |-> [i \in 0 .. 2 |-> IF i = 2 THEN left.p ELSE 0],
     r |-> [i \in 0 .. 2 |-> 0]]

(* The constructor, on memory that holds anything. *)
InitG722 ==
    /\ signal \in Signals
    /\ \E left \in [a : Garbage, p : Garbage] : low = Reset(32, left)
    /\ \E left \in [a : Garbage, p : Garbage] : high = Reset(8, left)
    /\ delay = [i \in 1 .. 24 |-> 0]
    /\ code = [il |-> 0, ih |-> 0]
    /\ pairs = 0 /\ resets = 0

ResetBand ==
    /\ resets < MaxResets
    /\ resets' = resets + 1
    /\ low' = Reset(32, [a |-> low.a[2], p |-> low.p[2]])
    /\ high' = Reset(8, [a |-> high.a[2], p |-> high.p[2]])
    /\ delay' = [i \in 1 .. 24 |-> 0]
    /\ UNCHANGED << signal, code, pairs >>

(* The sum of every other product, from the first or from the second one. *)
Accumulated(line, first) ==
    LET term == [i \in 1 .. 12 |-> coef_qmf[2 * i - first] * line[2 * i - first]]
        accum[i \in 0 .. 12] == IF i = 0 THEN 0 ELSE SaturateAdd(accum[i - 1], term[i])
    IN  accum[12]

(* The upper half of twice a sum. *)
Half(sum) == Clamp15ToBits(SaturateAdd(sum, sum) \div 65536)

(* QmfTx: one pass of the loop of Encode; the later sample of the pair goes   *)
(* first into the delay line.                                                 *)
EncodePair ==
    LET pair == signal[(pairs % Len(signal)) + 1]
        line == << pair[2], pair[1] >> \o SubSeq(delay, 3, 24)
        accuma == Accumulated(line, 1)
        accumb == Accumulated(line, 0)
        il == LsbCode(Half(SaturateAdd(accuma, accumb)))
        ih == HsbCode(Half(SaturateAdd(accuma, -accumb)))
    IN  /\ pairs < MaxPairs
        /\ pairs' = pairs + 1
        /\ delay' = SubSeq(line, 1, 2) \o SubSeq(line, 1, 22)
        /\ low' = LsbCod(il)
        /\ high' = HsbCod(ih)
        /\ code' = [il |-> il, ih |-> ih]
        /\ UNCHANGED << signal, resets >>

Encoded == pairs = MaxPairs /\ UNCHANGED g722Vars

NextG722 == EncodePair \/ ResetBand \/ Encoded

SpecG722 == InitG722 /\ [][NextG722]_g722Vars

-----------------------------------------------------------------------------
(* Whatever the audio, the scales stay within the table of 353 logarithms,    *)
(* whose limits of 18432 and 22528 are those of its last entry, and the       *)
(* codes keep to their 6 and 2 bits, so that SaturateAddShort(ShiftLeftShort( *)
(* ih, 6), il) is a byte.                                                     *)
WithinTables ==
    /\ ScaleIndexl(low.nb) < Len(ila) /\ ScaleIndexh(high.nb) < Len(ila)
    /\ pairs > 0 => code.il \in 4 .. 63
    /\ code.ih \in 0 .. 3

(* The poles keep to the triangle in which the predictor is stable, from the  *)
(* first pair on, whatever memory held before it.                             *)
Stable(a) ==
    /\ -12288 <= a[2] /\ a[2] <= 12288
    /\ -(15360 - a[2]) <= a[1] /\ a[1] <= 15360 - a[2]

PredictorStable == pairs > 0 => Stable(low.a) /\ Stable(high.a)

(* At every scale that is reached, a larger difference (in steps of 819) is   *)
(* never taken for a smaller one: the tables of the codes and those of their  *)
(* values agree.                                                              *)
TakenForLow(el) == Invqal(Quantl(el, low.det), low.det)
TakenForHigh(eh) == Invqah(Quanth(eh, high.det), high.det)

QuantizersMonotone ==
    pairs > 0 => \A n \in -40 .. 39 :
        /\ TakenForLow(819 * n) <= TakenForLow(819 * (n + 1))
        /\ TakenForHigh(819 * n) <= TakenForHigh(819 * (n + 1))
=============================================================================
