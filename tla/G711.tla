-------------------------------- MODULE G711 --------------------------------
(***************************************************************************)
(* The G.711 encoders (src/encoder.cpp): A-law, which every call uses, and *)
(* u-law.  The samples are met in ascending order; each is encoded by both.*)
(*                                                                         *)
(* A code is its sign, its segment and its mantissa; the masks that the    *)
(* encoders finally apply to all codes (^ 0x55, 0x0F - ...) are left out.  *)
(* The decoders, which the program does not have, are those of the         *)
(* standard: the middle of the interval of the samples that share a code.  *)
(***************************************************************************)
EXTENDS Integers

CONSTANTS
    Lowest, Highest   \* the samples: a signed short

ASSUME G711Assumption ==
    /\ Lowest \in Int /\ Highest \in Int
    /\ -32768 <= Lowest /\ Lowest <= Highest /\ Highest <= 32767

VARIABLES
    pcm,    \* the sample
    alaw,   \* its A-law code
    ulaw    \* its u-law code

vars == << pcm, alaw, ulaw >>

-----------------------------------------------------------------------------
Positive(sample) == sample >= 0

(* "~" of a negative sample *)
Magnitude(sample) == IF sample < 0 THEN -sample - 1 ELSE sample

MaxMagnitude == 32767
Magnitudes == 0 .. MaxMagnitude

(* Seeded fault: halve down to the leading bit alone. *)
IsNormalUpTo16(value) == value <= 16

IsNormal(value) == value <= 16 + 15

(* The while loop of the A-law encoder: halve until five bits are left. *)
Normalised[value \in Magnitudes] ==
    IF IsNormal(value)
      THEN [value |-> value, segment |-> 1]
      ELSE LET half == Normalised[value \div 2]
           IN  [half EXCEPT !.segment = @ + 1]

(* Below 16 nothing is assigned to encoded_data, which was 0. *)
Alaw(sample) ==
    LET value == Magnitude(sample) \div 16
        loud  == Normalised[value]
    IN  [positive |-> Positive(sample),
         segment  |-> IF value > 15 THEN loud.segment ELSE 0,
         mantissa |-> IF value > 15 THEN loud.value - 16 ELSE 0]

-----------------------------------------------------------------------------
(* 33 is added and the result clipped. *)
UlawValue(sample) ==
    LET biased == (Magnitude(sample) \div 4) + 33
    IN  IF biased > 8191 THEN 8191 ELSE biased

(* The for loop of the u-law encoder: how often a value can be halved. *)
Halvings[value \in Magnitudes] == IF value = 0 THEN 0 ELSE 1 + Halvings[value \div 2]

UlawSegment(value) == 1 + Halvings[value \div 64]

(* (quantization_value > quantization_segment) & 0x000F *)
UlawMantissa(value, segment) == IF value > segment THEN 1 ELSE 0

Ulaw(sample) ==
    LET value == UlawValue(sample)
    IN  [positive |-> Positive(sample),
         segment  |-> UlawSegment(value),
         mantissa |-> UlawMantissa(value, UlawSegment(value))]

-----------------------------------------------------------------------------
Init ==
    /\ pcm = Lowest
    /\ alaw = Alaw(Lowest)
    /\ ulaw = Ulaw(Lowest)

(* One pass of the loop over the samples of a packet. *)
Encode ==
    /\ pcm < Highest
    /\ pcm' = pcm + 1
    /\ alaw' = Alaw(pcm')
    /\ ulaw' = Ulaw(pcm')

Over == pcm = Highest /\ UNCHANGED vars

Next == Encode \/ Over

Spec == Init /\ [][Next]_vars

-----------------------------------------------------------------------------
(* Decoding *)

(* The width of the interval of an A-law code, *)
AlawStep(code) == IF code.segment = 0 THEN 16 ELSE 16 * 2 ^ (code.segment - 1)

(* ... and its middle. *)
AlawMagnitude(code) ==
    LET first == IF code.segment = 0 THEN 0 ELSE 16
    IN  (code.mantissa + first) * AlawStep(code) + AlawStep(code) \div 2

AlawDecoded(code) ==
    IF code.positive THEN AlawMagnitude(code) ELSE -AlawMagnitude(code)

UlawStep(code) == 2 ^ code.segment

Distance(x, y) == IF x < y THEN y - x ELSE x - y

-----------------------------------------------------------------------------
(* The codes have three bits of segment and four of mantissa: neither         *)
(* encoder runs into the bits of the other fields.                            *)
TypeOK ==
    /\ pcm \in Lowest .. Highest
    /\ alaw \in [positive : BOOLEAN, segment : 0 .. 7, mantissa : 0 .. 15]
    /\ ulaw \in [positive : BOOLEAN, segment : 1 .. 8, mantissa : 0 .. 15]

(* A code tells its sample: the A-law one to within a 32nd of a loud sample,  *)
(* with the sign and the asymmetry of "~" (encoder.cpp:20-38), and the u-law  *)
(* one the segment of the value (65-68).                                      *)
CodesLocateSamples ==
    /\ Magnitude(pcm) >= 256 => 32 * Distance(AlawDecoded(alaw), pcm) <= Magnitude(pcm)
    /\ 16 * UlawStep(ulaw) <= UlawValue(pcm)
    /\ UlawValue(pcm) < 32 * UlawStep(ulaw)
=============================================================================
