----------------------------- MODULE MCEncoders -----------------------------
(* The G.711 and the G.722 encoders for TLC: one of them works, the other one *)
(* rests.                                                                     *)
EXTENDS G711, G722

VARIABLE codec

LowestShort == -32768

Silence == << << 0, 0 >> >>

(* Silence, the loudest tones for the low and for the high band, what starts  *)
(* with a jump, and a mixture.                                                *)
Tones == {
    Silence,
    << << 32767, 32767 >>, << -32768, -32768 >>, << -32768, -32768 >>, << 32767, 32767 >> >>,
    << << 32767, -32768 >> >>,
    << << 32767, 32767 >> >>,
    << << 9, 120 >>, << 800, -4000 >>, << 32767, -32768 >>, << -20000, -70 >>, << 0, 1 >> >>}

Extremes == {-32768, 32767}

EncoderInit ==
    /\ codec \in {"G711", "G722"}
    /\ Init
    /\ InitG722
    /\ codec = "G711" =>
          signal = Silence /\ \A band \in {low, high} : band.a[2] = 32767 /\ band.p[2] = 32767

EncoderNext ==
    \/ codec = "G711" /\ Next /\ UNCHANGED << g722Vars, codec >>
    \/ codec = "G722" /\ NextG722 /\ UNCHANGED << vars, codec >>

EncoderSpec == EncoderInit /\ [][EncoderNext]_<< vars, g722Vars, codec >>
=============================================================================
