CONSTANTS
    Lowest <- LowestShort
    Highest = 32767
    Signals <- Tones
    Garbage <- Extremes
    MaxPairs = 40
    MaxResets = 1
SPECIFICATION EncoderSpec
INVARIANTS
    WithinTables
    PredictorStable
    QuantizersMonotone
    CodesLocateSamples
