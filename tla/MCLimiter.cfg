\* Two connections, and i64 timestamps cut to -8..7.
CONSTANTS
    None = None
    Task = {t1, t2}
    Burst = 1
    Second = 1
    MaxDrift = 1
    Half = 8
    MaxTime = 6
SPECIFICATION LimiterSpec
SYMMETRY TaskSymmetry
INVARIANTS LimiterTypeOK RacedRate WindowExact ResendBound
