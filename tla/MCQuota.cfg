\* A bucket of two bytes and a day of six ticks; a day's allowance is smaller
\* than what the bucket lets through in a day, as in the code.
CONSTANTS
    None = None
    Task = {t1, t2}
    BytesPerSecond = 2
    BytesPerDay = 3
    Day = 6
    MaxFrame = 2
    MaxTime = 10
SPECIFICATION QuotaSpec
SYMMETRY TaskSymmetry
INVARIANTS QuotaTypeOK PeakRate TwoDaysWorth DeliveredRate
