SPECIFICATION MFairSpec
CONSTANTS
    Threads = {t1}
    Workers = {w1, w2}
    MaxVersion = 2
    Retries = 1
    MaxClaimed = 1
    Suspends = {"agent"}
    MaxFaults = 1
    Nobody = Nobody
    NoBaseline = NoBaseline
    t1 = t1
    w1 = w1
    w2 = w2
INVARIANTS MInv BaselineConsolidated MarkedIsInBaseline
PROPERTIES WatermarkHonest PollutedForgotten ThreadsExtracted
