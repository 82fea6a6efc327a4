SPECIFICATION Spec
CONSTANTS
    Sids = {s1, s2}
    s1 = s1
    s2 = s2
    MaxCount = 5
    ByteCounts <- MCByteCounts
    MaxEpochs = 3
INVARIANTS
    TypeOK
    CountedOnce
PROPERTIES
    EpochTotalNeverShrinks
    ImplementsLedger
