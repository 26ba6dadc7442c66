\* Two-byte words, segments of 0..3 bytes, no timeouts.
SPECIFICATION Spec
CONSTANTS
    Ids = {a, b}
    Zero = Zero
    BeatBytes = 2
    AdMax = 3
    MsgMax = 3
    None = None
    Jobs <- MCJobs
    Calls <- MixedCalls
    MaxTimeouts = 0
INVARIANTS TypeOK OwnResult BeatsNeverStall AckIsSampled DoneMeansCollected
PROPERTIES EveryCallReturns
