\* Two-byte words, segments of 0..3 bytes, no timeouts, and nobody empties the
\* FIFOs between calls.  RX holds the largest result (2 words); TX is shallower
\* than the largest payload (4 words).
SPECIFICATION Spec
CONSTANTS
    Ids = {a, b}
    Zero = Zero
    BeatBytes = 2
    AdMax = 3
    MsgMax = 3
    None = None
    Jobs <- MCJobs
    Calls <- WithOutput
    TxDepth = 2
    RxDepth = 2
    SetupFlushes = FALSE
    MaxTimeouts = 0
INVARIANTS TypeOK OwnResult NothingLeftBehind NoWordLost ShimInStep
PROPERTIES EveryCallReturns
