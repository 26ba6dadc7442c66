\* A call made after one that timed out, on the instance of MCSlinkTimeout.
SPECIFICATION Spec
CONSTANTS
    Ids = {a, b}
    Zero = Zero
    BeatBytes = 2
    AdMax = 1
    MsgMax = 3
    None = None
    Jobs <- MCJobs
    Calls <- MixedCalls
    TxDepth = 3
    RxDepth = 2
    SetupFlushes = TRUE
    MaxTimeouts = 1
INVARIANTS ReadyBeforeBeats
