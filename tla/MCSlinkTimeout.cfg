\* One call may time out at any wait, callers may pass no output buffer, and
\* neorv32_slink_setup empties the FIFOs.
SPECIFICATION Spec
CONSTANTS
    Ids = {a, b}
    Zero = Zero
    BeatBytes = 2
    AdMax = 1
    MsgMax = 3
    None = None
    Jobs <- MCJobs
    Calls <- MixedCalls
    TxDepth = 3
    RxDepth = 2
    SetupFlushes = TRUE
    MaxTimeouts = 1
INVARIANTS OwnResultIfFresh
