\* One call may time out in its wait for DONE.
SPECIFICATION Spec
CONSTANTS
    Ids = {a, b}
    Zero = Zero
    BeatBytes = 2
    AdMax = 1
    MsgMax = 3
    None = None
    Jobs <- MCJobs
    Calls <- FewCalls
    MaxTimeouts = 1
INVARIANTS BeatsNeverStall
