\* Two-byte beats and buffers of three bytes: empty, partial, full, and full +
\* partial segments.  Two names, so that a stale result shows.
SPECIFICATION Spec
CONSTANTS
    Ids = {a, b}
    Zero = Zero
    BeatBytes = 2
    AdMax = 3
    MsgMax = 3
    None = None
    Jobs <- MCJobs
INVARIANTS TypeOK ResultIsOurs OutputIsExact CoreOwnedByJob
PROPERTIES InputsHeldWhileBusy EveryStartIsDone
