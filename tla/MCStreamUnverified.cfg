\* The same instance, asked whether unverified plaintext can leave the engine.
SPECIFICATION Spec
CONSTANTS
    Ids = {a, b}
    Zero = Zero
    BeatBytes = 2
    AdMax = 3
    MsgMax = 3
    None = None
    Jobs <- MCJobs
INVARIANTS UnverifiedStaysInside
