SPECIFICATION VerifySpec
CONSTANTS
    PermDesigns <- MCPermDesigns
    PermBenches <- MCPermBenches
    PermVectors <- MCPermVectors
    PermRandoms = 1
    NoAnswer = NoAnswer
    PipeDesigns <- MCPipeDesigns
    PipeBeats = 6
    HashVariants <- MCHashVariants
    HashMax = 5
    HashTrials = 2
    Rate = 2
    NoPerm = NoPerm
    VerifyKinds = {"perm", "board", "pipe", "hash"}
INVARIANTS
    TypeOK
    PermResultIsGolden
    LatencyAsDocumented
    LabelsInStep
    EveryVectorChecked
    DigestIsGolden
    VerdictIsEarned
PROPERTIES
    VerificationEnds
    ImplementsPerm
