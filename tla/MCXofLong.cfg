SPECIFICATION VerifySpec
CONSTANTS
    PermDesigns <- MCPermDesigns
    PermBenches <- MCPermBenches
    PermVectors <- MCPermVectors
    PermRandoms = 1
    NoAnswer = NoAnswer
    PipeDesigns <- MCPipeDesigns
    PipeBeats = 6
    HashVariants <- MCXofLong
    HashMax = 5
    HashTrials = 2
    Rate = 2
    NoPerm = NoPerm
    VerifyKinds = {"hash"}
PROPERTIES
    EveryHashEnds
