\* Two-byte blocks, lengths 0..4: none, partial, full, full + partial, two full.
\* Five rounds per cycle divide neither 8 nor 12, so the last cycle of every
\* permutation is a guarded, partial one.
SPECIFICATION Spec
CONSTANTS
    Rate = 2
    R = 5
    MaxAd = 4
    MaxMsg = 4
    MaxBlocks = 3
    None = None
    Requests <- MCRequests
INVARIANTS TypeOK PermHandshake PermIsWhole BlocksInBounds ResultIsGolden
PROPERTIES ImplementsContract
