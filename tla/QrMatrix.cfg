\* All twenty versions.
SPECIFICATION Spec
CONSTANT Lengths <- MCLengths
INVARIANTS
    VersionHoldsPayload
    BlocksAreReadBack
    EveryBitOnce
    PatternsAreIntact
\* The encoder ends with the grid.
CHECK_DEADLOCK FALSE
