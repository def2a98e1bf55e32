CONSTANTS
    BlobSize = 6
    MaxSupply = 7
    BufferSize = 3
    Offsets <- InTheBlobOrNot
    Lengths <- DefaultOrSome
    Faults = {"open", "stream", "expire", "ready", "late", "grow", "close"}
SPECIFICATION Spec
INVARIANTS
    TypeOK
    CountIsTrue
    NoUseAfterClose
CHECK_DEADLOCK FALSE
