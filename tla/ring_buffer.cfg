SPECIFICATION Spec
CONSTANTS
    MaxLines = 3
    MaxBytes = 2
    MaxAppends = 6
    Sizes <- MCSizes
INVARIANT BytesExact
PROPERTY ImplementsHistory
