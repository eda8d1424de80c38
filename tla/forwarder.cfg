SPECIFICATION Spec
CONSTANTS
    MaxBytes = 3
    BufSize = 2
    Capacity = 2
INVARIANTS
    TypeOK
    FinisherHeard
PROPERTIES
    StreamsKept
    EndsWithStream
