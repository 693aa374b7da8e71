\* Batches and answers are longer than the first allocation.
SPECIFICATION Spec
CONSTANTS
    Sizes <- MCSizes
    Requests <- MCRequests
    GreetingSize = 4
    StartSize = 3
    Prealloc = 3
    MaxBatch = 20
    MaxLen = 12
INVARIANTS TypeOK CursorHere ParsedIsRead Fits
CHECK_DEADLOCK FALSE
