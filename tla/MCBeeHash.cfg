\* Several batches for a table: it is read, put to and flushed in between.
CONSTANTS
    Rows <- MCRows
    Hash <- MCHash
    Primes <- MCPrimes
    Batch = 4
    None = None

SPECIFICATION Spec

INVARIANT TypeOK
INVARIANT ChainsEnd
INVARIANT Room
PROPERTY IsMap
PROPERTY FlushEmpties
