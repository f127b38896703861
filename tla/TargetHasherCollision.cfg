CONSTANTS
    Bytes <- MCBytes
    NodeVersion <- MCNodeVersion
    Calls <- SplitArgsCalls
    MaxCalls = 1

SPECIFICATION Spec


INVARIANT DigestSeparatesFields

\* Each hasher receives MaxCalls calls and is then consumed by to_hash.
CHECK_DEADLOCK FALSE
