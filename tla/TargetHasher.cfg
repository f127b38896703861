CONSTANTS
    Bytes <- MCBytes
    NodeVersion <- MCNodeVersion
    Calls <- AllCalls
    MaxCalls = 2

SPECIFICATION Spec

INVARIANT TypeOK
INVARIANT SameContentSameDigest

\* Each hasher receives MaxCalls calls and is then consumed by to_hash.
CHECK_DEADLOCK FALSE
