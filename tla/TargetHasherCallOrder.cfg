CONSTANTS
    Bytes <- MCBytes
    NodeVersion <- MCNodeVersion
    Calls <- TaskAndArgsCalls
    MaxCalls = 2

SPECIFICATION Spec


INVARIANT TaskArgsOrderFree

\* Each hasher receives MaxCalls calls and is then consumed by to_hash.
CHECK_DEADLOCK FALSE
