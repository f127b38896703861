CONSTANT Values <- AllValues
INIT Init
NEXT Next
INVARIANT IsGlobMatchesSpec
CHECK_DEADLOCK FALSE
