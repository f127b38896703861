CONSTANTS
    Files <- MCFiles
    Patterns <- MCPatterns
    MaxPatterns = 2
    Invalid <- MCInvalid
    WaxMatch <- StarMatch
INIT Init
NEXT Next
INVARIANT WalkMatchesSpec
