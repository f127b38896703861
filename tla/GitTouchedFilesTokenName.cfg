CONSTANTS
    Paths <- TokenLikePaths
    DiffPaths <- TokenLikePaths
    StatusCodes <- MCStatusCodes
    DiffStatuses <- MCDiffStatuses
    MaxStatusEntries = 0
    MaxDiffEntries = 2

SPECIFICATION Spec

INVARIANT DiffMatchesTable
