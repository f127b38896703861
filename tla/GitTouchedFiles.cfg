CONSTANTS
    Paths <- PlainPaths
    DiffPaths <- DiffPlainPaths
    StatusCodes <- MCStatusCodes
    DiffStatuses <- MCDiffStatuses
    MaxStatusEntries = 2
    MaxDiffEntries = 2

SPECIFICATION Spec

INVARIANT TypeOK
INVARIANT StatusMatchesTable
INVARIANT DiffMatchesTable
