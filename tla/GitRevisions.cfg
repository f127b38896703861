CONSTANTS
    C0 = C0
    C1 = C1
    C2 = C2
    C3 = C3
    C4 = C4
    NoCommit = NoCommit
    Parent <- MCParent
    Changes <- MCChanges
    Refs <- MCRefs
    DefaultBranch <- MCDefaultBranch
    CurrentBranch = "feature"
    Bases <- MCBases
    Revisions <- MCRevisions
    MaxCalls = 4
    MaxFailures = 1

SPECIFICATION Spec

\* Every behaviour stops after MaxCalls queries.
CHECK_DEADLOCK FALSE

INVARIANT TypeOK
INVARIANT BetweenUsesMergeBase
INVARIANT PreviousRevisionIsOneCommit
