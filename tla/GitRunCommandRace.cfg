CONSTANTS
    p1 = p1
    p2 = p2
    c1 = c1
    c2 = c2
    NoOne = NoOne
    Callers <- MCCallers
    Commands <- MCCommands
    MaxCalls = 2
    MaxRepoChanges = 2

SPECIFICATION Spec

INVARIANT AnswersAgree


\* Each caller issues MaxCalls queries and the run then ends.
CHECK_DEADLOCK FALSE
