CONSTANTS
    Paths <- SpacedPaths
    Ignored = {}
    Versions <- MCVersions
    MaxFiles = 0
    Absent = NoFile
    NoFile = NoFile

SPECIFICATION Spec

INVARIANT TreeHashesMatchHead
