CONSTANTS
    Paths <- PlainPaths
    Ignored <- PlainIgnored
    Versions <- MCVersions
    MaxFiles = 2
    Absent = NoFile
    NoFile = NoFile

SPECIFICATION Spec

INVARIANT FileHashesMatchContent
INVARIANT TreeHashesMatchHead
