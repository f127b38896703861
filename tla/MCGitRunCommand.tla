--------------------------- MODULE MCGitRunCommand ---------------------------
EXTENDS GitRunCommand

CONSTANTS p1, p2, c1, c2

MCCallers == {p1, p2}
MCCommands == {c1, c2}
=============================================================================
