--------------------------- MODULE MCGitFileHashes ---------------------------
EXTENDS GitFileHashes

CONSTANT NoFile

(* Names with no space, tab, quote or newline; `c` is ignored.            *)
PlainPaths == {<<"a">>, <<"b">>, <<"c">>}
PlainIgnored == {<<"c">>}

(* A tracked file whose name holds a space.                                *)
SpacedPaths == {<<"a">>, <<"a", " ", "b">>}

MCVersions == {"1", "2"}
=============================================================================
