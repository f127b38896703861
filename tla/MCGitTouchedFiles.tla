-------------------------- MODULE MCGitTouchedFiles --------------------------
EXTENDS GitTouchedFiles

(* Paths that no status or token pattern can match, one with a space so  *)
(* that the `line[3..]` slice is exercised past the XY prefix.             *)
PlainPaths == {<<"f">>, <<"g">>, <<"a", " ", "b">>}

(* Two plain names for diffs: a diff's records are classified by the     *)
(* tokens before them, not by their characters.                             *)
DiffPlainPaths == {<<"f">>, <<"a", " ", "b">>}

(* A file whose name is a diff status letter.                             *)
TokenLikePaths == {<<"f">>, <<"D">>}

MCStatusCodes ==
    {<<" ", "M">>, <<"M", " ">>, <<"M", "M">>, <<"A", " ">>, <<"A", "M">>,
     <<" ", "D">>, <<"D", " ">>, <<"R", " ">>, <<"C", " ">>, <<"?", "?">>,
     <<"U", "U">>, <<" ", "T">>}

MCDiffStatuses == {"A", "D", "M", "T", "U", "X", "R", "C"}
=============================================================================
