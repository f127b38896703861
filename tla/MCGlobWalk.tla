----------------------------- MODULE MCGlobWalk ------------------------------
EXTENDS GlobWalk

(* A glob of literal characters and `*`, matched against a relative path *)
(* of one directory level.  A `/` is a literal no relative path holds, so *)
(* a pattern still carrying its anchor matches nothing.                    *)
RECURSIVE StarMatch(_, _)
StarMatch(g, f) ==
    IF g = <<>> THEN f = <<>>
    ELSE IF Head(g) = "*"
         THEN StarMatch(Tail(g), f) \/ (f /= <<>> /\ StarMatch(g, Tail(f)))
         ELSE f /= <<>> /\ Head(g) = Head(f) /\ StarMatch(Tail(g), Tail(f))

MCFiles == {<<"a">>, <<"b">>, <<"a", "b">>}

(* `*`, `a*`, the anchored `/a`, the negations `!*b` and `!a`, and `[`,  *)
(* an unclosed class that Glob::new rejects.                              *)
MCPatterns == {<<"*">>, <<"a", "*">>, <<"/", "a">>, <<"!", "*", "b">>, <<"!", "a">>, <<"[">>}

MCInvalid == {<<"[">>}

=============================================================================
