------------------------------ MODULE GlobWalk -------------------------------
(***************************************************************************)
(* split_patterns and walk (crates/utils/src/glob.rs): a task's input     *)
(* patterns are split into positive globs and negations, then every       *)
(* positive glob walks the base directory and each entry it yields is     *)
(* kept unless a negation matches it.  Patterns and paths are sequences   *)
(* of one-character strings, so that the `!` and `/` prefixes are seen as *)
(* the code sees them.  The glob library (wax) is the operator WaxMatch:  *)
(* the MC module defines it.  Other tasks change the directory between    *)
(* walks, and an entry can fail to be read (permissions, broken links).   *)
(***************************************************************************)
EXTENDS Naturals, Sequences, SequencesExt

CONSTANTS
    Files,          \* paths that may exist under base_dir
    Patterns,       \* pattern strings a task may declare
    MaxPatterns,    \* longest pattern list of one walk
    Invalid,        \* patterns that Glob::new rejects
    WaxMatch(_, _)  \* WaxMatch(glob, path): the compiled glob matches path

VARIABLES
    tree,           \* files that exist under base_dir
    unreadable,     \* entries whose walk yields Err
    walked,         \* the last walk: its arguments, what it saw, its result
    matched         \* the GlobSet test of a path against those arguments, if any

vars == <<tree, unreadable, walked, matched>>

NoMatch == [path |-> <<>>, ok |-> TRUE, result |-> FALSE]

NoSplit == [expressions |-> <<>>, negations |-> <<>>, err |-> FALSE]

StartsWith(p, c) == p /= <<>> /\ Head(p) = c

(* create_glob: Glob::new, its error converted.                            *)
CreateGlob(p) == p \notin Invalid

(* Variant: an anchored pattern compiled with its leading `/`.            *)
SplitStepKeepAnchor(acc, pattern) ==
    LET glob == IF StartsWith(pattern, "!") THEN Tail(pattern) ELSE pattern
    IN IF acc.err \/ ~CreateGlob(glob) THEN [acc EXCEPT !.err = TRUE]
       ELSE IF StartsWith(pattern, "!")
       THEN [acc EXCEPT !.negations = Append(@, glob)]
       ELSE [acc EXCEPT !.expressions = Append(@, glob)]

(* One iteration of split_patterns: `!` makes a negation and `/` an       *)
(* anchored expression, each with its prefix stripped once; the first     *)
(* pattern create_glob rejects ends the loop with its error (`?`).        *)
SplitStep(acc, pattern) ==
    LET glob == IF StartsWith(pattern, "!") \/ StartsWith(pattern, "/")
                THEN Tail(pattern) ELSE pattern
    IN IF acc.err \/ ~CreateGlob(glob) THEN [acc EXCEPT !.err = TRUE]
       ELSE IF StartsWith(pattern, "!")
       THEN [acc EXCEPT !.negations = Append(@, glob)]
       ELSE [acc EXCEPT !.expressions = Append(@, glob)]

SplitPatterns(patterns) == FoldLeft(SplitStep, NoSplit, patterns)

(* walk: for each positive glob in order, the entries walk_with_behavior  *)
(* yields (in directory order); an Err entry is skipped, and an Ok entry  *)
(* that a negation targets is skipped; every other entry is pushed.       *)
Walk(patterns, files, errors) ==
    LET split      == SplitPatterns(patterns)
        Negated(f) == \E i \in DOMAIN split.negations : WaxMatch(split.negations[i], f)
        Entries(g) == SetToSeq({f \in files : WaxMatch(g, f)})
        Pushed(g)  == SelectSeq(Entries(g), LAMBDA f : f \notin errors /\ ~Negated(f))
    IN IF split.err THEN [ok |-> FALSE, paths |-> <<>>]
       ELSE [ok |-> TRUE,
             paths |-> FlattenSeq([i \in DOMAIN split.expressions |-> Pushed(split.expressions[i])])]

(* GlobSet::new: every pattern compiled as written, the first rejected    *)
(* one returned as the error; matches: wax::any, true when one matches.   *)
GlobSetNew(patterns) ==
    IF \E i \in DOMAIN patterns : ~CreateGlob(patterns[i]) THEN [ok |-> FALSE]
    ELSE [ok |-> TRUE, globs |-> patterns]

GlobSetMatches(set, path) == \E i \in DOMAIN set.globs : WaxMatch(set.globs[i], path)

Init ==
    /\ tree = {}
    /\ unreadable = {}
    /\ walked = [patterns |-> <<>>, tree |-> {}, unreadable |-> {}, ok |-> TRUE, paths |-> <<>>]
    /\ matched = NoMatch

(* Another task creates or deletes a file.                                 *)
ChangeTree ==
    \E f \in Files :
        /\ tree' = IF f \in tree THEN tree \ {f} ELSE tree \cup {f}
        /\ unreadable' = unreadable \cap tree'
        /\ UNCHANGED <<walked, matched>>

(* An existing entry becomes unreadable (or readable again).               *)
ChangeAccess ==
    \E f \in tree :
        /\ unreadable' = IF f \in unreadable THEN unreadable \ {f} ELSE unreadable \cup {f}
        /\ UNCHANGED <<tree, walked, matched>>

WalkCall ==
    \E ps \in BoundedSeq(Patterns, MaxPatterns) :
        /\ walked' = [patterns |-> ps, tree |-> tree, unreadable |-> unreadable]
                        @@ Walk(ps, tree, unreadable)
        /\ matched' = NoMatch
        /\ UNCHANGED <<tree, unreadable>>

(* The same inputs compiled into a GlobSet, which then tests a path (the  *)
(* test whether a touched file is one of the task's inputs).              *)
MatchCall ==
    \E f \in Files :
        LET set == GlobSetNew(walked.patterns)
        IN matched' = [path |-> f, ok |-> set.ok, result |-> set.ok /\ GlobSetMatches(set, f)]
    /\ UNCHANGED <<tree, unreadable, walked>>

Next == ChangeTree \/ ChangeAccess \/ WalkCall \/ MatchCall

Spec == Init /\ [][Next]_vars

-----------------------------------------------------------------------------

(* Spec section 4.3: the walk fails when a pattern, its `!` or `/` prefix *)
(* stripped, does not compile; otherwise it returns every readable file   *)
(* that a positive pattern matches and no negation matches -- the files   *)
(* a task hashes.                                                           *)
WalkMatchesSpec ==
    LET ps == ToSet(walked.patterns)
        Stripped(p) == IF StartsWith(p, "!") \/ StartsWith(p, "/") THEN Tail(p) ELSE p
        Positive == {Stripped(p) : p \in {p \in ps : ~StartsWith(p, "!")}}
        Negative == {Stripped(p) : p \in {p \in ps : StartsWith(p, "!")}}
    IN /\ walked.ok <=> \A p \in ps : CreateGlob(Stripped(p))
       /\ walked.ok =>
            ToSet(walked.paths) =
              {f \in walked.tree \ walked.unreadable :
                  (\E g \in Positive : WaxMatch(g, f)) /\ ~\E g \in Negative : WaxMatch(g, f)}

=============================================================================
