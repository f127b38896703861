----------------------------- MODULE GitRevisions -----------------------------
(***************************************************************************)
(* The revision queries of Git (crates/vcs/src/git.rs): get_merge_base and *)
(* its candidate fallback, get_touched_files_between_revisions,            *)
(* get_touched_files_against_previous_revision with is_default_branch,     *)
(* and the rev-parse / branch queries, all through run_command's cache.    *)
(* A revision string is a record: `name`, the ref's `/`-separated segments *)
(* (no segment holds a `/`), and `up`, the number of `~1` suffixes; a      *)
(* merge-base output is a commit.  The history is a tree of commits, each *)
(* naming the files it changes.  A diff's output is abstracted to the set  *)
(* of files it names: GitTouchedFiles models how that output is parsed.    *)
(* Any subprocess may fail transiently (spawn error, lock file, signal);   *)
(* a behaviour has at most MaxFailures such failures.  One call runs its   *)
(* commands in order; the lock-level interleaving of concurrent callers is *)
(* GitRunCommand's subject, so a call is one step here.                    *)
(***************************************************************************)
EXTENDS Naturals, Sequences, SequencesExt, FiniteSets

CONSTANTS
    Parent,         \* Parent[c]: the first parent of commit c, or NoCommit
    Changes,        \* Changes[c]: the files commit c changes
    Refs,           \* Refs[n]: the commit the ref with segments n points to
    DefaultBranch,  \* the configured default branch, as segments
    CurrentBranch,  \* what `git branch --show-current` prints
    Bases,          \* base revisions callers pass
    Revisions,      \* revisions callers pass
    MaxCalls,       \* queries per behaviour
    MaxFailures,    \* transient subprocess failures per behaviour
    NoCommit        \* no such commit

VARIABLES
    cache,          \* run_command's map from command line to output
    results,        \* the touched-files queries answered, with their outcomes
    calls,          \* queries so far
    failures        \* transient failures so far

vars == <<cache, results, calls, failures>>

Commits == DOMAIN Parent
Files == UNION {Changes[c] : c \in Commits}

Rev(n) == [name |-> n, up |-> 0]
HeadRev == Rev(<<"HEAD">>)

RECURSIVE Back(_, _)
Back(c, n) == IF n = 0 \/ c = NoCommit THEN c ELSE Back(Parent[c], n - 1)

(* What git resolves an argument to: a commit hash is itself.             *)
Resolve(x) ==
    IF x \in Commits THEN x
    ELSE IF x.name \in DOMAIN Refs THEN Back(Refs[x.name], x.up) ELSE NoCommit

RECURSIVE Ancestors(_)
Ancestors(c) == IF c = NoCommit THEN {} ELSE {c} \cup Ancestors(Parent[c])

(* The best common ancestor (unique in a tree), NoCommit when none.       *)
MergeBaseOf(a, b) ==
    LET common == Ancestors(a) \cap Ancestors(b)
    IN IF common = {} THEN NoCommit
       ELSE CHOOSE m \in common : common \subseteq Ancestors(m)

RECURSIVE LastChange(_, _)
LastChange(c, f) ==
    IF c = NoCommit \/ f \in Changes[c] THEN c ELSE LastChange(Parent[c], f)

(* The files whose content differs between two commits.                    *)
Diff(a, b) == {f \in Files : LastChange(a, f) /= LastChange(b, f)}

(* What a command prints when it succeeds; NoCommit when git exits non-zero. *)
Output(cmd) ==
    CASE cmd[1] = "merge-base" -> MergeBaseOf(Resolve(cmd[2]), Resolve(cmd[3]))
      [] cmd[1] = "diff"       -> IF Resolve(cmd[2]) = NoCommit \/ Resolve(cmd[3]) = NoCommit
                                  THEN NoCommit ELSE Diff(Resolve(cmd[2]), Resolve(cmd[3]))
      [] cmd[1] = "rev-parse"  -> Resolve(cmd[2])
      [] cmd[1] = "branch"     -> CurrentBranch

(* Variant: a failed command cached as its (absent) output.               *)
RunCommandCachesFailure(c, cmd, transient) ==
    IF cmd \in DOMAIN c THEN [ok |-> TRUE, out |-> c[cmd], cache |-> c]
    ELSE IF transient \/ Output(cmd) = NoCommit THEN [ok |-> FALSE, cache |-> (cmd :> NoCommit) @@ c]
    ELSE [ok |-> TRUE, out |-> Output(cmd), cache |-> (cmd :> Output(cmd)) @@ c]

(* run_command: a cached line is returned; otherwise git runs and only a  *)
(* success is stored.  `transient` is a failure of this spawn.             *)
RunCommand(c, cmd, transient) ==
    IF cmd \in DOMAIN c THEN [ok |-> TRUE, out |-> c[cmd], cache |-> c]
    ELSE IF transient \/ Output(cmd) = NoCommit THEN [ok |-> FALSE, cache |-> c]
    ELSE [ok |-> TRUE, out |-> Output(cmd), cache |-> (cmd :> Output(cmd)) @@ c]

(* Variant: the remotes tried before the local ref.                        *)
CandidatesRemoteFirst(base) ==
    << [base EXCEPT !.name = <<"origin">> \o @],
       [base EXCEPT !.name = <<"upstream">> \o @], base >>

(* base, origin/<base>, upstream/<base> *)
Candidates(base) ==
    << base, [base EXCEPT !.name = <<"origin">> \o @],
             [base EXCEPT !.name = <<"upstream">> \o @] >>

(* The loop of get_merge_base from candidate i on; spawn i fails when i   *)
(* is in F.  Any failure moves on; after the last, the literal base.       *)
RECURSIVE TryCandidates(_, _, _, _, _)
TryCandidates(cands, head, i, c, F) ==
    IF i > Len(cands) THEN [base |-> cands[1], cache |-> c]
    ELSE LET r == RunCommand(c, <<"merge-base", cands[i], head>>, i \in F)
         IN IF r.ok THEN [base |-> r.out, cache |-> r.cache]
            ELSE TryCandidates(cands, head, i + 1, r.cache, F)

GetMergeBase(base, head, c, F) == TryCandidates(Candidates(base), head, 1, c, F)

(* Merge base, then the diff (spawn 4 fails when 4 is in F); `?` returns  *)
(* the diff's error.                                                        *)
GetTouchedFilesBetweenRevisions(base, rev, c, F) ==
    LET mb == GetMergeBase(base, rev, c, F)
        d  == RunCommand(mb.cache, <<"diff", mb.base, rev>>, 4 \in F)
    IN IF d.ok THEN [ok |-> TRUE, files |-> d.out, cache |-> d.cache]
       ELSE [ok |-> FALSE, cache |-> d.cache]

(* Variant: the namespace rule missing.                                   *)
IsDefaultBranchExact(branch) == branch.up = 0 /\ DefaultBranch = branch.name

IsDefaultBranch(branch) ==
    /\ branch.up = 0
    /\ \/ DefaultBranch = branch.name
       \/ Len(DefaultBranch) > 1 /\ IsStrictSuffix(branch.name, DefaultBranch)

(* Variant: HEAD substituted for the base revision only.                  *)
GetTouchedFilesAgainstPreviousRevisionBaseOnly(revision, c, F) ==
    LET rev == IF IsDefaultBranch(revision) THEN HeadRev ELSE revision
    IN GetTouchedFilesBetweenRevisions([rev EXCEPT !.up = @ + 1], revision, c, F)

GetTouchedFilesAgainstPreviousRevision(revision, c, F) ==
    LET rev == IF IsDefaultBranch(revision) THEN HeadRev ELSE revision
    IN GetTouchedFilesBetweenRevisions([rev EXCEPT !.up = @ + 1], rev, c, F)

TouchedQueries ==
    [kind : {"between"}, base : Bases, rev : Revisions]
      \cup [kind : {"previous"}, rev : Revisions]

Touched(q, c, F) ==
    IF q.kind = "between" THEN GetTouchedFilesBetweenRevisions(q.base, q.rev, c, F)
    ELSE GetTouchedFilesAgainstPreviousRevision(q.rev, c, F)

(* get_local_branch_revision, get_default_branch_revision, get_local_branch *)
RevisionCommands ==
    {<<"rev-parse", HeadRev>>, <<"rev-parse", Rev(DefaultBranch)>>, <<"branch">>}

Init ==
    /\ cache = <<>>
    /\ results = {}
    /\ calls = 0
    /\ failures = 0

(* Spawns of one call that fail transiently, within the budget.           *)
FailureSets == {F \in SUBSET (1..4) : failures + Cardinality(F) <= MaxFailures}

(* A touched-files query; F names the spawns of this call that fail.      *)
TouchedCall ==
    /\ calls < MaxCalls
    /\ \E q \in TouchedQueries, F \in FailureSets :
        LET a == Touched(q, cache, F)
        IN /\ cache' = a.cache
           /\ results' = results \cup {[query |-> q, clean |-> F = {}, ok |-> a.ok,
                                        files |-> IF a.ok THEN a.files ELSE {}]}
           /\ failures' = failures + Cardinality(F)
    /\ calls' = calls + 1

(* A rev-parse or branch query: run_command alone, its output returned.   *)
RevisionCall ==
    /\ calls < MaxCalls
    /\ \E cmd \in RevisionCommands, F \in FailureSets \cap {{}, {1}} :
        /\ cache' = RunCommand(cache, cmd, F = {1}).cache
        /\ failures' = failures + Cardinality(F)
    /\ calls' = calls + 1
    /\ UNCHANGED results

Next == TouchedCall \/ RevisionCall

Spec == Init /\ [][Next]_vars

-----------------------------------------------------------------------------

(* Only successful outputs are cached, and results name only known files. *)
TypeOK ==
    /\ \A cmd \in DOMAIN cache : cache[cmd] /= NoCommit
    /\ \A r \in results : r.query \in TouchedQueries /\ r.files \subseteq Files
    /\ calls \in 0..MaxCalls /\ failures \in 0..MaxFailures

(* Spec 4.2: the base a query diffs from is the merge base of the first   *)
(* of base, origin/<base>, upstream/<base> whose merge-base succeeds, the *)
(* literal base when none does.                                            *)
SpecMergeBase(base, rev) ==
    LET Remote(i) == [base EXCEPT !.name = <<<<>>, <<"origin">>, <<"upstream">>>>[i] \o @]
        found == {i \in 1..3 : MergeBaseOf(Resolve(Remote(i)), Resolve(rev)) /= NoCommit}
    IN IF found = {} THEN Resolve(base)
       ELSE MergeBaseOf(Resolve(Remote(Min(found))), Resolve(rev))

(* A between-revisions query in which no subprocess failed, answered     *)
(* from git or from merge bases and diffs cached by earlier calls (some  *)
(* of which fell back past a failed candidate), returns the diff from     *)
(* the merge base the spec names to the revision.                          *)
BetweenUsesMergeBase ==
    \A r \in results :
        r.query.kind = "between" /\ r.ok /\ r.clean =>
            r.files = Diff(SpecMergeBase(r.query.base, r.query.rev), Resolve(r.query.rev))

(* Spec 4.2: a branch names the default branch when it equals it, or,   *)
(* for a namespaced default branch, the part after its last `/`.          *)
IsDefaultBranchSpec(branch) ==
    /\ branch.up = 0
    /\ \/ branch.name = DefaultBranch
       \/ Len(DefaultBranch) > 1 /\ branch.name = <<Last(DefaultBranch)>>

(* Spec 4.2: the against-previous-revision query compares revision~1 to   *)
(* revision, and HEAD~1 to HEAD when revision names the default branch:   *)
(* an answer names exactly the files that one commit changes, even when  *)
(* a merge-base spawn failed and get_merge_base fell back through origin/ *)
(* and upstream/.                                                           *)
PreviousRevisionIsOneCommit ==
    \A r \in results :
        r.query.kind = "previous" /\ r.ok =>
            r.files = Changes[Resolve(IF IsDefaultBranchSpec(r.query.rev) THEN HeadRev ELSE r.query.rev)]

=============================================================================
