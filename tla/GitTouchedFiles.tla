--------------------------- MODULE GitTouchedFiles ---------------------------
(***************************************************************************)
(* Git::get_touched_files and Git::get_touched_files_between_revisions     *)
(* (crates/vcs/src/git.rs): how the NUL-delimited output of                *)
(*   git status --porcelain --untracked-files -z                           *)
(*   git diff --name-status --relative -z <base> <head>                    *)
(* is split into records and classified into the seven TouchedFiles sets. *)
(* A path or record is a sequence of one-character strings, so that the   *)
(* regexes and the `line[3..]` slice see the characters git prints.        *)
(* The repository is an environment that accumulates changes; a query     *)
(* parses what git prints for the repository as it is when it runs.      *)
(***************************************************************************)
EXTENDS Naturals, Sequences, SequencesExt

CONSTANTS
    Paths,          \* relative file paths (sequences of characters)
    DiffPaths,      \* the paths a revision diff may name
    StatusCodes,    \* the <<X, Y>> pairs git status reports
    DiffStatuses,   \* the status letters git diff --name-status reports
    MaxStatusEntries,
    MaxDiffEntries

VARIABLES
    worktree,       \* entries `git status` reports, in the order it prints them
    revdiff,        \* entries `git diff <base> <head>` reports
    status_seen,    \* worktree as the last get_touched_files saw it
    status_result,  \* TouchedFiles that call returned
    diff_seen,      \* revdiff as the last between-revisions query saw it
    diff_result     \* TouchedFiles that call returned

vars == <<worktree, revdiff, status_seen, status_result, diff_seen, diff_result>>

NoTouchedFiles ==
    [added |-> {}, deleted |-> {}, modified |-> {}, untracked |-> {},
     staged |-> {}, unstaged |-> {}, all |-> {}]

Copied == {"R", "C"}  \* statuses that carry a second (source) path

StatusEntries ==
    {[x |-> xy[1], y |-> xy[2], path |-> p, orig |-> <<>>] :
        xy \in {xy \in StatusCodes : xy[1] \notin Copied}, p \in Paths}
    \cup
    {e \in [x : Copied, y : {xy[2] : xy \in StatusCodes}, path : Paths, orig : Paths] :
        <<e.x, e.y>> \in StatusCodes /\ e.orig /= e.path}

DiffEntries ==
    {[status |-> s, paths |-> <<p>>] : s \in DiffStatuses \ Copied, p \in DiffPaths}
    \cup
    {[status |-> s, paths |-> pair] :
        s \in DiffStatuses \cap Copied, pair \in {pr \in DiffPaths \X DiffPaths : pr[1] /= pr[2]}}

(*************************** what git prints ******************************)

(* Porcelain v1 with -z: `XY path` NUL, and for a rename or copy the      *)
(* source path as a record of its own: `XY to` NUL `from` NUL.            *)
StatusOutput(w) ==
    LET Records(e) == IF e.orig = <<>>
                      THEN << <<e.x, e.y, " ">> \o e.path >>
                      ELSE << <<e.x, e.y, " ">> \o e.path, e.orig >>
    IN FlattenSeq([i \in DOMAIN w |-> Records(w[i])])

(* --name-status -z: the status (with a 3-digit score for R and C) is a   *)
(* NUL-terminated record, followed by one or two path records.            *)
DiffOutput(d) ==
    LET Token(e) == IF e.status \in Copied THEN <<e.status, "1", "0", "0">>
                                           ELSE <<e.status>>
    IN FlattenSeq([i \in DOMAIN d |-> <<Token(d[i])>> \o d[i].paths])

(* output.split('\0') on NUL-terminated records: the records, then the    *)
(* empty string after the last NUL.                                        *)
SplitNul(out) == out \o << <<>> >>

(*************************** what moon parses *****************************)

XYChars == {"M", "T", "A", "D", "R", "C", "U", "?", "!", " "}

(* ^(M|T|A|D|R|C|U|\?|!| )(M|T|A|D|R|C|U|\?|!| )  *)
MatchesXY(line) ==
    Len(line) >= 3 /\ line[1] \in XYChars /\ line[2] \in XYChars /\ line[3] = " "

(* Variant: the file name sliced from index 2, keeping the separator.     *)
FileOfFrom2(line) == SubSeq(line, 3, Len(line))

(* String::from(&line[3..])                                               *)
FileOf(line) == SubSeq(line, 4, Len(line))

ParseStatus(out) ==
    IF out = <<>> THEN NoTouchedFiles ELSE
    LET lines == {l \in ToSet(SplitNul(out)) : l /= <<>> /\ MatchesXY(l)}
        \* files of the records whose X (pos 1) or Y (pos 2) is in codes
        Files(pos, codes) == {FileOf(l) : l \in {l \in lines : l[pos] \in codes}}
        Both(codes) == Files(1, codes) \cup Files(2, codes)
    IN [added     |-> Both({"A", "C"}),
        deleted   |-> Both({"D"}),
        modified  |-> Both({"M", "R"}),
        untracked |-> Files(2, {"?"}),
        staged    |-> Files(1, {"A", "C", "D", "M", "R"}),
        unstaged  |-> Files(2, {"A", "C", "D", "M", "R"}),
        all       |-> Files(1, XYChars)]

Digits == {"0", "1", "2", "3", "4", "5", "6", "7", "8", "9"}

(* Variant: only the bare-letter regex, no scored C/M/R token.           *)
IsStatusTokenNoScore(line) ==
    Len(line) = 1 /\ line[1] \in {"A", "D", "M", "T", "U", "X"}

(* ^(C|M|R)(\d{3})$  or  ^(A|D|M|T|U|X)$  *)
IsStatusToken(line) ==
    \/ Len(line) = 4 /\ line[1] \in {"C", "M", "R"} /\ \A i \in 2..4 : line[i] \in Digits
    \/ Len(line) = 1 /\ line[1] \in {"A", "D", "M", "T", "U", "X"}

(* One iteration of the loop: a status token sets last_status, any other  *)
(* non-empty record is a file classified by the last status seen.         *)
DiffStep(acc, line) ==
    LET x == acc.last
        AddIf(set, codes) == IF x \in codes THEN set \cup {line} ELSE set
    IN IF line = <<>> THEN acc
       ELSE IF IsStatusToken(line) THEN [acc EXCEPT !.last = line[1]]
       ELSE [acc EXCEPT !.added    = AddIf(@, {"A", "C"}),
                        !.deleted  = AddIf(@, {"D"}),
                        !.modified = AddIf(@, {"M", "R"}),
                        !.staged   = AddIf(@, {"A", "C", "D", "M", "R"}),
                        !.all      = @ \cup {line}]

ParseDiff(out) ==
    IF out = <<>> THEN NoTouchedFiles ELSE
    LET acc == FoldLeft(DiffStep, ("last" :> "A") @@ NoTouchedFiles, SplitNul(out))
    IN [t \in DOMAIN NoTouchedFiles |-> IF t \in {"untracked", "unstaged"} THEN {} ELSE acc[t]]

(***************************** operations *********************************)

Init ==
    /\ worktree = <<>>
    /\ revdiff = <<>>
    /\ status_seen = <<>>
    /\ status_result = NoTouchedFiles
    /\ diff_seen = <<>>
    /\ diff_result = NoTouchedFiles

PathsOf(s, field) == {s[i][field] : i \in DOMAIN s}

(* A file of the working tree or index changes (edit, add, stage, rename). *)
ChangeWorktree ==
    /\ Len(worktree) < MaxStatusEntries
    /\ \E e \in StatusEntries :
        /\ e.path \notin PathsOf(worktree, "path")
        /\ worktree' = Append(worktree, e)
    /\ UNCHANGED <<revdiff, status_seen, status_result, diff_seen, diff_result>>

(* A file changes between the two revisions being compared.               *)
ChangeRevisions ==
    /\ Len(revdiff) < MaxDiffEntries
    /\ \E e \in DiffEntries :
        /\ e.paths[Len(e.paths)] \notin {revdiff[i].paths[Len(revdiff[i].paths)] : i \in DOMAIN revdiff}
        /\ revdiff' = Append(revdiff, e)
    /\ UNCHANGED <<worktree, status_seen, status_result, diff_seen, diff_result>>

GetTouchedFiles ==
    /\ status_result' = ParseStatus(StatusOutput(worktree))
    /\ status_seen' = worktree
    /\ UNCHANGED <<worktree, revdiff, diff_seen, diff_result>>

GetTouchedFilesBetweenRevisions ==
    /\ diff_result' = ParseDiff(DiffOutput(revdiff))
    /\ diff_seen' = revdiff
    /\ UNCHANGED <<worktree, revdiff, status_seen, status_result>>

Next ==
    \/ ChangeWorktree
    \/ ChangeRevisions
    \/ GetTouchedFiles
    \/ GetTouchedFilesBetweenRevisions

Spec == Init /\ [][Next]_vars

-----------------------------------------------------------------------------

(* Every set of a TouchedFiles holds file paths.                         *)
TouchedFilesType ==
    [{"added", "deleted", "modified", "untracked", "staged", "unstaged", "all"}
        -> SUBSET (Paths \cup DiffPaths)]

TypeOK ==
    /\ worktree \in Seq(StatusEntries) /\ Len(worktree) <= MaxStatusEntries
    /\ revdiff \in Seq(DiffEntries) /\ Len(revdiff) <= MaxDiffEntries
    /\ status_result \in TouchedFilesType
    /\ diff_result \in TouchedFilesType

(* The classification table of spec section 4.2, applied to the changes   *)
(* themselves: X fills the staged buckets, Y the unstaged ones, `?` in Y  *)
(* is untracked, and every changed path is in `all`.  The source path of  *)
(* a rename or copy is not a change of its own and is skipped.            *)
TableOf(E, X(_), Y(_)) ==
    LET Of(F(_), codes) == {e.path : e \in {e \in E : F(e) \in codes}}
        Both(codes) == Of(X, codes) \cup Of(Y, codes)
    IN [added     |-> Both({"A", "C"}),
        deleted   |-> Both({"D"}),
        modified  |-> Both({"M", "R"}),
        untracked |-> Of(Y, {"?"}),
        staged    |-> Of(X, {"A", "C", "D", "M", "R"}),
        unstaged  |-> Of(Y, {"A", "C", "D", "M", "R"}),
        all       |-> {e.path : e \in E}]

(* get_touched_files reports exactly what the table gives for the entries *)
(* git status printed: no record is lost, and no rename-source record is   *)
(* mistaken for an `XY file` record.                                       *)
StatusMatchesTable ==
    status_result = TableOf(ToSet(status_seen), LAMBDA e : e.x, LAMBDA e : e.y)

(* get_touched_files_between_revisions reports every path of the diff,    *)
(* each classified by its own status (both paths of a rename or copy),    *)
(* with nothing unstaged or untracked.                                     *)
DiffMatchesTable ==
    LET E == UNION {{[path |-> p, x |-> e.status, y |-> " "] : p \in ToSet(e.paths)} :
                        e \in ToSet(diff_seen)}
    IN diff_result = [TableOf(E, LAMBDA e : e.x, LAMBDA e : e.y) EXCEPT !.unstaged = {}]

=============================================================================
