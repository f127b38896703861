---------------------------- MODULE GitFileHashes ----------------------------
(***************************************************************************)
(* Git::get_file_hashes and Git::get_file_tree_hashes                     *)
(* (crates/vcs/src/git.rs), with Git::is_file_ignored and the .gitignore  *)
(* that Git::new loads when the working directory has one.                 *)
(*   git hash-object --stdin-paths   reads the filtered paths joined by   *)
(*                                   "\n" and prints one hash per line;   *)
(*   git ls-tree HEAD -r <dir>       prints `<mode> <type> <hash>\t<path>` *)
(*                                   lines, quoting unusual paths.         *)
(* Paths, hashes and outputs are sequences of one-character strings, so   *)
(* that the joins, splits and trims act on what git reads and prints.     *)
(* A file's content is a version; its blob hash is a function of it.      *)
(* HEAD does not move while moon runs.  get_file_hashes is not cached and *)
(* git reads the files when it runs, so a call sees the worktree as it is *)
(* then: the initial worktree ranges over every content of every path.    *)
(***************************************************************************)
EXTENDS Naturals, Sequences, SequencesExt

CONSTANTS
    Paths,          \* names a file may have (relative, as callers pass them)
    Ignored,        \* the paths the compiled .gitignore matches
    Versions,       \* contents a file may hold
    MaxFiles,       \* longest list passed to get_file_hashes
    Absent          \* a path with no file

VARIABLES
    worktree,       \* worktree[p]: the content of file p, or Absent
    head,           \* head[p]: the content committed at HEAD, or Absent
    hashed,         \* the last get_file_hashes: its files and its outcome
    tree,           \* the outcome of get_file_tree_hashes(".")
    gitignore       \* Git::new found a .gitignore: `ignore` is Some

vars == <<worktree, head, hashed, tree, gitignore>>

Whitespace == {" ", "\n", "\t"}

(* A blob hash: hex digits, never whitespace, one per content.            *)
Hash(v) == <<"h", v>>

Exists(files, p) == p \in DOMAIN files /\ files[p] /= Absent

(* str.split(c), including the empty piece of an empty string.            *)
SplitOn(s, c) ==
    FoldLeft(LAMBDA acc, x : IF x = c THEN Append(acc, <<>>)
                             ELSE [acc EXCEPT ![Len(acc)] = Append(@, x)],
             << <<>> >>, s)

(* slice.join(c) *)
Join(seqs, c) ==
    IF seqs = <<>> THEN <<>>
    ELSE FoldLeft(LAMBDA acc, x : acc \o <<c>> \o x, Head(seqs), Tail(seqs))

(* output_to_trimmed_string: leading and trailing whitespace removed.     *)
RECURSIVE TrimStart(_)
TrimStart(s) == IF s /= <<>> /\ Head(s) \in Whitespace THEN TrimStart(Tail(s)) ELSE s
Trim(s) == Reverse(TrimStart(Reverse(TrimStart(s))))

(* BTreeMap::insert: a later insert of the same key wins.                 *)
MapInsert(m, k, v) == (k :> v) @@ m

(* is_file_ignored: false when `ignore` is None, else the matcher's verdict. *)
IsFileIgnored(file) == gitignore /\ file \in Ignored

(* Variant: the ignore filter skipped.                                     *)
ObjectsUnfiltered(files) == files

(* The loop that keeps every file the ignore rules do not match.           *)
Objects(files) == SelectSeq(files, LAMBDA f : ~IsFileIgnored(f))

(* git hash-object --stdin-paths: one path per stdin line; a path that    *)
(* does not exist makes git exit non-zero (`?` returns the error).        *)
HashObject(stdin) ==
    LET lines == IF stdin = <<>> THEN <<>> ELSE SplitOn(stdin, "\n")
    IN IF \E i \in DOMAIN lines : ~Exists(worktree, lines[i])
       THEN [ok |-> FALSE]
       ELSE [ok |-> TRUE,
             stdout |-> FlattenSeq([i \in DOMAIN lines |-> Hash(worktree[lines[i]]) \o <<"\n">>])]

(* The whole call: filter, run, trim, split on "\n" and zip each non-empty *)
(* line with objects[index], which panics past the end of objects.         *)
GetFileHashes(files) ==
    LET objects == Objects(files)
        run     == HashObject(Join(objects, "\n"))
        lines   == SplitOn(Trim(run.stdout), "\n")
        used    == {i \in DOMAIN lines : lines[i] /= <<>>}
    IN IF ~run.ok THEN [kind |-> "err"]
       ELSE IF \E i \in used : i > Len(objects) THEN [kind |-> "panic"]
       ELSE [kind |-> "ok",
             map  |-> FoldLeft(LAMBDA m, i : IF i \in used THEN MapInsert(m, objects[i], lines[i]) ELSE m,
                               <<>>, [i \in 1..Len(lines) |-> i])]

(* ls-tree without -z C-quotes a path holding a control character, `"`   *)
(* or `\`: the path in double quotes with each such character escaped.    *)
Escapes == ("\n" :> "n") @@ ("\t" :> "t") @@ ("\"" :> "\"") @@ ("\\" :> "\\")
Quoted(p) ==
    IF \E i \in DOMAIN p : p[i] \in DOMAIN Escapes
    THEN <<"\"">> \o FlattenSeq([i \in DOMAIN p |->
             IF p[i] \in DOMAIN Escapes THEN <<"\\", Escapes[p[i]]>> ELSE <<p[i]>>]) \o <<"\"">>
    ELSE p

(* git ls-tree HEAD -r .: `100644 blob <hash>\t<path>` for every tracked  *)
(* file, one per line (mode and type abbreviated; neither holds a space). *)
LsTree(files) ==
    Join(SetToSeq({<<"1", " ", "b", " ">> \o Hash(files[p]) \o <<"\t">> \o Quoted(p) :
                   p \in {p \in DOMAIN files : Exists(files, p)}}), "\n")

(* Variant: the ignore check missing from the tree loop.                   *)
TreeLineKeepIgnored(m, line) ==
    LET parts == SplitOn(Last(SplitOn(line, " ")), "\t")
        file  == IF Len(parts) >= 2 THEN parts[2] ELSE <<>>
    IN IF parts[1] /= <<>> /\ file /= <<>> THEN MapInsert(m, file, parts[1]) ELSE m

(* The loop of get_file_tree_hashes: the last space-separated part, split *)
(* at tabs into hash and file; kept when both are non-empty and the file  *)
(* is not ignored.                                                          *)
TreeLine(m, line) ==
    LET parts == SplitOn(Last(SplitOn(line, " ")), "\t")
        hash  == parts[1]
        file  == IF Len(parts) >= 2 THEN parts[2] ELSE <<>>
    IN IF hash /= <<>> /\ file /= <<>> /\ ~IsFileIgnored(file)
       THEN MapInsert(m, file, hash) ELSE m

GetFileTreeHashes(files) ==
    LET output == Trim(LsTree(files))
    IN IF output = <<>> THEN <<>> ELSE FoldLeft(TreeLine, <<>>, SplitOn(output, "\n"))

Contents == [Paths -> Versions \cup {Absent}]

(* Git::new: `ignore` is Some exactly when <working_dir>/.gitignore exists *)
(* (a file the builder cannot read or parse makes Git::new fail, and no   *)
(* Git exists to call).                                                    *)
GitNew(exists) == exists

Init ==
    /\ \E exists \in BOOLEAN : gitignore = GitNew(exists)
    /\ worktree \in Contents
    /\ head \in Contents
    /\ hashed = [files |-> <<>>, outcome |-> [kind |-> "ok", map |-> <<>>]]
    /\ tree = [done |-> FALSE, map |-> <<>>]

HashFiles ==
    \E files \in BoundedSeq(Paths, MaxFiles) :
        /\ hashed' = [files |-> files, outcome |-> GetFileHashes(files)]
        /\ UNCHANGED <<worktree, head, tree, gitignore>>

HashTree ==
    /\ tree' = [done |-> TRUE, map |-> GetFileTreeHashes(head)]
    /\ UNCHANGED <<worktree, head, hashed, gitignore>>

Next == HashFiles \/ HashTree

Spec == Init /\ [][Next]_vars

-----------------------------------------------------------------------------

(* The paths ignored: those the .gitignore matches, none without one.    *)
IgnoredNow == IF gitignore THEN Ignored ELSE {}

(* Spec 4.2: get_file_hashes never panics; it fails only when a requested *)
(* file that is not ignored is missing, and otherwise maps exactly the     *)
(* requested, not ignored files to the hash of their content -- the zip   *)
(* of hash-object lines with the filtered inputs stays aligned.            *)
FileHashesMatchContent ==
    LET wanted == ToSet(hashed.files) \ IgnoredNow
    IN /\ hashed.outcome.kind /= "panic"
       /\ hashed.outcome.kind = "err" <=> \E p \in wanted : ~Exists(worktree, p)
       /\ hashed.outcome.kind = "ok" =>
              hashed.outcome.map = [p \in wanted |-> Hash(worktree[p])]

(* Spec 4.2: get_file_tree_hashes maps every file tracked at HEAD that is *)
(* not ignored to its blob hash, whatever characters its name holds.      *)
TreeHashesMatchHead ==
    tree.done =>
        tree.map = [p \in {p \in Paths : Exists(head, p)} \ IgnoredNow |-> Hash(head[p])]

=============================================================================
