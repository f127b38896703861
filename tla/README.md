# TLA+ models of moon's incremental-build cache core

This directory holds TLA+ models of the three crates that decide moon's task cache keys:

- the target hasher: `crates/hasher/src/hasher.rs`
- the git backend of the VCS abstraction: `crates/vcs/src/git.rs`
- the glob helpers: `crates/utils/src/glob.rs`

Each module is translated from those sources. `PROJECT.json` maps every modelled definition to the lines it stands for.

## 1. Inventory

### Components and their state

| Component | Source | State | Operations |
|---|---|---|---|
| Git response cache | `git.rs` 13-18, 77-102 | `cache: Arc<RwLock<HashMap<String,String>>>`, which maps a command line to its stdout | `run_command`, used by every cached query |
| Git queries | `git.rs` 105-408 | `default_branch`, `ignore: Option<Gitignore>`, `working_dir`. All are fixed at `Git::new` (21-41) | `get_local_branch`, `get_local_branch_revision`, `get_default_branch_revision`, `get_file_hashes` (uncached), `get_file_tree_hashes`, `get_touched_files`, `get_touched_files_between_revisions` (with `get_merge_base`), `get_touched_files_against_previous_revision`, `is_default_branch`, `is_enabled` |
| Target hasher | `hasher.rs` 9-178 | 13 fields: command, args, deps, env_vars, input_hashes, node_version, three package maps, project_deps, target, tsconfig options, version | `new`, `hash_args`, `hash_inputs`, `hash_package_json`, `hash_project`, `hash_task`, `hash_tsconfig_json`, `to_hash` |
| Glob engine | `glob.rs` 1-147 | `GlobSet` (compiled, immutable). `WINDOWS_PREFIX` (lazy static) | `GlobSet::new/matches`, `create_glob`, `is_glob`, `normalize`, `split_patterns`, `walk` |
| Workspace errors | `errors.rs` | none (an error enum) | none |

### How the components interact

The scheduler lies outside this repository. For each task it does the following:

1. It resolves the task's input globs with `walk`.
2. It asks `Git` for file hashes (`get_file_hashes`, `get_file_tree_hashes`) and for touched files.
3. It feeds the task, its project, its manifests and those hashes into a fresh `TargetHasher`.
4. It calls `to_hash` to get the cache key.

Many tasks run at once on tokio. They share one `Git` instance, so all their cached queries go through the one `RwLock`. A hasher belongs to a single task and is never shared. A compiled glob set is immutable.

### Hard behaviours

- **Concurrency.** `run_command` has several await points: the read guard, the miss, the write guard, the subprocess, then insert or error. Callers interleave at each of them. Meanwhile, tasks running alongside write files into the working tree that git reads.
- **Failure.** A subprocess can fail after the write guard is taken. `get_merge_base` swallows every failure and falls back to another candidate.
- **Parsing.** Status and diff output is NUL-delimited. Status records, rename-source records, status tokens and file names all share one record stream, and regexes tell them apart.
- **Determinism.** `to_hash` concatenates strings with no separators. Map fields are visited in BTreeMap key order. List fields are sorted. Paths are standardized to `/`.

### What makes each component correct

- **Cache.** Every call returns. The cache never goes back to an older output. By the spec's claim, racing duplicate executions are harmless.
- **Touched files.** The result is exactly the spec's classification table applied to the changes git reports. No record is lost, and none is misread.
- **Hasher.** The same content gives the same digest, regardless of the order of merge calls, repetition, separators or list order. Different content gives different digests.
- **Glob.** `is_glob` matches the spec's classification. `walk` returns the readable positive matches minus the negated ones.
- **Revisions.** The diff's base is the merge base the spec names, and the previous-revision query covers exactly one commit, whatever fallbacks a failure causes.
- **File hashes.** `get_file_hashes` maps exactly the requested, not ignored files to their content hashes; `get_file_tree_hashes` maps every tracked, not ignored file to its blob.

The hazards these properties target are listed, each at its source line, under `hazards` in `PROJECT.json`.

## 2. Plan

The plan goes in order of importance. Steps marked "done" are in this directory.

1. **done** `GitRunCommand`: the shared cache under concurrent callers and a changing tree, and its refinement of the abstract `Memo`.
2. **done** `GitTouchedFiles`: the status and diff parsers against the classification table.
3. **done** `TargetHasher` + `TargetHasherPair`: every accumulation method, `to_hash`, and the spec's two-hasher digest claims.
4. **done** `IsGlob`: `is_glob` with its shared-iterator escape check, against the spec's classification over every string of up to 4 bytes.
5. **done** `GlobWalk`: `split_patterns` with `create_glob`'s early error, `walk` with negations, anchors and unreadable entries over a changing directory, and `GlobSet::new`/`matches` over the same patterns.
6. **done** `GitFileHashes`: the `.gitignore` that `Git::new` loads when present, the ignore filter, batched `hash-object` and its positional zip, and `ls-tree` line parsing with git's quoting.
7. **done** `GitRevisions`: the `get_merge_base` candidate fallback under transient and permanent failures through the response cache, `is_default_branch`, `get_touched_files_against_previous_revision`, and the rev-parse and branch queries.
8. `CachePipeline`: tasks run walk, then hashes, then hasher concurrently over one `Git`, with files changing. It checks whether an unchanged input set always yields the same key.
9. Hasher: the `env_vars` field is hashed but never written. A task's env never reaches the digest, contrary to the comment at `hasher.rs:104`.

## 3. Modules

### `GitRunCommand` (+ `MCGitRunCommand`)

Each caller is one async `run_command` call. `pc` holds its await point:

- `StartCall` picks a command line.
- `AcquireRead` corresponds to `read().await`, which is granted while no writer holds the lock.
- `CacheHit` and `CacheMiss` correspond to `contains_key`. Each drops the read guard at the end of the block.
- `AcquireWrite` corresponds to `write().await`.
- `Spawn` is `exec_capture_output().await`. Git observes the tree version at that moment.
- `InsertOutput` inserts the output, returns, and drops the guard.
- `ExecFail` is the `?` error path: the guard is dropped and nothing is cached.

`ChangeRepo` stands for a task writing into the working tree. `answers` is a history of every `Ok` value returned. An output is `[cmd, rev]`: git's output is a function of the command line and the tree.

`Memo` is the abstract cache a caller may rely on: `Hit` returns the stored output, `Store` runs git on the tree as it is (or was since the stored output was made) and stores the result, and a store never goes back to an older tree. `GitRunCommand` instantiates it with the same `cache`, `repo` and `answers` (`Abstract == INSTANCE Memo`), and `ImplementsMemo == Abstract!Spec` is checked as a property. `CacheHit` is a `Hit`, `InsertOutput` is a `Store`, and every lock step, spawn and failure is a stutter.

### `GitTouchedFiles` (+ `MCGitTouchedFiles`)

The repository is an environment that accumulates status entries (`worktree`) and diff entries (`revdiff`). Status entries name `Paths` and diff entries name `DiffPaths`, so that one run covers both queries.

- `StatusOutput` and `DiffOutput` build the records git prints: `XY path`, plus the source path for R/C, and status tokens with 3-digit scores.
- `SplitNul` is `split('\0')`.
- `ParseStatus` is the status loop: the XY regex, `line[3..]` and the two `match` arms.
- `ParseDiff` is the diff loop. It is a `FoldLeft` that carries `last_status`.

Paths and records are sequences of characters, so the regexes see what git prints.

### `IsGlob` (+ `MCIsGlob`)

`IsGlob(v)` is the function: `HasDoubleStar` is `contains("**")`, `Checks` lists the single values and then the pairs in loop order, and `CheckAll` is the two loops as one recursion. It carries `pos`, the number of bytes the shared `bytes()` iterator has consumed: `IsEscaped(v, index, pos)` reads byte `pos + index - 1` (0-based), as `nth(index - 1)` does on an iterator that earlier calls advanced, and `Advance` is what that `nth` consumes. `IsGlobSpec` is the spec's rule, with the escape read at the byte before the first occurrence. A behaviour is one `Classify` call, because is_glob keeps nothing between calls.

### `GlobWalk` (+ `MCGlobWalk`)

`SplitPatterns` is a `FoldLeft` of `SplitStep` (strip one `!` into a negation, or one `/` into an expression). `CreateGlob` fails on the patterns in the constant `Invalid`; the first failure sets `err`, which is the `?` early return, and `Walk` then returns an error. `Walk` runs each positive glob over the directory and keeps an entry unless it is an `Err` (`unreadable`) or a negation matches it. The glob library is the constant operator `WaxMatch`; the MC module gives it a `*`-and-literals matcher in which a pattern still holding its leading `/` matches no relative path. `ChangeTree` and `ChangeAccess` are other tasks creating or deleting files and entries becoming unreadable; `WalkCall` records its arguments, the tree it saw and its result. `GlobSetNew` compiles the patterns as written (no prefix stripped) and fails on the first invalid one; `GlobSetMatches` is `wax::any(...).is_match`. `MatchCall` compiles the last walk's patterns into a `GlobSet` and tests one file, as a caller does when it asks whether a touched file is one of a task's inputs. Each walk clears the previous test.

### `GitFileHashes` (+ `MCGitFileHashes`)

Paths, hashes and outputs are sequences of characters. `GetFileHashes` is the whole call:

- `Objects` filters with `IsFileIgnored`;
- `Join` feeds the paths to `HashObject`, which reads stdin line by line, fails when a path does not exist, and prints one hash per line;
- `Trim`, `SplitOn` and the zip follow, and the zip panics past the end of `objects`.

`GetFileTreeHashes` parses `LsTree`, which prints `<mode> <type> <hash>\t<path>` lines and C-quotes (`Quoted`) a path holding a tab, newline, quote or backslash. Each line goes through `TreeLine`: the last space-separated part, split at the tab. The initial state ranges over every worktree and HEAD content of every path, and over `GitNew` with and without a `.gitignore`: the flag `gitignore` is `ignore.is_some()`, and `IsFileIgnored` is false without one. `HashFiles` and `HashTree` are the two queries.

### `GitRevisions` (+ `MCGitRevisions`)

A revision string is a record: `name` holds the ref's `/`-separated segments, and `up` counts the `~1` suffixes. So `format!("origin/{}", base)` prepends a segment, `format!("{}~1", rev)` increments `up`, and `ends_with("/" + branch)` is `IsStrictSuffix` on segments. Git is the environment, with these constants:

- a commit tree (`Parent`);
- the files each commit changes (`Changes`);
- the refs (`Refs`).

`Resolve`, `MergeBaseOf`, `Diff` and `Output` are what git answers.

The code's operations:

- `RunCommand` is `run_command` on one call's path: a hit, or a spawn that either stores its output or fails and stores nothing.
- `TryCandidates` is the loop of `get_merge_base`: every failure moves on to the next candidate, and after the last one the literal base is returned.
- `GetTouchedFilesBetweenRevisions` runs the merge base and then the diff. The diff's output is the set of files it names; parsing it is `GitTouchedFiles`' subject.
- `GetTouchedFilesAgainstPreviousRevision` substitutes `HEAD` when `IsDefaultBranch` holds.

`TouchedCall` is one query. Its set `F` names the spawns of the call (candidates 1 to 3, then the diff) that fail transiently, within a budget of `MaxFailures`. `RevisionCall` is a rev-parse or branch query. A call is one step: how concurrent callers interleave at the lock is `GitRunCommand`'s subject. The history is `c0 - c1 - c2 (main) - c3 - c4 (feature, HEAD)`, with `origin/main` at `c1` and a tag `root` at `c0`. The default branch is configured as `origin/main`.

### `TargetHasher` and `TargetHasherPair` (+ `MCTargetHasherPair`)

`TargetHasher` has one variable, `hasher`, which holds the struct. Each method is an action:

- `HashArgs`: push the passthrough args, then re-sort.
- `HashInputs`: insert in the incoming map's key order, with paths standardized.
- `HashPackageJson`: `extend` each map that is present.
- `HashProject`: overwrite project_deps.
- `HashTask`: overwrite the task fields, then sort.
- `HashTsconfigJson`: insert the three allowed options.

`ToHash` is the exact byte stream fed to SHA-256, in the code's field order. SHA-256 is treated as injective. `TargetHasherPair` instantiates the hasher twice (`INSTANCE ... WITH hasher <- h1`) and feeds each one calls from one set. It keeps the call histories so that digests can be compared.

## 4. Runs

| Run | Expect | What it shows |
|---|---|---|
| `git_run_command` | pass | `CacheNeverRegresses`: an output already returned is never newer than the cached one. Git runs under the write guard, so inserts land in subprocess order. `CallsComplete`: every call returns, on the hit, miss, error and insert paths. `ImplementsMemo`: the lock-level cache refines the abstract `Memo`. |
| `git_run_command_race` | violation | `AnswersAgree` (spec section 5: "both produce the same result"). Two calls miss together, and a task writes a file in between. The second git run's output replaces the first, so one query answers differently within a run. |
| `touched_files` | pass | `StatusMatchesTable`: every listing of up to 2 status entries (12 XY codes, renames and copies with sources, a name containing a space) gives the table. `DiffMatchesTable`: every diff of up to 2 entries (A D M T U X, and R/C with scores and two paths) gives the table. About 1.5M states, 1.5 minutes. |
| `touched_token_name` | violation | A changed file named `D` (TLC's trace lists it under status `X`) is read as a status token and disappears from the result. |
| `hasher_digest` | pass | `SameContentSameDigest` over input, package, tsconfig, task, passthrough-args and project calls: order, repetition, separators and list order do not change the digest. |
| `hasher_collision` | violation | `DigestSeparatesFields`: args `["ab"]` and `["a","b"]` hash the same bytes. |
| `hasher_call_order` | violation | `TaskArgsOrderFree` (spec 4.1): `hash_args` before `hash_task` loses the passthrough args. |
| `isglob_shared_iterator` | violation | `IsGlobMatchesSpec`: is_glob(`\*\!`) is true. The escaped `*` advanced the shared iterator, so the check of `!` reads `!` itself instead of the backslash before it. |
| `glob_walk` | pass | `WalkMatchesSpec`: for up to two of `*`, `a*`, `/a`, `!*b`, `!a` and the invalid `[` over a three-file directory that changes and has unreadable entries, walk fails exactly when a stripped pattern does not compile, and otherwise returns exactly the readable files a positive pattern matches and no negation matches. `MatchCall` fires over the same inputs (no property: see the hazard at `glob.rs:25`). About 125k states, 1.5 minutes. |
| `file_hashes` | pass | `FileHashesMatchContent`: with and without a `.gitignore`, for every worktree of three files (one ignored) and every request of up to two paths, the result is an error exactly when a wanted file is missing, never a panic, and otherwise the content hash of each wanted file. `TreeHashesMatchHead`: every tracked, not ignored file maps to its blob. |
| `git_revisions` | pass | `BetweenUsesMergeBase`: a between-revisions query in which no spawn failed diffs from the merge base of the first of `main`, `origin/main`, `upstream/main` that resolves. It may be answered from merge bases and diffs that earlier calls cached, including calls that fell back past a failed candidate. `PreviousRevisionIsOneCommit`: an against-previous-revision answer is exactly the changes of one commit (HEAD's for `main`, the part after the last `/` of the default branch `origin/main`), even after a transient failure. The root tag gives an error, never a wrong set. Up to 4 queries with 1 failure: about 8k states. |
| `tree_spaced_name` | violation | A tracked file named `a b` is missing from get_file_tree_hashes: the last space-separated part of its line is `b`, with no tab. |

Each property of a passing run has a mutant in `PROJECT.json`: a plausible bug in the mapped code that TLC catches under the run's own configuration. The mutants are:

- the read guard kept alive across `write()`;
- a failed command's empty stdout cached (caught by `TypeOK`, which says the cache holds only git output for its key);
- git run outside the write guard (caught by `CacheNeverRegresses` and by `ImplementsMemo`);
- the file name sliced one character early;
- the scored-token regex missing;
- paths not standardized;
- passthrough args not re-sorted;
- the `/` anchor not stripped by split_patterns;
- the ignore filter skipped in get_file_hashes;
- the ignore check missing from the tree loop;
- the remote candidates tried before the local ref;
- `HEAD` substituted for the base revision only;
- a failed command cached (caught by `TypeOK`);
- the namespace rule missing from `is_default_branch`.

## 5. Bounds, fairness, and why they suffice

- **`GitRunCommand`** uses 2 callers, 2 command lines, 2 calls each and 2 tree changes. The race needs two callers and one change between their executions. Regression needs two overlapping executions and a change. Both occur at these bounds, and the runs reach about 30k states. Fairness is `WF` on each caller's in-call steps. tokio's `RwLock` is fair (FIFO), the runtime polls every ready task, and the model assumes git terminates; the code has no timeout. Starting a call and changing the tree carry no fairness. The model's lock is not FIFO, which only adds behaviours. Deadlock checking is off because each caller stops after its calls, and the run ends there.
- **`GitTouchedFiles`** uses up to 2 entries of each kind. One entry shows a rename's extra record. Two show the effect of carrying `last_status` from one entry to the next. Status names include a space (which exercises the slice). Diffs use two names, because a diff record is classified by the token before it and not by its characters. The violation run uses a file named like a status token. A rename source named like a status record (`MA g`) would also be misread, as the hazard at `git.rs:232` records; no run checks it.
- **`TargetHasherPair`** allows 2 calls per hasher from 17 calls. That is enough for A,B against B,A, for A against A,A, and for task then args.
- **`IsGlob`** covers every string of up to 4 bytes over `a \ * ? ! { } [ ]` (7381 strings). The shortest wrong answer needs two backslashes and two triggers, so 4 bytes.
- **`GlobWalk`** uses 3 files and lists of up to 2 of 6 patterns. Two patterns are enough for a positive and a negation, for a file pushed twice, for an anchored pattern, and for an invalid pattern after a valid one. The model reaches `/a` walking `a` while the `GlobSet` of `/a` matches nothing, the disagreement the hazard at `glob.rs:25` records. No property states agreement: spec 4.3 calls `GlobSet::matches` independent of the walk, and over unanchored lists agreement follows from the construction alone.
- **`GitRevisions`** uses five commits, 4 queries and 1 transient failure. `origin/main` is one commit behind `main`, so the merge bases of the candidates differ and a fallback can be seen. `feature` is ahead of `main`, so a diff from a base differs from one commit's changes. A root tag makes every candidate fail for `root~1`. One failure is enough for a fallback, and four queries let later calls hit what a fallback cached. The run stops after its queries, so deadlock checking is off. There is no `origin/HEAD` or `origin/feature` ref: with one, the fallback for `HEAD~1` or `feature~1` would resolve to a remote commit. The hazard at `git.rs:46` records this.
- **`GitFileHashes`** uses 3 paths, one of them ignored, 2 contents, and requests of up to 2 paths. An ignored path between two wanted ones is what a misaligned zip needs. The initial state ranges over all 27 worktrees and 27 HEADs.

## 6. Not modelled, and why

- `get_default_branch` is a getter and `create_command` only builds arguments. In `GitRevisions` the default branch is `origin/main`, which has two segments. There, the code's test (any `/`-suffix) and the spec's (the part after the last `/`) agree. They differ for `a/b/main` and `b/main`, and no run checks that case.
- A between-revisions query repeated after a transient merge-base failure can give a different answer from the first one. The earlier answer came from `origin/<base>`, and both diffs stay cached. No run checks this: `BetweenUsesMergeBase` is stated for calls without failures.
- `normalize` is a path-to-string conversion that changes no state; its prefix rewrite is Windows-only. The wax matcher inside `GlobSet` and `walk` is the constant operator `WaxMatch`.
- The `GlobSet`/`walk` disagreement on anchored patterns (`glob.rs:25`) and the hazards without a property (`git.rs:84`, `hasher.rs:101`, `glob.rs:136`, `git.rs:70`) would each need a violation run or a collaborator outside `src/`. The project keeps twelve runs, one per question, and the existing violation runs record confirmed divergences.
- `is_enabled` is a filesystem lookup. A `.gitignore` that the builder cannot read or parse makes `Git::new` fail before any query, so no state follows it. Ignore matching enters as a given set of ignored paths, so the model cannot tell a directory rule from a file rule (see the hazard at `git.rs:70`).
- SHA-256, the gitignore matcher, wax glob compilation and git's blob hashing are libraries or tools. They are modelled by what they guarantee: injectivity, a predicate, a predicate, and a function of the content.
- `walk` sees the directory at one instant. A directory changing during a walk is not modelled.
- `errors.rs` has no state.
- The scheduler, config loading, toolchain, CLI and artifact store are collaborators outside this repository's sources.
