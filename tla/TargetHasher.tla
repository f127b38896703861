---------------------------- MODULE TargetHasher ----------------------------
(***************************************************************************)
(* TargetHasher (crates/hasher/src/hasher.rs): the accumulator a task's    *)
(* cache key is built from.  One hasher is one `TargetHasher` value; each  *)
(* accumulation method is an action on it and `to_hash` is an operator.   *)
(* Strings are sequences of one-character strings so that sorting and the *)
(* separator-free concatenation `to_hash` performs are the code's.  SHA-256 *)
(* is taken to be injective: the digest is the byte stream it is fed.      *)
(***************************************************************************)
EXTENDS Naturals, Sequences, SequencesExt

CONSTANTS
    Bytes    \* the characters strings are made of, in byte (UTF-8) order

VARIABLE hasher

(******************************* strings **********************************)

Rank(ch) == CHOOSE i \in DOMAIN Bytes : Bytes[i] = ch

(* Ord for String: byte-wise lexicographic order.                         *)
StrLess(s, t) ==
    \/ IsStrictPrefix(s, t)
    \/ \E i \in 1..Len(s) :
        /\ i <= Len(t)
        /\ SubSeq(s, 1, i - 1) = SubSeq(t, 1, i - 1)
        /\ Rank(s[i]) < Rank(t[i])

(* Vec<String>::sort                                                      *)
Sorted(v) == SortSeq(v, StrLess)

(* BTreeMap<String, String>: a function on its keys, iterated in key order. *)
EmptyMap == <<>>
SortedKeys(m) == SetToSortSeq(DOMAIN m, StrLess)
MapInsert(m, k, v) == (k :> v) @@ m
MapExtend(m, n) == n @@ m

(* moon_utils::path::standardize_separators: `\` becomes `/`.            *)
StandardizeSeparators(p) == [i \in DOMAIN p |-> IF p[i] = "\\" THEN "/" ELSE p[i]]

(******************************** state ***********************************)

(* TargetHasher::new(node_version): version "1", every other field empty. *)
New(node_version) ==
    [command |-> <<>>, args |-> <<>>, deps |-> <<>>,
     env_vars |-> EmptyMap, input_hashes |-> EmptyMap,
     node_version |-> node_version,
     package_dependencies |-> EmptyMap, package_dev_dependencies |-> EmptyMap,
     package_peer_dependencies |-> EmptyMap,
     project_deps |-> <<>>, target |-> <<>>,
     tsconfig_compiler_options |-> EmptyMap,
     version |-> <<"1">>]

(* An Option<T> of the collaborators' records is <<>> or <<value>>.       *)
IfSome(opt, F(_), default) == IF opt = <<>> THEN default ELSE F(opt[1])

(****************************** operations ********************************)

(* Variant: passthrough args appended without re-sorting.                *)
HashArgsUnsorted(passthrough_args) ==
    hasher' = IF passthrough_args = <<>> THEN hasher
              ELSE [hasher EXCEPT !.args = @ \o passthrough_args]

HashArgs(passthrough_args) ==
    hasher' = IF passthrough_args = <<>> THEN hasher
              ELSE [hasher EXCEPT !.args = Sorted(@ \o passthrough_args)]

(* Variant: paths inserted as given, without standardizing separators.   *)
HashInputsRaw(inputs) ==
    hasher' = [hasher EXCEPT !.input_hashes = MapExtend(@, inputs)]

(* Entries are visited in the key order of the incoming BTreeMap, so of   *)
(* two keys that standardize to the same path the greater one wins.       *)
HashInputs(inputs) ==
    LET Put(acc, file) == MapInsert(acc, StandardizeSeparators(file), inputs[file])
    IN hasher' = [hasher EXCEPT !.input_hashes = FoldLeft(Put, @, SortedKeys(inputs))]

HashPackageJson(package) ==
    hasher' = [hasher EXCEPT
        !.package_dependencies =
            IfSome(package.dependencies, LAMBDA d : MapExtend(@, d), @),
        !.package_dev_dependencies =
            IfSome(package.dev_dependencies, LAMBDA d : MapExtend(@, d), @),
        !.package_peer_dependencies =
            IfSome(package.peer_dependencies, LAMBDA d : MapExtend(@, d), @)]

(* project.get_dependencies() is sorted by the project; not re-sorted.    *)
HashProject(project) ==
    hasher' = [hasher EXCEPT !.project_deps = project.dependencies]

HashTask(task) ==
    hasher' = [hasher EXCEPT !.command = task.command,
                             !.args = Sorted(task.args),
                             !.deps = Sorted(task.deps),
                             !.target = task.target]

(* Only module, module_resolution and target; the value is the option's   *)
(* {:?} rendering, which the collaborator record already holds.           *)
HashTsconfigJson(tsconfig) ==
    LET Put(m, key, opt) == IfSome(opt, LAMBDA v : MapInsert(m, key, v), m)
        Options(co) ==
            Put(Put(Put(hasher.tsconfig_compiler_options,
                        <<"m">>, co.module),
                    <<"m", "r">>, co.module_resolution),
                <<"t">>, co.target)
    IN hasher' = [hasher EXCEPT !.tsconfig_compiler_options =
                      IfSome(tsconfig.compiler_options, Options, @)]

(* to_hash: the bytes fed to Sha256, in the fixed field order, with no   *)
(* separator between fields, list items, keys or values.                  *)
ToHash(h) ==
    LET Vec(v) == FlattenSeq(v)
        Tree(m) == FlattenSeq([i \in 1..Cardinality(DOMAIN m) |->
                                 SortedKeys(m)[i] \o m[SortedKeys(m)[i]]])
    IN h.version \o h.node_version \o h.command
       \o Vec(h.args) \o Vec(h.deps) \o Tree(h.env_vars) \o Tree(h.input_hashes)
       \o Vec(h.project_deps) \o Tree(h.package_dependencies)
       \o Tree(h.package_dev_dependencies) \o Tree(h.package_peer_dependencies)
       \o Tree(h.tsconfig_compiler_options)

(* One call of an accumulation method, as the scheduler makes it.         *)
Call(c) ==
    \/ c.op = "args" /\ HashArgs(c.arg)
    \/ c.op = "inputs" /\ HashInputs(c.arg)
    \/ c.op = "package" /\ HashPackageJson(c.arg)
    \/ c.op = "project" /\ HashProject(c.arg)
    \/ c.op = "task" /\ HashTask(c.arg)
    \/ c.op = "tsconfig" /\ HashTsconfigJson(c.arg)

=============================================================================
