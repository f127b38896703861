-------------------------- MODULE TargetHasherPair --------------------------
(***************************************************************************)
(* Two TargetHashers for the same runtime version, each fed a sequence of *)
(* accumulation calls drawn from one set: the setting of every claim the  *)
(* spec makes about digests (sections 3 and 8), which compare two hashers. *)
(***************************************************************************)
EXTENDS Naturals, Sequences, SequencesExt

CONSTANTS
    Bytes,        \* characters in byte order
    NodeVersion,  \* runtime version both hashers are created with
    Calls,        \* accumulation calls the scheduler may make
    MaxCalls      \* calls made on each hasher

VARIABLES
    h1, h2,           \* the two hashers
    calls1, calls2    \* history: the calls each has received

vars == <<h1, h2, calls1, calls2>>

H1 == INSTANCE TargetHasher WITH hasher <- h1
H2 == INSTANCE TargetHasher WITH hasher <- h2

Init ==
    /\ h1 = H1!New(NodeVersion)
    /\ h2 = H2!New(NodeVersion)
    /\ calls1 = <<>>
    /\ calls2 = <<>>

CallFirst ==
    /\ Len(calls1) < MaxCalls
    /\ \E c \in Calls : H1!Call(c) /\ calls1' = Append(calls1, c)
    /\ UNCHANGED <<h2, calls2>>

CallSecond ==
    /\ Len(calls2) < MaxCalls
    /\ \E c \in Calls : H2!Call(c) /\ calls2' = Append(calls2, c)
    /\ UNCHANGED <<h1, calls1>>

Next == CallFirst \/ CallSecond

Spec == Init /\ [][Next]_vars

-----------------------------------------------------------------------------

Str == Seq(STRING)

(* The field types, and the data model of spec section 3: args and deps  *)
(* are stored sorted and input paths are stored with `/` separators.       *)
TypeOK ==
    /\ calls1 \in Seq(Calls) /\ calls2 \in Seq(Calls)
    /\ \A h \in {h1, h2} :
        /\ {h.command, h.node_version, h.target, h.version} \subseteq Str
        /\ {h.args, h.deps, h.project_deps} \subseteq Seq(Str)
        /\ \A f \in {"args", "deps"} : IsSorted(h[f], LAMBDA a, b : ~H1!StrLess(b, a))
        /\ \A k \in DOMAIN h.input_hashes : "\\" \notin ToSet(k)

(* A call as the digest should see it: input paths with `/` separators and *)
(* the task's and passthrough argument and dependency lists in sorted order. *)
Canon(c) ==
    CASE c.op = "inputs" ->
            [c EXCEPT !.arg = [p \in {H1!StandardizeSeparators(k) : k \in DOMAIN c.arg} |->
                 c.arg[CHOOSE k \in DOMAIN c.arg : H1!StandardizeSeparators(k) = p]]]
      [] c.op = "task" -> [c EXCEPT !.arg.args = H1!Sorted(@), !.arg.deps = H1!Sorted(@)]
      [] c.op = "args" -> [c EXCEPT !.arg = H1!Sorted(@)]
      [] OTHER -> c

Merges == {"inputs", "package", "tsconfig"}

(* The (map, key, value) entries a merge call writes.                     *)
Entries(c) ==
    LET Of(name, opt) == IF opt = <<>> THEN {}
                         ELSE {<<name, k, opt[1][k]>> : k \in DOMAIN opt[1]}
    IN CASE c.op = "inputs" -> Of("inputs", <<c.arg>>)
         [] c.op = "package" -> Of("deps", c.arg.dependencies)
                                \cup Of("dev", c.arg.dev_dependencies)
                                \cup Of("peer", c.arg.peer_dependencies)
         [] c.op = "tsconfig" /\ c.arg.compiler_options /= <<>> ->
                LET co == c.arg.compiler_options[1]
                IN Of("module", co.module) \cup Of("resolution", co.module_resolution)
                   \cup Of("target", co.target)
         [] OTHER -> {}

Consistent(S) ==
    \A a, b \in UNION {Entries(c) : c \in S} :
        a[1] = b[1] /\ a[2] = b[2] => a[3] = b[3]

CanonSeq(s) == [i \in DOMAIN s |-> Canon(s[i])]

(* Spec 3 and 8 (determinism, idempotent merge, order-independence of map *)
(* fields, path normalization): two hashers fed the same calls up to       *)
(* separators and list order, or fed map merges that agree on every key in  *)
(* any order and with any repetition, return the same digest.              *)
SameContentSameDigest ==
    LET S1 == ToSet(CanonSeq(calls1))
        S2 == ToSet(CanonSeq(calls2))
    IN  (\/ CanonSeq(calls1) = CanonSeq(calls2)
         \/ /\ \A c \in S1 \cup S2 : c.op \in Merges
            /\ S1 = S2
            /\ Consistent(S1))
        => H1!ToHash(h1) = H2!ToHash(h2)

Hashed(h) == [f \in DOMAIN h \ {"target"} |-> h[f]]

(* Spec 8: hashers that differ in a hashed field have different digests;  *)
(* spec 4.1 says the fixed field order keeps differently partitioned equal *)
(* byte streams apart.                                                     *)
DigestSeparatesFields ==
    H1!ToHash(h1) = H2!ToHash(h2) => Hashed(h1) = Hashed(h2)

(* Spec 4.1, hash_task: calling order of hash_task and hash_args "matters *)
(* for the final sorted result but not for the digest once both calls have *)
(* completed".                                                             *)
TaskArgsOrderFree ==
    (/\ ToBag(calls1) = ToBag(calls2)
     /\ \A i \in DOMAIN calls1 : calls1[i].op \in {"task", "args"})
    => H1!ToHash(h1) = H2!ToHash(h2)

=============================================================================
