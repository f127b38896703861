------------------------------- MODULE IsGlob --------------------------------
(***************************************************************************)
(* is_glob (crates/utils/src/glob.rs): the heuristic that decides whether  *)
(* a task input is a pattern.  A value is a sequence of one-byte strings. *)
(* The escape check is a closure over ONE `value.bytes()` iterator that    *)
(* every call advances with nth(); the model carries the number of bytes  *)
(* that iterator has consumed (`pos`) from one check to the next.         *)
(* is_glob keeps nothing between calls (the iterator is created by each  *)
(* call), so a behaviour is one call: each classification is a state TLC *)
(* compares with the reference.                                            *)
(***************************************************************************)
EXTENDS Naturals, Sequences, SequencesExt

CONSTANT Values     \* the strings is_glob is asked about

VARIABLES
    value,          \* the string of the last call
    classified      \* what is_glob returned for it

vars == <<value, classified>>

Backslash == "\\"

(* single_values, then paired_values, in the order the loops visit them;  *)
(* a single value is written as a pair whose close is itself.             *)
Checks == << <<"*", "*">>, <<"?", "?">>, <<"!", "!">>,
             <<"{", "}">>, <<"[", "]">> >>

(* value.contains("**") *)
HasDoubleStar(v) == \E i \in 1..(Len(v) - 1) : v[i] = "*" /\ v[i + 1] = "*"

(* value.find(c): the 0-based byte index of the first occurrence.         *)
Find(v, c) == SelectInSeq(v, LAMBDA x : x = c) - 1

(* is_escaped(index): 0 is never escaped; otherwise bytes.nth(index - 1)  *)
(* returns the byte at 0-based offset pos + index - 1 of the value, or    *)
(* None (read as ' ') once the iterator runs out.                          *)
IsEscaped(v, index, pos) ==
    index /= 0 /\ pos + index <= Len(v) /\ v[pos + index] = Backslash

(* The bytes the iterator has consumed after is_escaped(index).           *)
Advance(v, index, pos) ==
    IF index = 0 THEN pos ELSE IF pos + index <= Len(v) THEN pos + index ELSE Len(v)

(* The two for-loops: a check applies when its characters occur; the     *)
(* first unescaped occurrence returns true; otherwise on to the next.     *)
RECURSIVE CheckAll(_, _, _)
CheckAll(v, checks, pos) ==
    IF checks = <<>> THEN FALSE
    ELSE LET open  == Head(checks)[1]
             index == Find(v, open)
         IN IF Contains(v, open) /\ Contains(v, Head(checks)[2])
            THEN \/ ~IsEscaped(v, index, pos)
                 \/ CheckAll(v, Tail(checks), Advance(v, index, pos))
            ELSE CheckAll(v, Tail(checks), pos)

IsGlob(v) == HasDoubleStar(v) \/ CheckAll(v, Checks, 0)

Init ==
    /\ value = <<>>
    /\ classified = FALSE

Classify ==
    /\ value = <<>>
    /\ \E v \in Values :
           /\ value' = v
           /\ classified' = IsGlob(v)

Next == Classify

Spec == Init /\ [][Next]_vars

-----------------------------------------------------------------------------

(* Spec section 4.3: a value is a glob when it contains `**`, or one of   *)
(* `*` `?` `!` whose FIRST occurrence is not immediately preceded by a    *)
(* backslash, or both characters of `{}` / `[]` with the first opening    *)
(* one not so preceded.                                                     *)
IsGlobSpec(v) ==
    LET Unescaped(c) == Find(v, c) = 0 \/ v[Find(v, c)] /= Backslash
    IN \/ HasDoubleStar(v)
       \/ \E c \in {"*", "?", "!"} : Contains(v, c) /\ Unescaped(c)
       \/ \E pr \in {<<"{", "}">>, <<"[", "]">>} :
              Contains(v, pr[1]) /\ Contains(v, pr[2]) /\ Unescaped(pr[1])

(* is_glob, whose escape checks share one byte iterator, classifies every *)
(* value as the spec's heuristic does.                                    *)
IsGlobMatchesSpec == classified = IsGlobSpec(value)

=============================================================================
