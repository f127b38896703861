-------------------------------- MODULE Memo ---------------------------------
(***************************************************************************)
(* What callers of Git::run_command may rely on, with no locks and no     *)
(* await points: a call either returns the output stored for its command  *)
(* line, or runs git on the working tree as it is (or was, since the      *)
(* stored output was made) and stores and returns that output.  A store   *)
(* never replaces an output by one of an older tree.  The accepted race   *)
(* of spec section 5 (two calls of one command both run git) is a Store   *)
(* over an existing entry.                                                 *)
(***************************************************************************)
EXTENDS Naturals, TLC

CONSTANTS Commands, MaxRepoChanges

VARIABLES cache, repo, answers

Out(c, v) == [cmd |-> c, rev |-> v]

Init ==
    /\ cache = <<>>
    /\ repo = 0
    /\ answers = {}

Hit ==
    \E c \in DOMAIN cache :
        /\ answers' = answers \cup {cache[c]}
        /\ UNCHANGED <<cache, repo>>

Store ==
    \E c \in Commands, v \in 0..repo :
        /\ c \in DOMAIN cache => cache[c].rev <= v
        /\ cache' = (c :> Out(c, v)) @@ cache
        /\ answers' = answers \cup {Out(c, v)}
        /\ UNCHANGED repo

ChangeRepo ==
    /\ repo < MaxRepoChanges
    /\ repo' = repo + 1
    /\ UNCHANGED <<cache, answers>>

Spec == Init /\ [][Hit \/ Store \/ ChangeRepo]_<<cache, repo, answers>>

=============================================================================
