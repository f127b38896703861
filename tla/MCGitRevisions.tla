---------------------------- MODULE MCGitRevisions ----------------------------
EXTENDS GitRevisions

CONSTANTS C0, C1, C2, C3, C4

(* c0 - c1 - c2 (main) - c3 - c4 (feature, HEAD); origin/main is c1, one  *)
(* commit behind main; the tag `root` names the first commit.             *)
MCParent == (C0 :> NoCommit) @@ (C1 :> C0) @@ (C2 :> C1) @@ (C3 :> C2) @@ (C4 :> C3)

MCChanges == (C0 :> {"a", "b"}) @@ (C1 :> {"a"}) @@ (C2 :> {"b"}) @@ (C3 :> {"a"}) @@ (C4 :> {"a"})

MCRefs == (<<"HEAD">> :> C4) @@ (<<"main">> :> C2) @@ (<<"feature">> :> C4)
            @@ (<<"origin", "main">> :> C1) @@ (<<"root">> :> C0)

(* Configured as the remote-tracking name, as moon allows.                *)
MCDefaultBranch == <<"origin", "main">>

MCBases == {Rev(<<"main">>)}

MCRevisions == {Rev(<<"main">>), Rev(<<"feature">>), HeadRev, Rev(<<"root">>)}

=============================================================================
