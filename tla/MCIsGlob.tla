------------------------------ MODULE MCIsGlob -------------------------------
EXTENDS IsGlob

Alphabet == {"a", "\\", "*", "?", "!", "{", "}", "[", "]"}

(* Every string of up to 4 bytes over the characters is_glob looks at.    *)
AllValues == BoundedSeq(Alphabet, 4)

=============================================================================
