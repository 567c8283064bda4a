------------------------------- MODULE Keeping -------------------------------
(***************************************************************************)
(* SelectSeq with a set for the test, and as a recursive function, which   *)
(* can be reasoned about.                                                  *)
(***************************************************************************)
EXTENDS Naturals, Sequences

\* What of a sequence is in T, in its order.
Keep(s, T) ==
    LET kept[k \in 0..Len(s)] ==
            IF k = 0 THEN <<>>
            ELSE IF s[k] \in T THEN Append(kept[k - 1], s[k])
            ELSE kept[k - 1]
    IN kept[Len(s)]
=============================================================================
