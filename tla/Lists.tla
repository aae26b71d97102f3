-------------------------------- MODULE Lists --------------------------------
(***************************************************************************)
(* Selection from a sequence by a set of its elements.  It is what         *)
(* SelectSeq does, with the test as a set, so that facts about it can be   *)
(* stated once and proved (module ListProofs).                             *)
(***************************************************************************)
EXTENDS Naturals, Sequences

\* The elements of s that are in T, in their order.
Filter(s, T) ==
    LET F[i \in 0 .. Len(s)] ==
            IF i = 0 THEN <<>>
            ELSE IF s[i] \in T THEN Append(F[i - 1], s[i]) ELSE F[i - 1]
    IN F[Len(s)]
=============================================================================
