-------------------------------- MODULE Lists -------------------------------
(***************************************************************************)
(* The intrusive lists of klib/list.hpp, as the sequence of what is on     *)
(* them.                                                                   *)
(***************************************************************************)
EXTENDS Integers, Sequences

\* The entries of the list s that are in A, in the order of the list: what is
\* left when a loop has unlinked the others with ListHead::remove.
Select(s, A) ==
    LET kept[i \in 0 .. Len(s)] ==
            IF i = 0 THEN <<>>
            ELSE IF s[i] \in A THEN Append(kept[i - 1], s[i])
            ELSE kept[i - 1]
    IN  kept[Len(s)]
=============================================================================
