-------------------------------- MODULE Lists --------------------------------
(***************************************************************************)
(* Lists with members taken out, as retain does.                           *)
(***************************************************************************)
EXTENDS Naturals, SequencesExt

(* The members of s that are in a set, in their order; all but one.        *)
Among(s, set) ==
    LET kept[n \in 0 .. Len(s)] ==
            IF n = 0 THEN <<>>
            ELSE IF s[n] \in set THEN Append(kept[n - 1], s[n]) ELSE kept[n - 1]
    IN  kept[Len(s)]
Without(s, x) == Among(s, ToSet(s) \ {x})

(* The numbers from 1 to n that are in a set, in their order.               *)
InOrder(set, n) == Among([i \in 1 .. n |-> i], set)
=============================================================================
