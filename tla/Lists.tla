------------------------------- MODULE Lists -------------------------------
(***************************************************************************)
(* Lists, as the store, the wire and the interface keep them.  What a loop *)
(* makes of a list is written as a recursive function of the index, which, *)
(* unlike SelectSeq and the folds, proofs can unfold.                      *)
(***************************************************************************)
EXTENDS Naturals, Sequences

\* The elements of a list that are in S, in their order.
Only(list, S) ==
  LET kept[i \in 0 .. Len(list)] ==
        IF i = 0 THEN << >>
        ELSE IF list[i] \in S THEN Append(kept[i - 1], list[i]) ELSE kept[i - 1]
  IN  kept[Len(list)]
=============================================================================
