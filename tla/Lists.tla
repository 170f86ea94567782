------------------------------- MODULE Lists -------------------------------
(***************************************************************************)
(* The loop by which the program picks from a list: for every item in      *)
(* turn, skip it or append it (keepNew, the filter of listClusters,        *)
(* registerCollectors).  It is SelectSeq with a set for a test, written    *)
(* out because the provers know nothing of SelectSeq; ListsProofs.tla      *)
(* proves what it returns.                                                 *)
(***************************************************************************)
EXTENDS Integers, Sequences

(* The items of the list that are in the set, in the list's order. *)
Only(list, set) ==
  LET kept[n \in 0 .. Len(list)] ==
        IF n = 0 THEN << >>
        ELSE IF list[n] \in set THEN Append(kept[n - 1], list[n]) ELSE kept[n - 1]
  IN  kept[Len(list)]
=============================================================================
