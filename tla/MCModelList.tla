----------------------------- MODULE MCModelList -----------------------------
(***************************************************************************)
(* ModelList for TLC: four versions.  The second replaces an entry of the  *)
(* wheel's, the third renames a model under its old name and drops the     *)
(* alias, the last is empty.                                               *)
(***************************************************************************)
EXTENDS ModelList

CONSTANTS a, b

FourLists == <<{a}, {b}, {a, b}, {}>>
OneRenamed == [v \in Versions |-> [m \in Names |-> IF v = 3 /\ m = b THEN "new" ELSE "old"]]
=============================================================================
