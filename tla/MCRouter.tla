------------------------------ MODULE MCRouter ------------------------------
(***************************************************************************)
(* Router for TLC.  Every model is paid with a key of its own, or all with *)
(* one.                                                                    *)
(***************************************************************************)
EXTENDS Router, TLC

OwnKey == [m \in Models |-> m]
OneKey == [m \in Models |-> CHOOSE r \in Refs : TRUE]

Symmetry == Permutations(Models)
=============================================================================
