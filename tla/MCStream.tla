------------------------------ MODULE MCStream ------------------------------
(***************************************************************************)
(* Stream for TLC.  An ordinary stream needs two deltas to be held twice;  *)
(* a raced one shows every interleaving of its lanes with one.  Three      *)
(* models let a race refill its wave and hold two answers back; they are   *)
(* interchangeable, which only the run of invariants uses.                 *)
(***************************************************************************)
EXTENDS Stream, TLC

Deltas == [w \in Widths |-> IF w = 1 THEN 2 ELSE 1]

Interchangeable == Permutations(Models)
=============================================================================
