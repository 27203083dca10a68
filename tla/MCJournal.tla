------------------------------ MODULE MCJournal ------------------------------
(***************************************************************************)
(* Journal for TLC: two calls of one model on one trace.                   *)
(***************************************************************************)
EXTENDS Journal

CONSTANTS c1, c2, m1

OneModel == [c \in Calls |-> m1]
OneTrace == [c \in Calls |-> "t"]
=============================================================================
