------------------------------- MODULE MCBroker -------------------------------
(***************************************************************************)
(* Broker for TLC: the registry is empty, or holds a name the curated list *)
(* has replaced.                                                           *)
(***************************************************************************)
EXTENDS Broker

CONSTANTS a, b

Old == {{}, {a}}
New == {b}
=============================================================================
