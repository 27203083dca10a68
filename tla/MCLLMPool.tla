----------------------------- MODULE MCLLMPool ------------------------------
(***************************************************************************)
(* LLMPool for TLC: two calls compete for one or two models.               *)
(***************************************************************************)
EXTENDS LLMPool

(* A call in the wait of acquire_many does not stay there for ever, whatever the admin *)
(* and the rebuilds do: EveryWaiterIsWoken of one call, as nothing tells one call from *)
(* another.                                                                            *)
OneWaiterIsWoken == WaiterIsWoken(CHOOSE c \in Callers : TRUE)
=============================================================================
